------------------------------- MODULE MCJobs -------------------------------
(***************************************************************************)
(* Four of the bot's jobs on small instances: settlement, as in            *)
(* MCSettlement, the news messages, the broadcasts, and the clean-up of    *)
(* bets waiting for a wallet, with the funnel that leaves them.  They      *)
(* share nothing but the scheduler, so a behaviour is one of one job,      *)
(* "part", the others staying where they start.                            *)
(***************************************************************************)
EXTENDS MCSettlement, Broadcast

VARIABLES
    part,
    hour, published, mode, digestHour, quiet, digestToday, dmBlocked, delivered, dms, digests,
    dmJob, switches, dmChoices, dmFaults,
    epoch, data, buttons, prompts, accts, intents, offered, resuming

\* A realtime user, quiet in the first hour, and a daily one; two items and a fault.
Dms == INSTANCE Delivery WITH
    Readers <- {"ann", "bob"}, NoReader <- "none", MaxItem <- 2,
    Relevant <- [u \in {"ann", "bob"} |-> IF u = "ann" THEN {2} ELSE {1, 2}],
    OnlyRelevant <- {"bob"}, FirstQuiet <- {"ann"}, QuietHours <- {0}, Hours <- 2,
    FirstMode <- [u \in {"ann", "bob"} |-> IF u = "ann" THEN "realtime" ELSE "daily"],
    FirstHour <- [u \in {"ann", "bob"} |-> 1],
    RealtimeMax <- 1, DigestMax <- 2, TickCap <- 1, MaxChoices <- 0, MaxFaults <- 1,
    blocked <- dmBlocked, job <- dmJob, choices <- dmChoices, faults <- dmFaults

\* The two buttons of a post with bets, and a wallet.
Funnel == INSTANCE BetFunnel WITH
    Markets <- {"m1", "m2"}, Lists <- {}, Panels <- {}, Links <- {"l1", "l2"},
    Outcome <- [l \in {"l1", "l2"} |-> IF l = "l1" THEN <<"m1", "yes">> ELSE <<"m2", "yes">>],
    Accounts <- {"a1"}, NoMarket <- "none", NoLink <- "none", NoAccount <- "none",
    Ttl <- 1, MaxGen <- 2, MaxPrompts <- 1, MaxRestarts <- 1,
    sent <- buttons

ASSUME Dms!DeliveryAssumption /\ Funnel!BetFunnelAssumption

dmVars == <<hour, published, mode, digestHour, quiet, digestToday, dmBlocked, delivered, dms,
            digests, dmJob, switches, dmChoices, dmFaults>>
funnelVars == <<epoch, data, buttons, prompts, accts, intents, offered, resuming>>
jobsVars == <<part, vars, dmVars, sendVars, funnelVars>>

JobsInit ==
    /\ part \in {"settlement", "dms", "sends", "funnel"}
    /\ Init /\ Dms!DmInit /\ BroadcastInit /\ Funnel!Init

SettlementAlone == part = "settlement" /\ UNCHANGED <<part, dmVars, sendVars, funnelVars>>
DmsAlone == part = "dms" /\ UNCHANGED <<part, vars, sendVars, funnelVars>>
SendsAlone == part = "sends" /\ UNCHANGED <<part, vars, dmVars, funnelVars>>
FunnelAlone == part = "funnel" /\ UNCHANGED <<part, vars, dmVars, sendVars>>

JobsNext ==
    \/ SettlementAlone /\ Next
    \/ DmsAlone /\ Dms!DmNext
    \/ SendsAlone /\ BroadcastNext
    \/ FunnelAlone /\ Funnel!Next

\* The fairness of each module.  Where only one part ever moves, fairness to a
\* step of each is fairness to their disjunction.
JobsFairness ==
    /\ WF_jobsVars(\/ SettlementAlone /\ JobStep
                   \/ SendsAlone /\ SendStep
                   \/ FunnelAlone /\ Funnel!ExpireStale
                   \/ DmsAlone /\ Dms!JobStep("realtime"))
    /\ WF_jobsVars(DmsAlone /\ Dms!JobStep("digest"))
    /\ WF_jobsVars(DmsAlone /\ Dms!NextHour)
    /\ \A c \in {"realtime", "digest"}, h \in 0 .. 1 :
         \/ []<>(part # "dms" \/ ~Dms!Wanted(c))
         \/ []<><<DmsAlone /\ Dms!StartRun(c) /\ hour = h>>_jobsVars

JobsSpec == JobsInit /\ [][JobsNext]_jobsVars /\ JobsFairness

-----------------------------------------------------------------------------

\* What holds of the state of each job: what a run still holds is not recorded
\* yet, and what is recorded as delivered or done was sent; a prompt is for
\* what its button showed, and an intent resumed was shown.
JobsInv ==
    /\ part = "dms" => Dms!DeliveryInv /\ Dms!DeliveredWereSent
    /\ part = "sends" => BroadcastInv
    /\ part = "funnel" => Funnel!FunnelInv /\ Funnel!TapsMeanWhatWasShown /\ Funnel!ResumedWereShown

\* A relevant item reaches the realtime user, quiet hours, caps and faults passed.
RealtimeArrives == part = "dms" => Dms!RealtimeArrives

\* No intent stays pending or resumed past its time to live.
StaleIntentsEnd == Funnel!StaleIntentsEnd
=============================================================================
