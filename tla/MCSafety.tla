------------------------------ MODULE MCSafety ------------------------------
(***************************************************************************)
(* The parts of which only safety is asked, on small instances: the funnel *)
(* of bets and the trading screens of the bot, its accounts, gate and news *)
(* messages, the recording of bets, the images and the bets of posts, and  *)
(* the forms of the dashboard.  What they share, such as the gate before   *)
(* every update, changes nothing in the others; a behaviour is one of one  *)
(* of them, "part", the others staying where they start.                   *)
(***************************************************************************)
EXTENDS BetFunnel, Connect, Dashboard, Access, Activity, Delivery, CardImages, NewsCta,
        OrderDesk, TLC

\* Lists of positions with dust, a row without a token and more than the cap.
Listed(t, s) == [token |-> t, size |-> s]
MCListings ==
    {<<Listed("t1", 10000000)>>,
     <<Listed("t1", 0), Listed("t2", 3), Listed("none", 5), Listed("t1", 7000000), Listed("t3", 1)>>}

\* Markets and events as Gamma may answer, and headlines, as sets of words.
Choice(id, label, question, open, yes) ==
    [id |-> id, label |-> label, question |-> question, open |-> open, yes |-> yes]
Cuban(open, yes) == Choice("m1", {"cuban", "mark"}, {"cuban", "mark", "win"}, open, yes)
Harris == Choice("m2", {"harris"}, {"harris", "win"}, TRUE, 40)
Newsom == Choice("m3", {"newsom"}, {"newsom", "win"}, TRUE, 60)
Nominee(open, yes) ==
    [title |-> {"democratic", "nominee"},
     markets |-> <<Cuban(open, yes), Harris, Cuban(open, yes), Newsom>>]
Bitcoin(yes) ==
    [title |-> {"bitcoin", "price"},
     markets |-> <<Choice("m4", {}, {"bitcoin", "price", "june"}, TRUE, yes)>>]
MCHeadlines ==
    {{"cuban", "mark", "bitcoin", "sell"}, {"bitcoin", "price", "fall"},
     {"harris", "nominee", "democratic", "win"}}
MCPools ==
    {<<>>, <<Nominee(TRUE, 30)>>, <<Bitcoin(-1), Nominee(TRUE, 80)>>,
     <<Nominee(FALSE, 80), Bitcoin(20)>>}

VARIABLE part

funnelVars == vars
accountVars == connectVars
adminVars == dashVars

\* The funnel with a list of two markets, a bet button of a post, a wallet.
MCLists == {<<"m2", "m1">>}
MCOutcome == [l \in {"l1"} |-> <<"m1", "yes">>]

\* The same with two wallets, and a market opened by its id instead of the list.
Panel == INSTANCE BetFunnel WITH
    Markets <- {"m1", "m2"}, Lists <- {}, Panels <- {"m2"}, Links <- {"l1"},
    Outcome <- [l \in {"l1"} |-> <<"m1", "yes">>],
    Accounts <- {"a1", "a2"}, NoMarket <- "none", NoLink <- "none", NoAccount <- "none",
    Ttl <- 0, MaxGen <- 2, MaxPrompts <- 1, MaxRestarts <- 0

\* Connecting with one key.
MCSigner == [k \in {"k1"} |-> "eoa1"]

\* Long and short lists of positions and orders.
MCOrderLists == {<<"o1">>, <<"o2", "o1">>}

\* One category and the banner.
MCDeck == <<"c1">>

\* One bettor, three bets: one in the Mini App, two in the bot that do not differ.
CONSTANTS t1, t2, t3
BotBets == Permutations({t1, t3})
MCBettor == [t \in {t1, t2, t3} |-> "ann"]
MCPoints == [t \in {t1, t2, t3} |-> IF t = t2 THEN 12 ELSE 30]
MCRates == <<10, 5, 3>>

\* A realtime user, quiet in the first hour, and a daily one.
MCRelevant == [u \in {"ann", "bob"} |-> IF u = "ann" THEN {2} ELSE {1, 2}]
MCMode == [u \in {"ann", "bob"} |-> IF u = "ann" THEN "realtime" ELSE "daily"]
MCHour == [u \in {"ann", "bob"} |-> 1]

ASSUME Panel!BetFunnelAssumption

safetyVars ==
    <<part, funnelVars, accountVars, deskVars, accessVars, cardsVars, ctaVars, adminVars,
      activityVars, dmVars>>

\* The budget is lowered, not raised first; and one initial state is enough of a
\* part that stands still.
SafetyInit ==
    /\ part \in {"funnel", "panel", "accounts", "desk", "gate", "cards", "cta", "admin",
                 "recording", "dms"}
    /\ Init /\ ConnectInit /\ DashInit /\ ActivityInit
    /\ DeskInit /\ AccessInit /\ CardsInit /\ CtaInit /\ DmInit
    /\ part # "gate" => gate
    /\ budget = 4
    /\ part # "cta" =>
         /\ search = <<>> /\ trending = <<>>
         /\ item.hint = "none" /\ item.headline = {"bitcoin", "price", "fall"}
    /\ part # "admin" => admins = <<>>

FunnelAlone(p) ==
    part = p /\ UNCHANGED
      <<part, accountVars, deskVars, accessVars, cardsVars, ctaVars, adminVars,
        activityVars, dmVars>>
AccountsAlone ==
    part = "accounts" /\ UNCHANGED
      <<part, funnelVars, deskVars, accessVars, cardsVars, ctaVars, adminVars, activityVars,
        dmVars>>
DeskAlone ==
    part = "desk" /\ UNCHANGED
      <<part, funnelVars, accountVars, accessVars, cardsVars, ctaVars, adminVars,
        activityVars, dmVars>>
GateAlone ==
    part = "gate" /\ UNCHANGED
      <<part, funnelVars, accountVars, deskVars, cardsVars, ctaVars, adminVars,
        activityVars, dmVars>>
CardsAlone ==
    part = "cards" /\ UNCHANGED
      <<part, funnelVars, accountVars, deskVars, accessVars, ctaVars, adminVars,
        activityVars, dmVars>>
CtaAlone ==
    part = "cta" /\ UNCHANGED
      <<part, funnelVars, accountVars, deskVars, accessVars, cardsVars, adminVars,
        activityVars, dmVars>>
AdminAlone ==
    part = "admin" /\ UNCHANGED
      <<part, funnelVars, accountVars, deskVars, accessVars, cardsVars, ctaVars,
        activityVars, dmVars>>
RecordingAlone ==
    part = "recording" /\ UNCHANGED
      <<part, funnelVars, accountVars, deskVars, accessVars, cardsVars, ctaVars, adminVars,
        dmVars>>
DmsAlone ==
    part = "dms" /\ UNCHANGED
      <<part, funnelVars, accountVars, deskVars, accessVars, cardsVars, ctaVars, adminVars,
        activityVars>>

SafetyNext ==
    \/ FunnelAlone("funnel") /\ Next
    \/ FunnelAlone("panel") /\ Panel!Next
    \/ AccountsAlone /\ ConnectNext
    \/ DeskAlone /\ DeskNext
    \/ GateAlone /\ AccessNext
    \/ CardsAlone /\ CardsNext
    \/ CtaAlone /\ CtaNext
    \/ AdminAlone /\ DashNext
    \/ RecordingAlone /\ ActivityNext
    \/ DmsAlone /\ DmNext

SafetySpec == SafetyInit /\ [][SafetyNext]_safetyVars

-----------------------------------------------------------------------------

\* What holds of the state of each part: in each module, what its own
\* invariant says of it; and in the trading screens, that a tap on a line means
\* what that line showed.
SafetyInv ==
    /\ part = "funnel" => FunnelInv
    /\ part = "panel" => Panel!FunnelInv
    /\ part = "accounts" => ConnectInv
    /\ part = "admin" => DashInv
    /\ part = "gate" => AccessInv
    /\ part = "recording" => ActivityInv
    /\ part = "desk" => DeskInv /\ TapsMeanTheirLine
    /\ part = "cards" => CardsInv
    /\ part = "cta" => CtaInv
    /\ part = "dms" => DeliveryInv /\ DeliveredWereSent
=============================================================================
