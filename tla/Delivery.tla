------------------------------ MODULE Delivery ------------------------------
(***************************************************************************)
(* News items sent to users outside any transaction and recorded           *)
(* afterwards, by the realtime and the digest job (_deliver in             *)
(* bot/news/jobs.py).  The two run in one event loop, one instance of      *)
(* each; users change their preferences and block the bot, and the clock   *)
(* moves, while they send.                                                 *)
(***************************************************************************)
EXTENDS Integers, FiniteSets

CONSTANTS
    Readers,
    MaxItem,        \* bound: news items, numbered as they are published
    Relevant,       \* per user: items of followed topics or held markets
    OnlyRelevant,   \* users with only_relevant
    FirstMode,      \* the preference rows at the start: mode, digest hour,
    FirstHour,      \* and the users with quiet hours
    FirstQuiet,
    Hours,          \* the clock has the hours 0 .. Hours - 1 of the users' day
    QuietHours,     \* 22:00 to 07:00
    RealtimeMax,    \* settings.news_realtime_max
    DigestMax,      \* max_per_digest
    TickCap,        \* settings.news_per_tick_cap
    NoReader,
    MaxChoices,     \* bound: what users do to their preferences
    MaxFaults       \* bound: crashes, lost sends, failed transactions

ASSUME DeliveryAssumption ==
    /\ NoReader \notin Readers /\ OnlyRelevant \subseteq Readers /\ FirstQuiet \subseteq Readers
    /\ FirstMode \in [Readers -> {"off", "daily", "realtime"}]
    /\ FirstHour \in [Readers -> 0 .. Hours - 1]
    /\ Relevant \in [Readers -> SUBSET (1 .. MaxItem)]
    /\ {MaxItem, RealtimeMax, DigestMax, TickCap, MaxChoices, MaxFaults} \subseteq Nat /\ Hours \in Nat \ {0}

Items == 1 .. MaxItem
Modes == {"off", "daily", "realtime"}
Channels == {"realtime", "digest"}

VARIABLES
    hour,
    published,      \* items 1 .. published have status "sent"
    mode,           \* user_news_prefs.delivery
    digestHour,     \* user_news_prefs.digest_hour
    quiet,          \* users whose quiet_start .. quiet_end is QuietHours
    digestToday,    \* users whose last_digest_at is of today
    blocked,        \* Telegram: users who blocked the bot
    delivered,      \* news_delivered
    dms,            \* Telegram: how often each user was sent each item
    digests,        \* Telegram: digests of today's date each user was sent
    job,            \* the run of each news job
    switches, choices, faults

prefVars == <<mode, digestHour, quiet, blocked, switches, choices>>
newsVars == <<digestToday, delivered, dms, digests, job>>
dmVars == <<hour, published, prefVars, newsVars, faults>>

NoRun == [pc |-> "idle", todo |-> {}, today |-> TRUE, sent |-> 0, cur |-> NoReader, items |-> {}]

JobRuns == [pc : {"idle", "next", "send", "off", "mark"}, todo : SUBSET Readers, today : BOOLEAN,
         sent : Nat, cur : Readers \cup {NoReader}, items : SUBSET Items]

TypeOK ==
    /\ hour \in 0 .. Hours - 1
    /\ published \in 0 .. MaxItem
    /\ mode \in [Readers -> Modes]
    /\ digestHour \in [Readers -> 0 .. Hours - 1]
    /\ quiet \subseteq Readers /\ digestToday \subseteq Readers /\ blocked \subseteq Readers
    /\ delivered \subseteq Readers \X Items
    /\ dms \in [Readers -> [Items -> Nat]]
    /\ digests \in [Readers -> Nat]
    /\ job \in [Channels -> JobRuns]
    /\ switches \in [Readers -> Nat]
    /\ choices \in 0 .. MaxChoices
    /\ faults \in 0 .. MaxFaults

DmInit ==
    /\ hour = 0 /\ published = 0
    /\ mode = FirstMode /\ digestHour = FirstHour /\ quiet = FirstQuiet
    /\ digestToday = {} /\ blocked = {} /\ delivered = {}
    /\ dms = [u \in Readers |-> [i \in Items |-> 0]]
    /\ digests = [u \in Readers |-> 0]
    /\ job = [c \in Channels |-> NoRun]
    /\ switches = [u \in Readers |-> 0] /\ choices = 0 /\ faults = 0

Fault == faults < MaxFaults /\ faults' = faults + 1
Choose == choices < MaxChoices /\ choices' = choices + 1

----------------------------------------------------------------------------
(* The world: news are published, time passes, users choose.               *)

Publish ==
    /\ published < MaxItem
    /\ published' = published + 1
    /\ UNCHANGED <<hour, prefVars, newsVars, faults>>

\* At midnight yesterday's digests no longer count, for the runs under way too.
NextHour ==
    /\ hour' = (hour + 1) % Hours
    /\ IF hour' = 0
       THEN /\ digestToday' = {}
            /\ digests' = [u \in Readers |-> 0]
            /\ job' = [c \in Channels |-> IF job[c].pc = "idle" THEN job[c]
                                          ELSE [job[c] EXCEPT !.today = FALSE]]
       ELSE UNCHANGED <<digestToday, digests, job>>
    /\ UNCHANGED <<published, prefVars, delivered, dms, faults>>

\* on_news: a user who has not blocked the bot presses a button of /news.
SetDelivery(u, m) ==
    /\ u \notin blocked /\ m # mode[u] /\ Choose
    /\ mode' = [mode EXCEPT ![u] = m]
    /\ switches' = [switches EXCEPT ![u] = @ + 1]
    /\ UNCHANGED <<hour, published, digestHour, quiet, blocked, newsVars, faults>>

SetDigestHour(u, h) ==
    /\ u \notin blocked /\ h # digestHour[u] /\ Choose
    /\ digestHour' = [digestHour EXCEPT ![u] = h]
    /\ UNCHANGED <<hour, published, mode, quiet, blocked, switches, newsVars, faults>>

ToggleQuiet(u) ==
    /\ u \notin blocked /\ Choose
    /\ quiet' = IF u \in quiet THEN quiet \ {u} ELSE quiet \cup {u}
    /\ UNCHANGED <<hour, published, mode, digestHour, blocked, switches, newsVars, faults>>

ToggleBlock(u) ==
    /\ Choose
    /\ blocked' = IF u \in blocked THEN blocked \ {u} ELSE blocked \cup {u}
    /\ UNCHANGED <<hour, published, mode, digestHour, quiet, switches, newsVars, faults>>

Prefs(u) == \/ \E m \in Modes : SetDelivery(u, m)
            \/ \E h \in 0 .. Hours - 1 : SetDigestHour(u, h)
            \/ ToggleQuiet(u) \/ ToggleBlock(u)

----------------------------------------------------------------------------
(* _deliver, for the realtime and for the digest job.                      *)

ModeOf(c) == IF c = "digest" THEN "daily" ELSE "realtime"

\* Mutant: the day of the last digest is not looked at.
DueMutant(c, u) ==
    IF c = "digest" THEN hour = digestHour[u]
    ELSE ~ (u \in quiet /\ hour \in QuietHours)

\* Mutant: quiet hours that wrap around midnight never end.
QuietMutant(c, u) ==
    IF c = "digest" THEN hour = digestHour[u] /\ u \notin digestToday
    ELSE u \notin quiet

\* The gates of the loop, on preferences and a clock read when the run starts:
\* quiet hours hold back realtime messages, a digest goes out in its hour,
\* once a day.
Due(c, u) ==
    IF c = "digest" THEN hour = digestHour[u] /\ u \notin digestToday
    ELSE ~ (u \in quiet /\ hour \in QuietHours)

\* users_for and the two queries of preferences, in one session.
StartRun(c) ==
    /\ job[c].pc = "idle"
    /\ \E u \in Readers : mode[u] = ModeOf(c)
    /\ job' = [job EXCEPT ![c] = [NoRun EXCEPT !.pc = "next",
            !.todo = {u \in Readers : mode[u] = ModeOf(c) /\ Due(c, u)}]]
    /\ UNCHANGED <<hour, published, prefVars, digestToday, delivered, dms, digests, faults>>

\* Mutant: delivered items are not taken out.
CandidatesMutant(c, u) ==
    {i \in 1 .. published : c = "realtime" \/ u \in OnlyRelevant => i \in Relevant[u]}

\* candidates_for: sent items not delivered to the user; realtime messages and
\* users with only_relevant get relevant ones only.
Candidates(c, u) ==
    {i \in 1 .. published : /\ <<u, i>> \notin delivered
                            /\ c = "realtime" \/ u \in OnlyRelevant => i \in Relevant[u]}

\* The newest of them, up to the limit.
Newest(c, S) ==
    LET limit == IF c = "digest" THEN DigestMax ELSE RealtimeMax IN
    {i \in S : Cardinality({j \in S : j > i}) < limit}

\* The next user (the query has no order): nothing to say, or a message to send.
Gather(c, u) ==
    LET items == Newest(c, Candidates(c, u))
        others == [job[c] EXCEPT !.todo = @ \ {u}] IN
    /\ job[c].pc = "next"
    /\ job[c].sent < TickCap
    /\ u \in job[c].todo
    /\ job' = [job EXCEPT ![c] =
            IF items = {} THEN others ELSE [others EXCEPT !.pc = "send", !.cur = u, !.items = items]]
    /\ UNCHANGED <<hour, published, prefVars, digestToday, delivered, dms, digests, faults>>

\* The cap, or nobody left.
EndRun(c) ==
    /\ job[c].pc = "next"
    /\ job[c].sent >= TickCap \/ job[c].todo = {}
    /\ job' = [job EXCEPT ![c] = NoRun]
    /\ UNCHANGED <<hour, published, prefVars, digestToday, delivered, dms, digests, faults>>

\* Mutant: any Telegram error counts as a message sent.
AfterErrorMutant(pc) == "mark"

\* A TelegramError goes on with the next user.
AfterError(pc) == "next"

Arrives(c) ==
    LET u == job[c].cur IN
    /\ dms' = [dms EXCEPT ![u] = [i \in Items |-> IF i \in job[c].items THEN @[i] + 1 ELSE @[i]]]
    /\ digests' = IF c = "digest" /\ job[c].today THEN [digests EXCEPT ![u] = @ + 1] ELSE digests

\* bot.send_message: Forbidden for a blocked bot; else it arrives, or an error
\* is raised, after a lost answer although it arrived.
Send(c) ==
    /\ job[c].pc = "send"
    /\ IF job[c].cur \in blocked
       THEN job' = [job EXCEPT ![c].pc = "off"] /\ UNCHANGED <<dms, digests, faults>>
       ELSE \/ Arrives(c) /\ job' = [job EXCEPT ![c].pc = "mark"] /\ UNCHANGED faults
            \/ /\ Fault
               /\ job' = [job EXCEPT ![c].pc = AfterError(@)]
               /\ Arrives(c) \/ UNCHANGED <<dms, digests>>
    /\ UNCHANGED <<hour, published, prefVars, digestToday, delivered>>

\* Forbidden: set_delivery(off), whatever the user has chosen meanwhile.
TurnOff(c) ==
    /\ job[c].pc = "off"
    /\ \/ /\ mode' = [mode EXCEPT ![job[c].cur] = "off"]
          /\ job' = [job EXCEPT ![c].pc = "next"]
          /\ UNCHANGED faults
       \/ Fault /\ job' = [job EXCEPT ![c] = NoRun] /\ UNCHANGED mode
    /\ UNCHANGED <<hour, published, digestHour, quiet, blocked, switches, choices,
                   digestToday, delivered, dms, digests>>

\* One transaction: a ledger row per item, and the day of the digest.  A row
\* that exists already (or any failure of the database) ends the whole run.
Mark(c) ==
    LET rows == {job[c].cur} \X job[c].items IN
    /\ job[c].pc = "mark"
    /\ \/ /\ rows \cap delivered = {}
          /\ delivered' = delivered \cup rows
          /\ digestToday' = IF c = "digest" /\ job[c].today
                            THEN digestToday \cup {job[c].cur} ELSE digestToday
          /\ job' = [job EXCEPT ![c] = [job[c] EXCEPT !.pc = "next", !.sent = @ + 1,
                                                      !.cur = NoReader, !.items = {}]]
          /\ UNCHANGED faults
       \/ /\ IF rows \cap delivered = {} THEN Fault ELSE UNCHANGED faults
          /\ job' = [job EXCEPT ![c] = NoRun]
          /\ UNCHANGED <<delivered, digestToday>>
    /\ UNCHANGED <<hour, published, prefVars, dms, digests>>

----------------------------------------------------------------------------

\* The bot dies and starts again.
DmCrash ==
    /\ Fault
    /\ job' = [c \in Channels |-> NoRun]
    /\ UNCHANGED <<hour, published, prefVars, digestToday, delivered, dms, digests>>

JobStep(c) == (\E u \in Readers : Gather(c, u)) \/ EndRun(c) \/ Send(c) \/ TurnOff(c) \/ Mark(c)

DmNext ==
    \/ Publish \/ NextHour
    \/ \E u \in Readers : Prefs(u)
    \/ \E c \in Channels : StartRun(c) \/ JobStep(c)
    \/ DmCrash

DmSpec == DmInit /\ [][DmNext]_dmVars

\* The job is started every few minutes and a run takes less than an hour: while
\* there are users for it, runs start in every hour that comes round.
Wanted(c) == \E u \in Readers : mode[u] = ModeOf(c)
Ticks(c, h) == <>[]Wanted(c) => []<><<StartRun(c) /\ hour = h>>_dmVars

\* Time passes and a run goes on; nothing else has to happen.
DmFairSpec ==
    /\ DmSpec
    /\ WF_dmVars(NextHour)
    /\ \A c \in Channels : WF_dmVars(JobStep(c)) /\ \A h \in 0 .. Hours - 1 : Ticks(c, h)

----------------------------------------------------------------------------
(* What a run may still send, and what was paid for it.                    *)

\* The user whose message is being written, sent or recorded.
Handles(c, u) == job[c].pc \in {"send", "off", "mark"} /\ job[c].cur = u
Carries(c, u) == u \in job[c].todo \/ Handles(c, u)

\* The other job has recorded an item of the message: its rows will be refused.
Doomed(c) == ({job[c].cur} \X job[c].items) \cap delivered # {}

\* How often a job may send an item to a user before anything goes wrong or the
\* user changes the mode: once if it has the user or the user's mode leads to it,
\* and again if rows that are refused leave the item unrecorded.
Claims(c, u, i) ==
    LET message == Handles(c, u) /\ i \in job[c].items
        again == job[c].pc # "off" /\ mode[u] = ModeOf(c) /\ Doomed(c)
        first == Carries(c, u) \/ mode[u] = ModeOf(c)
    IN CASE <<u, i>> \in delivered -> IF message /\ job[c].pc = "send" THEN 1 ELSE 0
         [] <<u, i>> \notin delivered /\ message ->
                (IF job[c].pc = "mark" THEN 0 ELSE 1) + (IF again THEN 1 ELSE 0)
         [] <<u, i>> \notin delivered /\ ~message -> IF first THEN 1 ELSE 0

\* How often the digest job may send a digest of today's date.
DigestClaims(u) ==
    LET today == job["digest"].today /\ Carries("digest", u)
        again == job["digest"].pc # "off" /\ mode[u] = "daily" /\ Doomed("digest")
        first == mode[u] = "daily" /\ u \notin digestToday
    IN CASE today /\ Handles("digest", u) ->
                (IF job["digest"].pc = "mark" THEN 0 ELSE 1) + (IF again THEN 1 ELSE 0)
         [] today /\ ~Handles("digest", u) -> 1
         [] ~today -> IF first THEN 1 ELSE 0

\* The realtime job may refuse the rows of a digest once more.
Interferes(u) == IF Carries("realtime", u) \/ mode[u] = "realtime" THEN 1 ELSE 0

----------------------------------------------------------------------------
(* Properties.                                                             *)

\* What a run holds is not recorded yet: its users are distinct, and a message
\* that went out waits for its rows.
RunOk(c) ==
    /\ job[c].pc \in {"send", "off", "mark"} =>
          job[c].cur \in Readers \ job[c].todo /\ job[c].items # {}
    /\ job[c].pc = "mark" => \A i \in job[c].items : dms[job[c].cur][i] > 0
    /\ job[c].pc \in {"send", "mark"} => \A i \in job[c].items : i <= published
    /\ job[c].pc = "idle" => job[c] = NoRun
RunInv == \A c \in Channels : RunOk(c)

\* Every message sent, and every one that may be sent yet, is the first or has
\* been paid for with a fault or a change of mode.
ClaimsAreBacked ==
    /\ \A u \in Readers, i \in Items :
          dms[u][i] + Claims("realtime", u, i) + Claims("digest", u, i) <= 1 + faults + switches[u]
    /\ \A u \in Readers :
          /\ digests[u] + DigestClaims(u) + Interferes(u) <= 1 + faults + switches[u]
          /\ Carries("realtime", u) /\ mode[u] = "daily" => switches[u] > 0

DeliveryInv == TypeOK /\ RunInv /\ ClaimsAreBacked

\* Nothing is recorded as delivered that was not sent: a crash or a failure
\* costs a repetition, never a message.
DeliveredWereSent == \A u \in Readers, i \in Items : <<u, i>> \in delivered => dms[u][i] > 0

\* A message is sent once, but for a repetition per fault, or per change of
\* mode while the job of the old mode still has the user on its list.
RepetitionsHaveACause ==
    \A u \in Readers, i \in Items : dms[u][i] <= 1 + faults + switches[u]

\* One digest per user and day, but for the same causes.
OneDigestPerDay == \A u \in Readers : digests[u] <= 1 + faults + switches[u]

\* Both: a user is sent an item, and a day's digest, again only for a cause.
DmsAreNotRepeated == RepetitionsHaveACause /\ OneDigestPerDay

\* A relevant item reaches a realtime user who stays one and does not block the
\* bot, quiet hours, caps and limits notwithstanding.
RealtimeArrives ==
    \A u \in Readers, i \in Items :
        (i <= published /\ i \in Relevant[u])
            ~> (<<u, i>> \in delivered \/ mode[u] # "realtime" \/ u \in blocked)

\* "guarantees an item is DM'd to a user at most once (across both realtime and
\* digest channels)" (db/models.py, NewsDelivered).
DmAtMostOnce == \A u \in Readers, i \in Items : dms[u][i] <= 1
=============================================================================
