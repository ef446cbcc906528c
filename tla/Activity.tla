------------------------------ MODULE Activity ------------------------------
(***************************************************************************)
(* What a successful bet does to the gamification tables: stats.record_bet *)
(* and rewards.reward_for_bet, run by the bot in a transaction of its own  *)
(* (confirm._record_activity) and by the Mini App inside the transaction   *)
(* that also holds the order's audit, order and bet rows (api.place_bet).  *)
(*                                                                         *)
(* Bets of one user run concurrently on the two surfaces.  The database is *)
(* Postgres at READ COMMITTED: SELECT ... FOR UPDATE on the user's stats   *)
(* row locks it until the transaction ends, a row another transaction has  *)
(* inserted is invisible until it commits, and a second insert of the same *)
(* key waits for it and then fails.                                        *)
(***************************************************************************)
EXTENDS Integers, Sequences, FiniteSets, FiniteSetsExt

CONSTANTS
    Bettors,
    NoBettor,
    Bets,           \* successful bets, one transaction each
    NoHolder,
    Bettor,         \* the user of each bet
    MiniApp,        \* the bets placed in the Mini App, the others in the bot
    Points,         \* POINTS_BET_BASE + int(POINTS_PER_USD * amount) of each bet
    Rates,          \* REFERRAL_LAYER_RATES, in percent
    UnlockBets,     \* REFERRAL_UNLOCK_BETS
    SignupBonus,    \* SIGNUP_BONUS
    StreakBonus,    \* DAILY_STREAK_BONUS
    StreakCap,      \* DAILY_STREAK_CAP
    MaxDay          \* bound: UTC days

\* The rates of the referral layers do not increase (rewards.py: "multi-layer &
\* DESCENDING").
ASSUME ActivityAssumption ==
    /\ NoBettor \notin Bettors /\ NoHolder \notin Bets
    /\ IsFiniteSet(Bets) /\ Bettor \in [Bets -> Bettors] /\ MiniApp \subseteq Bets /\ Points \in [Bets -> Nat]
    /\ Rates \in Seq(Nat) /\ \A i, j \in DOMAIN Rates : i <= j => Rates[j] <= Rates[i]
    /\ MaxDay \in Nat
    /\ {UnlockBets, SignupBonus, StreakBonus, StreakCap} \subseteq Nat \ {0}

Day == 0 .. MaxDay
NoDay == -2         \* last_active_date of a row that has none; no day's yesterday
StatsRow == [total : Nat, streak : Nat, longest : Nat, last : Day \cup {NoDay}]
NewStats == [total |-> 0, streak |-> 0, longest |-> 0, last |-> NoDay]

\* A points_ledger row, with the bet whose transaction added it; via is the
\* ref column (an invitee or an inviter), day the day_bucket of a streak row.
LedgerRow == [bet : Bets, user : Bettors, delta : Nat,
              reason : {"bet", "streak", "referral_signup", "referral_welcome", "referral"},
              via : Bettors \cup {NoBettor}, day : Day \cup {NoDay}]

VARIABLES
    day,
    exists,         \* users with a committed user_stats row
    stats,          \* user_stats rows
    rowLock,        \* the transaction that holds (or has inserted) the row
    ledger,         \* points_ledger
    referredBy,     \* users.referred_by, and the inviter of the referrals row
    edge,           \* referrals.status of the row whose invitee is the user
    saved,          \* Mini App bets whose audit, order and bet rows committed
    tx              \* the recording of each bet

recordVars == <<exists, stats, ledger, saved>>
refVars == <<referredBy, edge>>
activityVars == <<day, recordVars, rowLock, refVars, tx>>

TxState == [pc : {"new", "get", "flush", "streak", "unlock", "walk", "commit",
                  "done", "failed"},
            row : StatsRow,             \* the UserStats object in memory
            fresh : BOOLEAN,            \* it is to be INSERTed
            clash : BOOLEAN,            \* the INSERT hit the primary key
            me : Bettors \cup {NoBettor},  \* referred_by as the session loaded it
            rows : SUBSET LedgerRow,    \* ledger rows not committed yet
            unlocked : BOOLEAN,         \* the own edge was unlocked, not committed
            cur : Bettors,              \* _propagate: the current node
            layer : Nat]                \*   and its rate

ActivityTypeOK ==
    /\ day \in Day
    /\ exists \subseteq Bettors
    /\ stats \in [Bettors -> StatsRow]
    /\ rowLock \in [Bettors -> Bets \cup {NoHolder}]
    /\ ledger \subseteq LedgerRow
    /\ referredBy \in [Bettors -> Bettors \cup {NoBettor}]
    /\ edge \in [Bettors -> {"none", "pending", "unlocked"}]
    /\ saved \subseteq MiniApp
    /\ tx \in [Bets -> TxState]

ActivityInit ==
    /\ day = 0
    /\ exists = {}
    /\ stats = [u \in Bettors |-> NewStats]
    /\ rowLock = [u \in Bettors |-> NoHolder]
    /\ ledger = {}
    /\ referredBy = [u \in Bettors |-> NoBettor]
    /\ edge = [u \in Bettors |-> "none"]
    /\ saved = {}
    /\ tx = [t \in Bets |-> [pc |-> "new", row |-> NewStats, fresh |-> FALSE, clash |-> FALSE,
                             me |-> NoBettor, rows |-> {}, unlocked |-> FALSE,
                             cur |-> Bettor[t], layer |-> 1]]

Row(t, user, delta, reason, via, d) ==
    [bet |-> t, user |-> user, delta |-> delta, reason |-> reason, via |-> via, day |-> d]

----------------------------------------------------------------------------
(* record_bet.                                                             *)

\* The bet succeeded.  The Mini App session has loaded its user already, so
\* its copy of referred_by dates from here.
Begin(t) ==
    /\ tx[t].pc = "new"
    /\ tx' = [tx EXCEPT ![t].pc = "get", ![t].me = referredBy[Bettor[t]]]
    /\ UNCHANGED <<day, recordVars, rowLock, refVars>>

\* Mutant: the streak goes on whatever day the last bet was placed.
CountBetMutant(row, today) ==
    LET streak == IF row.last = today THEN row.streak ELSE row.streak + 1 IN
    [total |-> row.total + 1, streak |-> streak,
     longest |-> Max({row.longest, streak}), last |-> today]

\* The counters after one more bet today.
CountBet(row, today) ==
    LET streak == IF row.last = today THEN row.streak
                  ELSE IF row.last = today - 1 THEN row.streak + 1 ELSE 1 IN
    [total |-> row.total + 1, streak |-> streak,
     longest |-> Max({row.longest, streak}), last |-> today]

\* Mutant: the row is read without FOR UPDATE.
RowFreeMutant(u) == TRUE

\* SELECT ... FOR UPDATE waits for the transaction that holds the row.
RowFree(u) == rowLock[u] = NoHolder

\* session.get(UserStats, user_id, with_for_update=True) and the assignments
\* after it: the committed row, locked, or a new one to insert.
GetStats(t) ==
    LET u == Bettor[t] IN
    /\ tx[t].pc = "get"
    /\ IF u \in exists
       THEN /\ RowFree(u)
            /\ rowLock' = [rowLock EXCEPT ![u] = t]
            /\ tx' = [tx EXCEPT ![t].pc = "flush", ![t].row = CountBet(stats[u], day)]
       ELSE /\ tx' = [tx EXCEPT ![t].pc = "flush", ![t].row = CountBet(NewStats, day),
                                ![t].fresh = TRUE]
            /\ UNCHANGED rowLock
    /\ UNCHANGED <<day, recordVars, refVars>>

\* session.flush(): the UPDATE of a locked row, or the INSERT, which waits for
\* a concurrent insert of the same key.  If that one committed this one fails
\* (IntegrityError): the bot's own transaction rolls back, the Mini App logs
\* and goes on with a session that get_db can no longer commit.
FlushStats(t) ==
    LET u == Bettor[t] IN
    /\ tx[t].pc = "flush"
    /\ tx[t].fresh => rowLock[u] = NoHolder
    /\ IF tx[t].fresh /\ u \in exists
       THEN /\ tx' = [tx EXCEPT ![t].pc = "failed", ![t].clash = TRUE]
            /\ UNCHANGED rowLock
       ELSE /\ tx' = [tx EXCEPT ![t].pc = "streak"]
            /\ rowLock' = IF tx[t].fresh THEN [rowLock EXCEPT ![u] = t] ELSE rowLock
    /\ UNCHANGED <<day, recordVars, refVars>>

----------------------------------------------------------------------------
(* reward_for_bet.                                                         *)

\* Mutant: the streak row is inserted whether or not the day has one.
DayBucketFreeMutant(u) == TRUE

\* The partial unique index (user_id, day_bucket) WHERE reason = 'streak'.
DayBucketFree(u) ==
    \A r \in ledger : ~ (r.user = u /\ r.reason = "streak" /\ r.day = day)

\* award(..., "bet"), then reward_for_streak in a savepoint that a duplicate
\* rolls back; the day is read again, from the clock.
AwardBetAndStreak(t) ==
    LET u == Bettor[t]
        streak == tx[t].row.streak
        bonus == StreakBonus * (IF streak < StreakCap THEN streak ELSE StreakCap) IN
    /\ tx[t].pc = "streak"
    /\ tx' = [tx EXCEPT ![t].pc = "unlock", ![t].rows =
                {Row(t, u, Points[t], "bet", NoBettor, NoDay)}
                \cup IF bonus > 0 /\ DayBucketFree(u)
                     THEN {Row(t, u, bonus, "streak", NoBettor, day)} ELSE {}]
    /\ UNCHANGED <<day, recordVars, rowLock, refVars>>

\* The bonuses of both sides of u's edge, paid by bet t.
SignupRows(t, u) ==
    {Row(t, referredBy[u], SignupBonus, "referral_signup", u, NoDay),
     Row(t, u, SignupBonus, "referral_welcome", referredBy[u], NoDay)}

\* _maybe_unlock: the pending edge of a bettor with enough bets is unlocked
\* and both sides get the signup bonus.
MaybeUnlock(t) ==
    LET u == Bettor[t] IN
    /\ tx[t].pc = "unlock"
    /\ IF edge[u] = "pending" /\ tx[t].row.total >= UnlockBets
       THEN tx' = [tx EXCEPT ![t].pc = "walk", ![t].unlocked = TRUE,
                             ![t].rows = @ \cup SignupRows(t, u)]
       ELSE tx' = [tx EXCEPT ![t].pc = "walk"]
    /\ UNCHANGED <<day, recordVars, rowLock, refVars>>

\* The current node's referred_by: the bettor's is the object the session
\* holds (the bot's session loads it only here).
ParentSeen(t, u) ==
    IF u = Bettor[t] /\ t \in MiniApp THEN tx[t].me ELSE referredBy[u]

\* Mutant: the walk does not look at the edge.
EdgeOpenMutant(t, u) == TRUE

\* The transaction sees its own unlock, and what others committed.
EdgeOpen(t, u) == edge[u] = "unlocked" \/ (u = Bettor[t] /\ tx[t].unlocked)

\* What a layer's inviter earns.
Share(t, layer) == (Points[t] * Rates[layer]) \div 100

\* One round of _propagate: stop, or pay the node's inviter (nothing when the
\* share rounds to zero) and go on from there.
Propagate(t) ==
    LET cur == tx[t].cur
        parent == ParentSeen(t, cur) IN
    /\ tx[t].pc = "walk"
    /\ IF tx[t].layer > Len(Rates) \/ parent = NoBettor \/ ~ EdgeOpen(t, cur)
       THEN tx' = [tx EXCEPT ![t].pc = "commit"]
       ELSE LET share == Share(t, tx[t].layer) IN
            tx' = [tx EXCEPT ![t].cur = parent, ![t].layer = @ + 1, ![t].rows = @ \cup
                     IF share > 0 THEN {Row(t, parent, share, "referral", cur, NoDay)} ELSE {}]
    /\ UNCHANGED <<day, recordVars, rowLock, refVars>>

\* Mutant: the lock outlives a transaction that did not commit.
FreedByAbortMutant(t) == rowLock

\* The end of the transaction frees the row it holds.
FreedByAbort(t) == [u \in Bettors |-> IF rowLock[u] = t THEN NoHolder ELSE rowLock[u]]

\* The transaction commits (create_bet of the Mini App, another insert of the
\* same session, included).
Commit(t) ==
    LET u == Bettor[t] IN
    /\ tx[t].pc = "commit"
    /\ exists' = exists \cup {u}
    /\ stats' = [stats EXCEPT ![u] = tx[t].row]
    /\ ledger' = ledger \cup tx[t].rows
    /\ edge' = IF tx[t].unlocked THEN [edge EXCEPT ![u] = "unlocked"] ELSE edge
    /\ rowLock' = [rowLock EXCEPT ![u] = NoHolder]
    /\ saved' = IF t \in MiniApp THEN saved \cup {t} ELSE saved
    /\ tx' = [tx EXCEPT ![t].pc = "done", ![t].rows = {}]
    /\ UNCHANGED <<day, referredBy>>

\* A process dies, or the database drops the connection.
Abort(t) ==
    /\ tx[t].pc \notin {"new", "done", "failed"}
    /\ tx' = [tx EXCEPT ![t].pc = "failed", ![t].rows = {}]
    /\ rowLock' = FreedByAbort(t)
    /\ UNCHANGED <<day, recordVars, refVars>>

----------------------------------------------------------------------------

\* attribute_referral (/start r-<code>, or a code at the access gate): any
\* other user, once; the edge starts pending.
AttributeReferral(u, inviter) ==
    /\ referredBy[u] = NoBettor
    /\ inviter # u
    /\ referredBy' = [referredBy EXCEPT ![u] = inviter]
    /\ edge' = [edge EXCEPT ![u] = "pending"]
    /\ UNCHANGED <<day, recordVars, rowLock, tx>>

NextDay ==
    /\ day < MaxDay
    /\ day' = day + 1
    /\ UNCHANGED <<recordVars, rowLock, refVars, tx>>

Record(t) == \/ GetStats(t) \/ FlushStats(t) \/ AwardBetAndStreak(t) \/ MaybeUnlock(t)
             \/ Propagate(t) \/ Commit(t)

ActivityNext ==
    \/ NextDay
    \/ \E u, inviter \in Bettors : AttributeReferral(u, inviter)
    \/ \E t \in Bets : Begin(t) \/ Record(t) \/ Abort(t)

ActivitySpec == ActivityInit /\ [][ActivityNext]_activityVars

\* A coroutine whose database call can return is resumed.
FairActivity == ActivitySpec /\ \A t \in Bets : WF_activityVars(Record(t))

----------------------------------------------------------------------------
(* Properties.                                                             *)

Done(u) == {t \in Bets : Bettor[t] = u /\ tx[t].pc = "done"}

\* The transactions that have read or written their user's row.
Holds(t) == \/ tx[t].pc \in {"streak", "unlock", "walk", "commit"}
            \/ tx[t].pc = "flush" /\ ~ tx[t].fresh

\* They hold it, and the copy in memory is the committed row plus their own bet.
LockInv ==
    /\ \A u \in Bettors : rowLock[u] # NoHolder => Bettor[rowLock[u]] = u /\ Holds(rowLock[u])
    /\ \A t \in Bets :
        LET u == Bettor[t] IN
        /\ Holds(t) => /\ rowLock[u] = t
                       /\ tx[t].fresh <=> u \notin exists
                       /\ stats[u].last <= tx[t].row.last
                       /\ tx[t].row = CountBet(stats[u], tx[t].row.last)
        /\ tx[t].pc \in {"new", "get"} => ~ tx[t].fresh
        /\ tx[t].pc = "flush" /\ tx[t].fresh => tx[t].row = CountBet(NewStats, tx[t].row.last)
        /\ tx[t].pc \notin {"new", "get", "failed"} => tx[t].row.last \in 0 .. day

BetDays(u) == {tx[t].row.last : t \in Done(u)}

\* The committed rows: the last day is that of the user's latest bet.
CountersInv ==
    \A u \in Bettors :
        /\ u \notin exists => stats[u] = NewStats
        /\ u \in exists => stats[u].last \in BetDays(u)
        /\ \A d \in BetDays(u) : d <= stats[u].last

\* What a transaction will add to the ledger: one row for its bet, a streak bonus
\* only if the day has none, the signup bonuses only of an edge that it unlocks.
EntriesInv ==
    \A t \in Bets :
        LET u == Bettor[t]
            rows == tx[t].rows
            written == tx[t].pc \in {"unlock", "walk", "commit"} IN
        /\ ~ written => rows = {}
        /\ \A r \in rows : r.bet = t
        /\ written => {r \in rows : r.reason = "bet"} = {Row(t, u, Points[t], "bet", NoBettor, NoDay)}
        /\ \A r \in rows : r.reason = "streak" =>
              /\ r.user = u
              /\ \A s \in ledger \cup rows :
                    s.reason = "streak" /\ s.user = u /\ s.day = r.day => s = r
        /\ {r \in rows : r.reason \in {"referral_signup", "referral_welcome"}} =
              IF tx[t].unlocked /\ written THEN SignupRows(t, u) ELSE {}

\* An edge has an inviter; one that a transaction unlocks is pending until it
\* commits, and had its bets.
EdgesInv ==
    /\ \A u \in Bettors : edge[u] = "none" <=> referredBy[u] = NoBettor
    /\ \A t \in Bets :
        /\ tx[t].unlocked => tx[t].pc \in {"walk", "commit", "done", "failed"}
        /\ tx[t].unlocked /\ tx[t].pc \in {"walk", "commit"} =>
              edge[Bettor[t]] = "pending" /\ tx[t].row.total >= UnlockBets
        /\ tx[t].me # NoBettor => tx[t].me = referredBy[Bettor[t]]

\* Row r was earned by the bettor's inviter, or by the inviter of one who earned.
Chained(r, rows) ==
    \/ r.via = Bettor[r.bet]
    \/ \E s \in rows : s.reason = "referral" /\ s.bet = r.bet /\ s.user = r.via

\* The walk starts at the bettor; whoever it is at has earned, unless the shares
\* round to zero from there on.
WalkInv ==
    \A t \in Bets :
        /\ tx[t].pc \in {"new", "get", "flush", "streak", "unlock"} =>
              tx[t].layer = 1 /\ tx[t].cur = Bettor[t]
        /\ tx[t].pc = "walk" =>
              \/ tx[t].layer = 1 /\ tx[t].cur = Bettor[t]
              \/ /\ tx[t].layer \in 2 .. Len(Rates) + 1
                 /\ \/ \E s \in tx[t].rows : s.reason = "referral" /\ s.user = tx[t].cur
                    \/ Share(t, tx[t].layer - 1) = 0
        /\ \A r \in tx[t].rows : r.reason = "referral" =>
              /\ r.via \in Bettors /\ EdgeOpen(t, r.via) /\ referredBy[r.via] = r.user
              /\ Chained(r, tx[t].rows)

\* The inductive invariant.
ActivityInv ==
    /\ ActivityTypeOK /\ LockInv /\ CountersInv /\ EntriesInv /\ EdgesInv /\ WalkInv

\* No bet is lost by a concurrent one: the lifetime counter equals the bets
\* recorded, each of which has its one points row (record_bet locks the row
\* for its read-modify-write).
TotalsAddUp ==
    \A u \in Bettors :
        /\ stats[u].total = Cardinality(Done(u))
        /\ {r \in ledger : r.reason = "bet" /\ r.user = u} =
              {Row(t, u, Points[t], "bet", NoBettor, NoDay) : t \in Done(u)}

\* The lengths of the runs of consecutive days that end at day d.
Runs(days, d) == {n \in 1 .. MaxDay + 1 : (d - n + 1) .. d \subseteq days}

\* The streak is the number of consecutive days with a bet that ends at the
\* last one, and longest_streak the longest such run so far, on whichever of
\* the two surfaces the bets were placed.
StreakIsRunOfDays ==
    \A u \in exists :
        LET days == BetDays(u) IN
        /\ stats[u].streak = Max(Runs(days, stats[u].last))
        /\ stats[u].longest = Max(UNION {Runs(days, d) : d \in days})

\* An edge is unlocked by exactly one bet of its invitee, not before the
\* UnlockBets-th, and pays each side its signup bonus exactly once.
UnlockPaysOnce ==
    \A u \in Bettors :
        LET paid == {r \in ledger : \/ r.reason = "referral_welcome" /\ r.user = u
                                    \/ r.reason = "referral_signup" /\ r.via = u} IN
        IF edge[u] = "unlocked"
        THEN stats[u].total >= UnlockBets /\ \E t \in Done(u) : paid = SignupRows(t, u)
        ELSE paid = {}

\* At most one streak bonus per user and UTC day.
OneStreakBonusPerDay ==
    \A r, s \in ledger :
        r.reason = "streak" /\ s.reason = "streak" /\ r.user = s.user /\ r.day = s.day => r = s

\* However the recordings of the two surfaces overlap, fail or die: a bet is
\* counted once, in the streak of its day, and pays each bonus once.
EveryBetCountsOnce ==
    TotalsAddUp /\ StreakIsRunOfDays /\ UnlockPaysOnce /\ OneStreakBonusPerDay

\* Referral points follow unlocked edges only, from a bet up the chain without
\* a gap: an inactive intermediate earns nothing and passes nothing on.
ReferralPointsFollowUnlocked ==
    \A r \in ledger : r.reason = "referral" =>
        edge[r.via] = "unlocked" /\ referredBy[r.via] = r.user /\ Chained(r, ledger)

\* No recording waits for ever, whoever else bets, fails or dies.
EveryRecordingEnds ==
    \A t \in Bets : tx[t].pc = "get" ~> tx[t].pc \in {"done", "failed"}

\* "stats/bet recording must never block a trade result" (api.py): a failure
\* of the statistics leaves the order's own rows of the Mini App in place.
RecordingNeverBlocksTradeResult ==
    \A t \in MiniApp : tx[t].pc = "failed" /\ tx[t].clash => t \in saved
=============================================================================
