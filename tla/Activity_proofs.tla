--------------------------- MODULE Activity_proofs ---------------------------
(***************************************************************************)
(* What the recording of bets leaves in the gamification tables, for any   *)
(* users, bets, days, rates and thresholds, whatever transactions overlap, *)
(* clash or die.                                                           *)
(***************************************************************************)
EXTENDS Activity, FiniteSetTheorems, TLAPS

\* What the invariant says of one transaction.
IsolationOf(t) ==
    LET u == Bettor[t] IN
    /\ Holds(t) => /\ rowLock[u] = t
                   /\ tx[t].fresh <=> u \notin exists
                   /\ stats[u].last <= tx[t].row.last
                   /\ tx[t].row = CountBet(stats[u], tx[t].row.last)
    /\ tx[t].pc \in {"new", "get"} => ~ tx[t].fresh
    /\ tx[t].pc = "flush" /\ tx[t].fresh => tx[t].row = CountBet(NewStats, tx[t].row.last)
    /\ tx[t].pc \notin {"new", "get", "failed"} => tx[t].row.last \in 0 .. day

Written(t) == tx[t].pc \in {"unlock", "walk", "commit"}

EntriesOf(t) ==
    LET u == Bettor[t]
        rows == tx[t].rows IN
    /\ ~ Written(t) => rows = {}
    /\ \A r \in rows : r.bet = t
    /\ Written(t) => {r \in rows : r.reason = "bet"} = {Row(t, u, Points[t], "bet", NoBettor, NoDay)}
    /\ \A r \in rows : r.reason = "streak" =>
          /\ r.user = u
          /\ \A s \in ledger \cup rows : s.reason = "streak" /\ s.user = u /\ s.day = r.day => s = r
    /\ {r \in rows : r.reason \in {"referral_signup", "referral_welcome"}} =
          IF tx[t].unlocked /\ Written(t) THEN SignupRows(t, u) ELSE {}

EdgeOf(t) ==
    /\ tx[t].unlocked => tx[t].pc \in {"walk", "commit", "done", "failed"}
    /\ tx[t].unlocked /\ tx[t].pc \in {"walk", "commit"} =>
          edge[Bettor[t]] = "pending" /\ tx[t].row.total >= UnlockBets
    /\ tx[t].me # NoBettor => tx[t].me = referredBy[Bettor[t]]

WalkOf(t) ==
    /\ tx[t].pc \in {"new", "get", "flush", "streak", "unlock"} =>
          tx[t].layer = 1 /\ tx[t].cur = Bettor[t]
    /\ tx[t].pc = "walk" =>
          \/ tx[t].layer = 1 /\ tx[t].cur = Bettor[t]
          \/ /\ tx[t].layer \in 2 .. Len(Rates) + 1
             /\ \/ \E s \in tx[t].rows : s.reason = "referral" /\ s.user = tx[t].cur
                \/ Share(t, tx[t].layer - 1) = 0
    /\ \A r \in tx[t].rows : r.reason = "referral" =>
          /\ r.via \in Bettors /\ EdgeOpen(t, r.via) /\ referredBy[r.via] = r.user
          /\ Chained(r, tx[t].rows)

TxInv(t) == IsolationOf(t) /\ EntriesOf(t) /\ EdgeOf(t) /\ WalkOf(t)

\* What it says of one user's row and edge.
OwnersInv ==
    \A u \in Bettors : rowLock[u] # NoHolder => Bettor[rowLock[u]] = u /\ Holds(rowLock[u])
InvitersInv == \A u \in Bettors : edge[u] = "none" <=> referredBy[u] = NoBettor

Parts == /\ ActivityTypeOK /\ OwnersInv /\ CountersInv /\ InvitersInv
         /\ \A t \in Bets : TxInv(t)

LEMMA InvariantParts == ActivityInv <=> Parts
<1> USE DEF ActivityInv, Parts, LockInv, EntriesInv, EdgesInv, WalkInv, OwnersInv, InvitersInv,
            TxInv, IsolationOf, EntriesOf, EdgeOf, WalkOf, Written
<1>1. ActivityInv => Parts
      BY ZenonT(30)
<1>2. Parts => ActivityInv
      BY ZenonT(30)
<1>3. QED BY <1>1, <1>2

-----------------------------------------------------------------------------
(* The arithmetic of counters, streaks and shares.                          *)

LEMMA MaxOfTwo ==
  ASSUME NEW a \in Nat, NEW b \in Nat
  PROVE  Max({a, b}) = IF a >= b THEN a ELSE b
  BY DEF Max

LEMMA MaxIs ==
  ASSUME NEW S \in SUBSET Int, NEW m \in S, \A x \in S : x <= m
  PROVE  Max(S) = m
<1>1. \A x \in S : (\A y \in S : x >= y) => x = m
      OBVIOUS
<1>2. \A y \in S : m >= y
      OBVIOUS
<1>3. QED BY <1>1, <1>2 DEF Max

LEMMA CountFacts ==
  ASSUME NEW row \in StatsRow, NEW d \in Day
  PROVE  /\ CountBet(row, d) \in StatsRow
         /\ CountBet(row, d).total = row.total + 1
         /\ CountBet(row, d).last = d
         /\ CountBet(row, d).streak = (IF row.last = d THEN row.streak
                                       ELSE IF row.last = d - 1 THEN row.streak + 1 ELSE 1)
         /\ CountBet(row, d).longest =
              (IF row.longest >= CountBet(row, d).streak THEN row.longest
               ELSE CountBet(row, d).streak)
<1> DEFINE n == IF row.last = d THEN row.streak ELSE IF row.last = d - 1 THEN row.streak + 1 ELSE 1
<1>1. row.total \in Nat /\ row.streak \in Nat /\ row.longest \in Nat /\ d \in Nat
      BY ActivityAssumption DEF StatsRow, Day
<1>2. n \in Nat
      BY <1>1
<1>3. Max({row.longest, n}) = IF row.longest >= n THEN row.longest ELSE n
      BY <1>1, <1>2, MaxOfTwo
<1>4. CountBet(row, d) = [total |-> row.total + 1, streak |-> n, longest |-> Max({row.longest, n}), last |-> d]
      BY DEF CountBet
<1> HIDE DEF n
<1>5. Max({row.longest, n}) \in Nat
      BY <1>1, <1>2, <1>3
<1>6. CountBet(row, d) \in StatsRow
      BY <1>1, <1>2, <1>4, <1>5 DEF StatsRow
<1>7. QED BY <1>3, <1>4, <1>6 DEF n

-----------------------------------------------------------------------------
(* A step of transaction t that writes nothing others can see.              *)

Unseen(t) ==
    /\ \A s \in Bets \ {t} : tx'[s] = tx[s]
    /\ \A s \in Bets \ {t} : Holds(s) => rowLock'[Bettor[s]] = rowLock[Bettor[s]]
    /\ tx[t].pc # "done" /\ tx'[t].pc # "done"
    /\ UNCHANGED <<day, recordVars, refVars>>

LEMMA OthersKeep ==
  ASSUME NEW t \in Bets, Unseen(t), NEW s \in Bets \ {t}, TxInv(s)
  PROVE  TxInv(s)'
<1>1. /\ tx'[s] = tx[s] /\ day' = day /\ exists' = exists /\ stats' = stats /\ ledger' = ledger
      /\ referredBy' = referredBy /\ edge' = edge
      BY DEF Unseen, recordVars, refVars
<1>2. Holds(s)' <=> Holds(s)
      BY <1>1 DEF Holds
<1>3. IsolationOf(s)'
      BY <1>1, <1>2 DEF Unseen, TxInv, IsolationOf
<1>4. EntriesOf(s)'
      BY <1>1 DEF TxInv, EntriesOf, Written, SignupRows
<1>5. EdgeOf(s)'
      BY <1>1 DEF TxInv, EdgeOf
<1>6. WalkOf(s)'
      BY <1>1 DEF TxInv, WalkOf, EdgeOpen, Chained
<1>7. QED BY <1>3, <1>4, <1>5, <1>6 DEF TxInv

LEMMA UnseenDone ==
  ASSUME NEW t \in Bets, Unseen(t)
  PROVE  \A u \in Bettors : Done(u)' = Done(u) /\ BetDays(u)' = BetDays(u)
<1>1. \A s \in Bets : tx'[s] = tx[s] \/ (s = t /\ tx[s].pc # "done" /\ tx'[s].pc # "done")
      BY DEF Unseen
<1> TAKE u \in Bettors
<1>2. Done(u)' = Done(u)
      BY <1>1 DEF Done
<1>3. \A s \in Done(u) : tx'[s] = tx[s]
      BY <1>1 DEF Done
<1>4. QED BY <1>2, <1>3 DEF BetDays

LEMMA UnseenKeeps ==
  ASSUME ActivityInv, NEW t \in Bets, Unseen(t), ActivityTypeOK', OwnersInv', TxInv(t)'
  PROVE  ActivityInv'
<1>1. Parts
      BY InvariantParts
<1>2. \A s \in Bets : TxInv(s)'
      BY <1>1, OthersKeep DEF Parts
<1>3. CountersInv' /\ InvitersInv'
      BY <1>1, UnseenDone DEF Parts, CountersInv, InvitersInv, Unseen, recordVars, refVars
<1>4. Parts'
      BY <1>2, <1>3 DEF Parts
<1>5. QED BY <1>4, InvariantParts, PTL

\* What a step of transaction t finds.
LEMMA Found ==
  ASSUME ActivityInv, NEW t \in Bets
  PROVE  /\ Parts /\ TxInv(t) /\ tx[t] \in TxState /\ Bettor[t] \in Bettors
         /\ stats[Bettor[t]] \in StatsRow /\ tx \in [Bets -> TxState]
         /\ day \in Day /\ day \in Nat /\ t # NoHolder
  BY InvariantParts, ActivityAssumption DEF Parts, ActivityTypeOK, Day

\* No row is ahead of the clock.
LEMMA StatsAreOfThePast ==
  ASSUME ActivityInv, NEW u \in Bettors
  PROVE  stats[u].last <= day
<1>1. Parts
      BY InvariantParts
<1>2. CASE u \notin exists
      BY <1>1, <1>2 DEF Parts, CountersInv, NewStats, NoDay, ActivityTypeOK, Day
<1>3. CASE u \in exists
  <2>1. PICK t \in Bets : tx[t].pc = "done" /\ stats[u].last = tx[t].row.last
        BY <1>1, <1>3 DEF Parts, CountersInv, BetDays, Done
  <2>2. tx[t].row.last \in 0 .. day
        BY <1>1, <2>1 DEF Parts, TxInv, IsolationOf
  <2>3. QED BY <2>1, <2>2, <1>1 DEF Parts, ActivityTypeOK, Day
<1>4. QED BY <1>2, <1>3

LEMMA BeginKeeps == ASSUME ActivityInv, NEW t \in Bets, Begin(t) PROVE ActivityInv'
<1>f. /\ Parts /\ TxInv(t) /\ tx[t] \in TxState /\ Bettor[t] \in Bettors
      /\ tx \in [Bets -> TxState] /\ t # NoHolder
      BY Found
<1>1. tx' = [tx EXCEPT ![t] = [tx[t] EXCEPT !.pc = "get", !.me = referredBy[Bettor[t]]]]
      BY DEF Begin
<1>2. /\ tx'[t] = [tx[t] EXCEPT !.pc = "get", !.me = referredBy[Bettor[t]]]
      /\ \A s \in Bets \ {t} : tx'[s] = tx[s]
      BY <1>1, <1>f
<1>3. tx'[t] \in TxState /\ tx' \in [Bets -> TxState]
      BY <1>1, <1>2, <1>f DEF Parts, ActivityTypeOK, TxState
<1>4. Unseen(t)
      BY <1>2, <1>f DEF Begin, Unseen, TxState
<1>5. ActivityTypeOK'
      BY <1>3, <1>f DEF Begin, Parts, ActivityTypeOK, recordVars, refVars
<1>6. OwnersInv'
      BY <1>2, <1>f DEF Begin, Parts, ActivityTypeOK, OwnersInv, Holds, TxState
<1>7. IsolationOf(t)' /\ EntriesOf(t)' /\ EdgeOf(t)' /\ WalkOf(t)'
      BY <1>2, <1>f DEF Begin, TxInv, IsolationOf, EntriesOf, EdgeOf, WalkOf, Holds, Written, TxState,
                  recordVars, refVars
<1>8. QED BY <1>f, <1>4, <1>5, <1>6, <1>7, UnseenKeeps DEF TxInv

LEMMA GetStatsKeeps == ASSUME ActivityInv, NEW t \in Bets, GetStats(t) PROVE ActivityInv'
<1> DEFINE u == Bettor[t]
<1>f. /\ Parts /\ TxInv(t) /\ tx[t] \in TxState /\ u \in Bettors /\ stats[u] \in StatsRow
      /\ tx \in [Bets -> TxState] /\ day \in Day /\ day \in Nat /\ t # NoHolder
      BY Found
<1>0. NewStats \in StatsRow /\ (u \notin exists => stats[u] = NewStats)
      BY <1>f DEF Parts, CountersInv, NewStats, StatsRow, NoDay
<1>1. /\ tx[t].pc = "get" /\ ~ tx[t].fresh /\ tx[t].rows = {} /\ ~ tx[t].unlocked
      /\ UNCHANGED <<day, recordVars, refVars>>
      BY <1>f DEF GetStats, TxInv, IsolationOf, EntriesOf, Written, EdgeOf
<1>2. PICK row, fresh :
         /\ tx' = [tx EXCEPT ![t] = [tx[t] EXCEPT !.pc = "flush", !.row = row, !.fresh = fresh]]
         /\ \/ /\ ~ fresh /\ u \in exists /\ rowLock[u] = NoHolder /\ row = CountBet(stats[u], day)
               /\ rowLock' = [rowLock EXCEPT ![u] = t]
            \/ fresh /\ row = CountBet(NewStats, day) /\ UNCHANGED rowLock
         /\ fresh \in BOOLEAN
  <2>1. CASE u \in exists
    <3> DEFINE counted == CountBet(stats[u], day)
    <3>1. tx' = [tx EXCEPT ![t].pc = "flush", ![t].row = counted]
          BY <2>1 DEF GetStats
    <3> HIDE DEF counted
    <3>2. [tx[t] EXCEPT !.pc = "flush", !.row = counted] =
          [tx[t] EXCEPT !.pc = "flush", !.row = counted, !.fresh = FALSE]
          BY <1>f, <1>1 DEF TxState
    <3>3. tx' = [tx EXCEPT ![t] = [tx[t] EXCEPT !.pc = "flush", !.row = counted, !.fresh = FALSE]]
          BY <1>f, <3>1, <3>2
    <3>4. QED BY <2>1, <3>3 DEF GetStats, RowFree, counted
  <2>2. CASE u \notin exists
    <3>1. tx' = [tx EXCEPT ![t] = [tx[t] EXCEPT !.pc = "flush", !.row = CountBet(NewStats, day), !.fresh = TRUE]]
          BY <1>f, <1>1, <2>2 DEF GetStats, TxState
    <3>2. QED BY <2>2, <3>1 DEF GetStats
  <2>3. QED BY <2>1, <2>2
<1>3. /\ tx'[t] = [tx[t] EXCEPT !.pc = "flush", !.row = row, !.fresh = fresh]
      /\ \A s \in Bets \ {t} : tx'[s] = tx[s]
      BY <1>f, <1>2
<1>4. row \in StatsRow /\ row.last = day /\ stats[u].last <= day
  <2>1. row \in StatsRow /\ row.last = day
        BY <1>f, <1>0, <1>2, CountFacts
  <2>2. stats[u].last <= day
        BY <1>f, StatsAreOfThePast
  <2>3. QED BY <2>1, <2>2
<1>5. tx'[t] \in TxState /\ tx' \in [Bets -> TxState]
      BY <1>f, <1>2, <1>3, <1>4 DEF TxState
<1>6. Unseen(t)
  <2>1. ASSUME NEW s \in Bets \ {t}, Holds(s) PROVE rowLock'[Bettor[s]] = rowLock[Bettor[s]]
    <3>1. rowLock[Bettor[s]] = s /\ s # NoHolder /\ Bettor[s] \in Bettors
          BY <1>f, <2>1, ActivityAssumption DEF Parts, TxInv, IsolationOf
    <3>2. rowLock \in [Bettors -> Bets \cup {NoHolder}]
          BY <1>f DEF Parts, ActivityTypeOK
    <3>3. QED BY <1>f, <1>2, <3>1, <3>2
  <2>2. QED BY <1>1, <1>3, <2>1 DEF Unseen, TxState
<1>7. ActivityTypeOK'
      BY <1>f, <1>1, <1>2, <1>5 DEF Parts, ActivityTypeOK, recordVars, refVars
<1>8. OwnersInv'
      BY <1>f, <1>1, <1>2, <1>3 DEF Parts, ActivityTypeOK, OwnersInv, Holds, TxState
<1>9. IsolationOf(t)'
      BY <1>f, <1>0, <1>1, <1>2, <1>3, <1>4 DEF IsolationOf, Holds, TxState, recordVars, Parts, ActivityTypeOK
<1>10. EntriesOf(t)' /\ EdgeOf(t)' /\ WalkOf(t)'
      BY <1>f, <1>1, <1>3 DEF TxInv, EntriesOf, EdgeOf, WalkOf, Written, TxState, recordVars, refVars
<1>11. QED BY <1>6, <1>7, <1>8, <1>9, <1>10, UnseenKeeps DEF TxInv

LEMMA FlushStatsKeeps == ASSUME ActivityInv, NEW t \in Bets, FlushStats(t) PROVE ActivityInv'
<1> DEFINE u == Bettor[t]
<1>f. /\ Parts /\ TxInv(t) /\ tx[t] \in TxState /\ u \in Bettors
      /\ tx \in [Bets -> TxState] /\ day \in Day /\ day \in Nat /\ t # NoHolder
      BY Found
<1>1. /\ tx[t].pc = "flush" /\ tx[t].rows = {} /\ ~ tx[t].unlocked
      /\ UNCHANGED <<day, recordVars, refVars>>
      /\ tx[t].fresh => rowLock[u] = NoHolder
      BY <1>f DEF FlushStats, TxInv, EntriesOf, Written, EdgeOf
<1>2. CASE tx[t].fresh /\ u \in exists
  <2>1. /\ tx'[t] = [tx[t] EXCEPT !.pc = "failed", !.clash = TRUE]
        /\ \A s \in Bets \ {t} : tx'[s] = tx[s]
        /\ tx' \in [Bets -> TxState] /\ UNCHANGED rowLock
    <3>1. tx' = [tx EXCEPT ![t].pc = "failed", ![t].clash = TRUE] /\ UNCHANGED rowLock
          BY <1>2 DEF FlushStats
    <3>2. QED BY <1>f, <3>1 DEF TxState
  <2>2. Unseen(t)
        BY <1>f, <1>1, <2>1 DEF Unseen, TxState
  <2>3. ActivityTypeOK'
        BY <1>f, <1>1, <2>1 DEF Parts, ActivityTypeOK, recordVars, refVars
  <2>4. ~ Holds(t)
        BY <1>1, <1>2 DEF Holds
  <2>5. OwnersInv'
        BY <1>f, <2>1, <2>4 DEF Parts, ActivityTypeOK, OwnersInv, Holds
  <2>6. IsolationOf(t)' /\ EntriesOf(t)' /\ EdgeOf(t)' /\ WalkOf(t)'
        BY <1>f, <1>1, <2>1 DEF TxInv, IsolationOf, EntriesOf, EdgeOf, WalkOf, Holds, Written, TxState,
                                recordVars, refVars
  <2>7. QED BY <2>2, <2>3, <2>5, <2>6, UnseenKeeps DEF TxInv
<1>3. CASE ~ (tx[t].fresh /\ u \in exists)
  <2>1. /\ tx'[t] = [tx[t] EXCEPT !.pc = "streak"]
        /\ \A s \in Bets \ {t} : tx'[s] = tx[s]
        /\ tx' \in [Bets -> TxState]
        /\ rowLock' = IF tx[t].fresh THEN [rowLock EXCEPT ![u] = t] ELSE rowLock
        BY <1>f, <1>3 DEF FlushStats, TxState
  <2>2. rowLock' \in [Bettors -> Bets \cup {NoHolder}] /\ rowLock'[u] = t
        BY <1>f, <1>1, <2>1 DEF Parts, ActivityTypeOK, TxInv, IsolationOf, Holds
  <2>3. Unseen(t)
    <3>1. \A s \in Bets \ {t} : Holds(s) => rowLock'[Bettor[s]] = rowLock[Bettor[s]]
          BY <1>f, <1>1, <2>1, ActivityAssumption DEF Parts, TxInv, IsolationOf, ActivityTypeOK
    <3>2. QED BY <1>f, <1>1, <2>1, <3>1 DEF Unseen, TxState
  <2>4. ActivityTypeOK'
        BY <1>f, <1>1, <2>1, <2>2 DEF Parts, ActivityTypeOK, recordVars, refVars
  <2>5. OwnersInv'
        BY <1>f, <1>1, <2>1 DEF Parts, ActivityTypeOK, OwnersInv, Holds, TxState
  <2>6. IsolationOf(t)'
    <3>1. tx'[t].row = tx[t].row /\ tx'[t].fresh = tx[t].fresh /\ tx'[t].pc = "streak"
          BY <1>f, <2>1 DEF TxState
    <3>2. CASE tx[t].fresh
      <4>1. stats[u] = NewStats /\ u \notin exists
            BY <1>f, <1>3, <3>2 DEF Parts, CountersInv
      <4>2. tx[t].row = CountBet(NewStats, tx[t].row.last) /\ tx[t].row.last \in 0 .. day
            BY <1>f, <1>1, <3>2 DEF TxInv, IsolationOf
      <4>3. stats[u].last <= tx[t].row.last
            BY <1>f, <4>1, <4>2 DEF NewStats, NoDay
      <4>4. QED BY <1>1, <2>2, <3>1, <3>2, <4>1, <4>2, <4>3 DEF IsolationOf, recordVars
    <3>3. CASE ~ tx[t].fresh
          BY <1>f, <1>1, <2>2, <3>1, <3>3 DEF TxInv, IsolationOf, Holds, recordVars
    <3>4. QED BY <3>2, <3>3
  <2>7. EntriesOf(t)' /\ EdgeOf(t)' /\ WalkOf(t)'
        BY <1>f, <1>1, <2>1 DEF TxInv, EntriesOf, EdgeOf, WalkOf, Written, TxState, recordVars, refVars
  <2>8. QED BY <2>3, <2>4, <2>5, <2>6, <2>7, UnseenKeeps DEF TxInv
<1>4. QED BY <1>2, <1>3

\* Once it has the lock, a transaction keeps its row and moves on.
LEMMA HolderKeeps ==
  ASSUME ActivityInv, NEW t \in Bets, NEW pc \in {"unlock", "walk", "commit"}, Holds(t),
         UNCHANGED <<day, recordVars, rowLock, refVars>>,
         tx' \in [Bets -> TxState], \A s \in Bets \ {t} : tx'[s] = tx[s],
         tx'[t].pc = pc, tx'[t].row = tx[t].row, tx'[t].fresh = tx[t].fresh, tx'[t].me = tx[t].me,
         EntriesOf(t)', EdgeOf(t)', WalkOf(t)'
  PROVE  ActivityInv'
<1>f. Parts /\ TxInv(t)
      BY Found
<1>1. tx[t].pc \notin {"new", "get", "done", "failed"}
      BY DEF Holds
<1>2. Unseen(t)
      BY <1>1 DEF Unseen
<1>3. ActivityTypeOK'
      BY <1>f DEF Parts, ActivityTypeOK, recordVars, refVars
<1>4. Holds(t)'
      BY DEF Holds
<1>5. OwnersInv'
      BY <1>f, <1>4 DEF Parts, ActivityTypeOK, OwnersInv, Holds
<1>6. IsolationOf(t)'
      BY <1>f, <1>1 DEF TxInv, IsolationOf, recordVars
<1>7. QED BY <1>2, <1>3, <1>5, <1>6, UnseenKeeps DEF TxInv

LEMMA AwardKeeps == ASSUME ActivityInv, NEW t \in Bets, AwardBetAndStreak(t) PROVE ActivityInv'
<1> DEFINE u == Bettor[t]
           streak == tx[t].row.streak
           bonus == StreakBonus * (IF streak < StreakCap THEN streak ELSE StreakCap)
           bet == Row(t, u, Points[t], "bet", NoBettor, NoDay)
           daily == Row(t, u, bonus, "streak", NoBettor, day)
           rows == {bet} \cup (IF bonus > 0 /\ DayBucketFree(u) THEN {daily} ELSE {})
<1>f. /\ Parts /\ TxInv(t) /\ tx[t] \in TxState /\ u \in Bettors
      /\ tx \in [Bets -> TxState] /\ day \in Day /\ t # NoHolder
      BY Found
<1>1. /\ tx[t].pc = "streak" /\ ~ tx[t].unlocked /\ Holds(t)
      /\ UNCHANGED <<day, recordVars, rowLock, refVars>>
      BY <1>f DEF AwardBetAndStreak, TxInv, EdgeOf, Holds
<1>2. bonus \in Nat /\ Points[t] \in Nat
  <2>1. streak \in Nat /\ StreakCap \in Nat /\ StreakBonus \in Nat
        BY <1>f, ActivityAssumption DEF TxState, StatsRow
  <2>2. (IF streak < StreakCap THEN streak ELSE StreakCap) \in Nat
        BY <2>1
  <2>3. QED BY <2>1, <2>2, ActivityAssumption
<1>3. tx' = [tx EXCEPT ![t].pc = "unlock", ![t].rows = rows]
      BY DEF AwardBetAndStreak
<1> HIDE DEF bonus
<1>4. rows \subseteq LedgerRow
      BY <1>f, <1>2 DEF LedgerRow, Row
<1>5. /\ tx'[t] = [tx[t] EXCEPT !.pc = "unlock", !.rows = rows]
      /\ \A s \in Bets \ {t} : tx'[s] = tx[s]
      /\ tx' \in [Bets -> TxState]
  <2> HIDE DEF rows
  <2>1. QED BY <1>f, <1>3, <1>4 DEF TxState
<1>6. /\ tx'[t].pc = "unlock" /\ tx'[t].row = tx[t].row /\ tx'[t].fresh = tx[t].fresh
      /\ tx'[t].me = tx[t].me /\ tx'[t].rows = rows /\ tx'[t].unlocked = tx[t].unlocked
      /\ tx'[t].layer = tx[t].layer /\ tx'[t].cur = tx[t].cur
      BY <1>f, <1>5 DEF TxState
<1>7. /\ \A r \in rows : r.bet = t /\ r.reason \in {"bet", "streak"}
      /\ {r \in rows : r.reason = "bet"} = {bet}
      /\ \A r \in rows : r.reason = "streak" => r = daily /\ DayBucketFree(u)
      BY DEF Row
<1>8. EntriesOf(t)'
  <2>1. \A r \in rows : r.reason = "streak" =>
           r.user = u /\ \A s \in ledger \cup rows : s.reason = "streak" /\ s.user = u /\ s.day = r.day => s = r
        BY <1>7 DEF DayBucketFree, Row
  <2>2. {r \in rows : r.reason \in {"referral_signup", "referral_welcome"}} = {}
        BY <1>7
  <2> HIDE DEF rows
  <2>3. QED BY <1>1, <1>6, <1>7, <2>1, <2>2 DEF EntriesOf, Written, recordVars
<1> HIDE DEF rows
<1>9. EdgeOf(t)'
      BY <1>f, <1>1, <1>6 DEF TxInv, EdgeOf, refVars
<1>10. WalkOf(t)'
      BY <1>f, <1>1, <1>6, <1>7 DEF TxInv, WalkOf
<1>11. QED BY <1>1, <1>5, <1>6, <1>8, <1>9, <1>10, HolderKeeps

LEMMA MaybeUnlockKeeps == ASSUME ActivityInv, NEW t \in Bets, MaybeUnlock(t) PROVE ActivityInv'
<1> DEFINE u == Bettor[t]
<1>f. /\ Parts /\ TxInv(t) /\ tx[t] \in TxState /\ u \in Bettors
      /\ tx \in [Bets -> TxState] /\ t # NoHolder
      BY Found
<1>1. /\ tx[t].pc = "unlock" /\ ~ tx[t].unlocked /\ Holds(t)
      /\ UNCHANGED <<day, recordVars, rowLock, refVars>>
      BY <1>f DEF MaybeUnlock, TxInv, EdgeOf, Holds
<1>2. CASE edge[u] = "pending" /\ tx[t].row.total >= UnlockBets
  <2> DEFINE rows == tx[t].rows \cup SignupRows(t, u)
  <2>1. SignupRows(t, u) \subseteq LedgerRow
    <3>1. referredBy[u] \in Bettors
          BY <1>f, <1>2 DEF Parts, ActivityTypeOK, InvitersInv
    <3>2. SignupBonus \in Nat
          BY ActivityAssumption
    <3>3. QED BY <1>f, <3>1, <3>2 DEF SignupRows, LedgerRow, Row
  <2>2. rows \subseteq LedgerRow
        BY <1>f, <2>1 DEF TxState
  <2>3. tx' = [tx EXCEPT ![t].pc = "walk", ![t].unlocked = TRUE, ![t].rows = rows]
        BY <1>2 DEF MaybeUnlock
  <2> HIDE DEF rows
  <2>4. /\ tx'[t] = [tx[t] EXCEPT !.pc = "walk", !.unlocked = TRUE, !.rows = rows]
        /\ \A s \in Bets \ {t} : tx'[s] = tx[s]
        /\ tx' \in [Bets -> TxState]
        BY <1>f, <2>2, <2>3 DEF TxState
  <2>5. /\ tx'[t].pc = "walk" /\ tx'[t].row = tx[t].row /\ tx'[t].fresh = tx[t].fresh
        /\ tx'[t].me = tx[t].me /\ tx'[t].rows = rows /\ tx'[t].unlocked
        /\ tx'[t].layer = tx[t].layer /\ tx'[t].cur = tx[t].cur
        BY <1>f, <2>4 DEF TxState
  <2>6. \A r \in SignupRows(t, u) : r.bet = t /\ r.reason \in {"referral_signup", "referral_welcome"}
        BY DEF SignupRows, Row
  <2>7. EntriesOf(t)'
    <3>1. \A r \in rows : r \in tx[t].rows \/ r \in SignupRows(t, u)
          BY DEF rows
    <3>2. {r \in rows : r.reason = "bet"} = {r \in tx[t].rows : r.reason = "bet"}
          BY <2>6 DEF rows
    <3>3. {r \in rows : r.reason \in {"referral_signup", "referral_welcome"}} = SignupRows(t, u)
          BY <1>f, <1>1, <2>6 DEF rows, TxInv, EntriesOf
    <3>4. SignupRows(t, u)' = SignupRows(t, u)
          BY <1>1 DEF SignupRows, refVars
    <3>5. QED BY <1>f, <1>1, <2>5, <2>6, <3>1, <3>2, <3>3, <3>4 DEF TxInv, EntriesOf, Written, recordVars
  <2>8. EdgeOf(t)'
        BY <1>f, <1>1, <1>2, <2>5 DEF TxInv, EdgeOf, refVars
  <2>9. WalkOf(t)'
    <3>1. \A r \in rows : r.reason = "referral" => r \in tx[t].rows
          BY <2>6 DEF rows
    <3>2. \A r \in tx[t].rows : r \in rows
          BY DEF rows
    <3>3. QED BY <1>f, <1>1, <2>5, <3>1, <3>2 DEF TxInv, WalkOf, EdgeOpen, Chained, refVars
  <2>10. QED BY <1>1, <2>4, <2>5, <2>7, <2>8, <2>9, HolderKeeps
<1>3. CASE ~ (edge[u] = "pending" /\ tx[t].row.total >= UnlockBets)
  <2>1. tx' = [tx EXCEPT ![t].pc = "walk"]
        BY <1>3 DEF MaybeUnlock
  <2>2. /\ tx'[t] = [tx[t] EXCEPT !.pc = "walk"]
        /\ \A s \in Bets \ {t} : tx'[s] = tx[s]
        /\ tx' \in [Bets -> TxState]
        BY <1>f, <2>1 DEF TxState
  <2>3. /\ tx'[t].pc = "walk" /\ tx'[t].row = tx[t].row /\ tx'[t].fresh = tx[t].fresh
        /\ tx'[t].me = tx[t].me /\ tx'[t].rows = tx[t].rows /\ tx'[t].unlocked = tx[t].unlocked
        /\ tx'[t].layer = tx[t].layer /\ tx'[t].cur = tx[t].cur
        BY <1>f, <2>2 DEF TxState
  <2>4. EntriesOf(t)'
        BY <1>f, <1>1, <2>3 DEF TxInv, EntriesOf, Written, recordVars
  <2>5. EdgeOf(t)' /\ WalkOf(t)'
        BY <1>f, <1>1, <2>3 DEF TxInv, EdgeOf, WalkOf, EdgeOpen, Chained, refVars
  <2>6. QED BY <1>1, <2>2, <2>3, <2>4, <2>5, HolderKeeps
<1>4. QED BY <1>2, <1>3

\* A product with a natural number does not fall when its factor does not.
LEMMA ProductsGrow ==
  ASSUME NEW a \in Nat, NEW b \in Nat, NEW c \in Nat, b <= c
  PROVE  a * b \in Nat /\ a * c \in Nat /\ a * b <= a * c
<1>1. c = b + (c - b) /\ c - b \in Nat
      OBVIOUS
<1>2. a * c = a * b + a * (c - b)
      OBVIOUS
<1>3. a * b \in Nat /\ a * (c - b) \in Nat
      BY <1>1
<1>4. QED BY <1>2, <1>3

LEMMA SharesFall ==
  ASSUME NEW t \in Bets, NEW i \in DOMAIN Rates, NEW j \in DOMAIN Rates, i <= j
  PROVE  Share(t, i) \in Nat /\ Share(t, j) \in Nat /\ Share(t, j) <= Share(t, i)
<1> DEFINE a == Points[t] * Rates[j]
           b == Points[t] * Rates[i]
<1>1. Points[t] \in Nat /\ Rates[i] \in Nat /\ Rates[j] \in Nat /\ Rates[j] <= Rates[i]
      BY ActivityAssumption
<1>2. a \in Nat /\ b \in Nat /\ a <= b
      BY <1>1, ProductsGrow
<1> HIDE DEF a, b
<1>3. a \div 100 \in Nat /\ b \div 100 \in Nat /\ a \div 100 <= b \div 100
      BY <1>2
<1>4. QED BY <1>3 DEF Share, a, b

LEMMA PropagateKeeps == ASSUME ActivityInv, NEW t \in Bets, Propagate(t) PROVE ActivityInv'
<1> DEFINE u == Bettor[t]
           cur == tx[t].cur
           layer == tx[t].layer
           parent == ParentSeen(t, cur)
           share == Share(t, layer)
<1>f. /\ Parts /\ TxInv(t) /\ tx[t] \in TxState /\ u \in Bettors
      /\ tx \in [Bets -> TxState] /\ t # NoHolder
      BY Found
<1>1. /\ tx[t].pc = "walk" /\ Holds(t)
      /\ UNCHANGED <<day, recordVars, rowLock, refVars>>
      BY <1>f DEF Propagate, Holds
<1>2. CASE layer > Len(Rates) \/ parent = NoBettor \/ ~ EdgeOpen(t, cur)
  <2>1. tx' = [tx EXCEPT ![t].pc = "commit"]
        BY <1>2 DEF Propagate
  <2>2. /\ tx'[t] = [tx[t] EXCEPT !.pc = "commit"]
        /\ \A s \in Bets \ {t} : tx'[s] = tx[s]
        /\ tx' \in [Bets -> TxState]
        BY <1>f, <2>1 DEF TxState
  <2>3. /\ tx'[t].pc = "commit" /\ tx'[t].row = tx[t].row /\ tx'[t].fresh = tx[t].fresh
        /\ tx'[t].me = tx[t].me /\ tx'[t].rows = tx[t].rows /\ tx'[t].unlocked = tx[t].unlocked
        BY <1>f, <2>2 DEF TxState
  <2>4. EntriesOf(t)'
        BY <1>f, <1>1, <2>3 DEF TxInv, EntriesOf, Written, recordVars, SignupRows, refVars
  <2>5. EdgeOf(t)' /\ WalkOf(t)'
        BY <1>f, <1>1, <2>3 DEF TxInv, EdgeOf, WalkOf, EdgeOpen, Chained, refVars
  <2>6. QED BY <1>1, <2>2, <2>3, <2>4, <2>5, HolderKeeps
<1>3. CASE ~ (layer > Len(Rates) \/ parent = NoBettor \/ ~ EdgeOpen(t, cur))
  <2> DEFINE new == Row(t, parent, share, "referral", cur, NoDay)
             earned == IF share > 0 THEN {new} ELSE {}
             rows == tx[t].rows \cup earned
  <2>1. cur \in Bettors /\ parent \in Bettors /\ referredBy[cur] = parent
        BY <1>f, <1>3 DEF ParentSeen, TxInv, EdgeOf, Parts, ActivityTypeOK, TxState
  <2>2. /\ layer \in DOMAIN Rates /\ layer \in Nat /\ layer + 1 \in 2 .. Len(Rates) + 1
        /\ layer = 1 \/ layer - 1 \in DOMAIN Rates
    <3>1. layer \in Nat /\ Len(Rates) \in Nat /\ layer <= Len(Rates) /\ DOMAIN Rates = 1 .. Len(Rates)
          BY <1>f, <1>3, ActivityAssumption DEF TxState
    <3>2. layer = 1 \/ layer >= 2
          BY <1>f, <1>1 DEF TxInv, WalkOf
    <3>3. QED BY <3>1, <3>2, SMTT(30)
  <2>3. share \in Nat
        BY <2>2, SharesFall
  <2>4. share > 0 => cur = u \/ \E s \in tx[t].rows : s.reason = "referral" /\ s.user = cur
    <3>1. ASSUME Share(t, layer - 1) = 0, layer - 1 \in DOMAIN Rates PROVE share = 0
          BY <2>2, <2>3, <3>1, SharesFall
    <3>2. QED BY <1>f, <1>1, <2>2, <2>3, <3>1 DEF TxInv, WalkOf
  <2>5. tx' = [tx EXCEPT ![t].cur = parent, ![t].layer = layer + 1, ![t].rows = rows]
        BY <1>3 DEF Propagate
  <2>6. rows \subseteq LedgerRow
        BY <1>f, <2>1, <2>3 DEF TxState, LedgerRow, Row
  <2>7. \A r \in earned : r = new /\ share > 0
        OBVIOUS
  <2>8. /\ new.bet = t /\ new.user = parent /\ new.reason = "referral" /\ new.via = cur
        BY DEF Row
  <2> HIDE DEF new
  <2>9. layer + 1 \in Nat
        BY <2>2
  <2> HIDE DEF rows
  <2>10. /\ tx'[t] = [tx[t] EXCEPT !.cur = parent, !.layer = layer + 1, !.rows = rows]
         /\ \A s \in Bets \ {t} : tx'[s] = tx[s]
         /\ tx' \in [Bets -> TxState]
    <3> HIDE DEF parent, layer
    <3>1. QED BY <1>f, <2>1, <2>5, <2>6, <2>9 DEF TxState
  <2>11. /\ tx'[t].pc = "walk" /\ tx'[t].row = tx[t].row /\ tx'[t].fresh = tx[t].fresh
         /\ tx'[t].me = tx[t].me /\ tx'[t].rows = rows /\ tx'[t].unlocked = tx[t].unlocked
         /\ tx'[t].layer = layer + 1 /\ tx'[t].cur = parent
         BY <1>f, <1>1, <2>10 DEF TxState
  <2>12. EntriesOf(t)'
    <3>1. \A r \in rows : r \in tx[t].rows \/ (r.bet = t /\ r.reason = "referral")
          BY <2>7, <2>8 DEF rows
    <3>2. {r \in rows : r.reason = "bet"} = {r \in tx[t].rows : r.reason = "bet"}
          BY <3>1 DEF rows
    <3>3. {r \in rows : r.reason \in {"referral_signup", "referral_welcome"}} =
          {r \in tx[t].rows : r.reason \in {"referral_signup", "referral_welcome"}}
          BY <3>1 DEF rows
    <3>4. SignupRows(t, u)' = SignupRows(t, u)
          BY <1>1 DEF SignupRows, refVars
    <3>5. QED BY <1>f, <1>1, <2>11, <3>1, <3>2, <3>3, <3>4 DEF TxInv, EntriesOf, Written, recordVars
  <2>13. EdgeOf(t)'
         BY <1>f, <1>1, <2>11 DEF TxInv, EdgeOf, refVars
  <2>14. WalkOf(t)'
    <3>1. \A r \in tx[t].rows : r \in rows
          BY DEF rows
    <3>2. ASSUME NEW r \in rows, r.reason = "referral"
          PROVE  r.via \in Bettors /\ EdgeOpen(t, r.via)' /\ referredBy'[r.via] = r.user /\ Chained(r, rows)
      <4>1. CASE r \in tx[t].rows
            BY <1>f, <1>1, <2>11, <3>1, <3>2, <4>1 DEF TxInv, WalkOf, EdgeOpen, Chained, refVars
      <4>2. CASE r \in earned
        <5>1. r = new /\ share > 0
              BY <2>7, <4>2
        <5>2. EdgeOpen(t, cur)
              BY <1>3
        <5>3. \A s \in tx[t].rows : s.bet = t
              BY <1>f DEF TxInv, EntriesOf
        <5>4. QED BY <1>1, <2>1, <2>4, <2>8, <2>11, <3>1, <5>1, <5>2, <5>3 DEF EdgeOpen, Chained, refVars
      <4>3. QED BY <4>1, <4>2 DEF rows
    <3>3. (\E s \in rows : s.reason = "referral" /\ s.user = parent) \/ share = 0
          BY <2>3, <2>8 DEF rows
    <3>4. tx'[t].layer - 1 = layer /\ tx'[t].layer \in 2 .. Len(Rates) + 1
          BY <2>2, <2>11
    <3>5. Share(t, tx'[t].layer - 1) = share
          BY <3>4, Zenon
    <3>6. \/ \E s \in tx'[t].rows : s.reason = "referral" /\ s.user = tx'[t].cur
          \/ Share(t, tx'[t].layer - 1) = 0
          BY <2>11, <3>3, <3>5, Zenon
    <3>7. \A r \in tx'[t].rows : r.reason = "referral" =>
             /\ r.via \in Bettors /\ EdgeOpen(t, r.via)' /\ referredBy'[r.via] = r.user
             /\ Chained(r, tx'[t].rows)
          BY <2>11, <3>2, Zenon
    <3> HIDE DEF layer, parent, share, earned
    <3>8. QED BY <2>11, <3>4, <3>6, <3>7 DEF WalkOf
  <2>15. QED BY <1>1, <2>10, <2>11, <2>12, <2>13, <2>14, HolderKeeps
<1>4. QED BY <1>2, <1>3

LEMMA AbortKeeps == ASSUME ActivityInv, NEW t \in Bets, Abort(t) PROVE ActivityInv'
<1>f. /\ Parts /\ TxInv(t) /\ tx[t] \in TxState /\ Bettor[t] \in Bettors
      /\ tx \in [Bets -> TxState] /\ t # NoHolder
      BY Found
<1>1. /\ tx'[t] = [tx[t] EXCEPT !.pc = "failed", !.rows = {}]
      /\ \A s \in Bets \ {t} : tx'[s] = tx[s]
      /\ tx' \in [Bets -> TxState]
      /\ rowLock' = [u \in Bettors |-> IF rowLock[u] = t THEN NoHolder ELSE rowLock[u]]
      /\ UNCHANGED <<day, recordVars, refVars>>
      BY <1>f DEF Abort, FreedByAbort, TxState
<1>2. \A s \in Bets \ {t} : Holds(s) => rowLock'[Bettor[s]] = rowLock[Bettor[s]]
      BY <1>f, <1>1, ActivityAssumption DEF Parts, TxInv, IsolationOf
<1>3. Unseen(t)
      BY <1>f, <1>1, <1>2 DEF Abort, Unseen, TxState
<1>4. ActivityTypeOK'
      BY <1>f, <1>1 DEF Parts, ActivityTypeOK, recordVars, refVars
<1>5. OwnersInv'
      BY <1>f, <1>1 DEF Parts, ActivityTypeOK, OwnersInv, Holds
<1>6. /\ tx'[t].pc = "failed" /\ tx'[t].rows = {} /\ tx'[t].unlocked = tx[t].unlocked
      /\ tx'[t].me = tx[t].me
      BY <1>f, <1>1 DEF TxState
<1>7. IsolationOf(t)' /\ EntriesOf(t)' /\ EdgeOf(t)' /\ WalkOf(t)'
      BY <1>f, <1>1, <1>6 DEF TxInv, IsolationOf, EntriesOf, EdgeOf, WalkOf, Holds, Written, refVars
<1>8. QED BY <1>3, <1>4, <1>5, <1>7, UnseenKeeps DEF TxInv

-----------------------------------------------------------------------------
(* The commit, and what others do to the rows.                              *)

\* What a commit finds and does, field by field.
LEMMA Committed ==
  ASSUME ActivityInv, NEW t \in Bets, Commit(t)
  PROVE  LET u == Bettor[t] IN
         /\ Parts /\ TxInv(t) /\ tx[t] \in TxState /\ u \in Bettors /\ t # NoHolder
         /\ tx[t].pc = "commit" /\ rowLock[u] = t /\ tx' \in [Bets -> TxState]
         /\ tx'[t] = [tx[t] EXCEPT !.pc = "done", !.rows = {}]
         /\ \A s \in Bets \ {t} : tx'[s] = tx[s]
         /\ tx'[t].pc = "done" /\ tx'[t].rows = {} /\ tx'[t].row = tx[t].row
         /\ tx'[t].me = tx[t].me /\ tx'[t].unlocked = tx[t].unlocked
         /\ stats'[u] = tx[t].row /\ \A v \in Bettors \ {u} : stats'[v] = stats[v]
         /\ edge'[u] = (IF tx[t].unlocked THEN "unlocked" ELSE edge[u])
         /\ \A v \in Bettors \ {u} : edge'[v] = edge[v]
         /\ rowLock'[u] = NoHolder /\ \A v \in Bettors \ {u} : rowLock'[v] = rowLock[v]
         /\ UNCHANGED <<day, referredBy>> /\ exists' = exists \cup {u}
         /\ ledger' = ledger \cup tx[t].rows
         /\ \A s \in Bets \ {t} : Holds(s) => Bettor[s] # u
<1> DEFINE u == Bettor[t]
<1>1. /\ Parts /\ TxInv(t) /\ tx[t] \in TxState /\ u \in Bettors /\ t # NoHolder
      /\ tx \in [Bets -> TxState]
      BY Found
<1>2. tx[t].pc = "commit" /\ rowLock[u] = t /\ UNCHANGED <<day, referredBy>> /\ exists' = exists \cup {u}
      BY <1>1 DEF Commit, TxInv, IsolationOf, Holds
<1>3. /\ tx' \in [Bets -> TxState] /\ tx'[t] = [tx[t] EXCEPT !.pc = "done", !.rows = {}]
      /\ \A s \in Bets \ {t} : tx'[s] = tx[s]
      BY <1>1 DEF Commit, TxState
<1>4. /\ tx'[t].pc = "done" /\ tx'[t].rows = {} /\ tx'[t].row = tx[t].row
      /\ tx'[t].me = tx[t].me /\ tx'[t].unlocked = tx[t].unlocked
      BY <1>1, <1>3 DEF TxState
<1>5. /\ stats'[u] = tx[t].row /\ \A v \in Bettors \ {u} : stats'[v] = stats[v]
      /\ edge'[u] = (IF tx[t].unlocked THEN "unlocked" ELSE edge[u])
      /\ \A v \in Bettors \ {u} : edge'[v] = edge[v]
      /\ rowLock'[u] = NoHolder /\ \A v \in Bettors \ {u} : rowLock'[v] = rowLock[v]
      BY <1>1 DEF Commit, Parts, ActivityTypeOK
<1>6. \A s \in Bets \ {t} : Holds(s) => Bettor[s] # u
      BY <1>1, <1>2 DEF Parts, TxInv, IsolationOf
<1>7. QED BY <1>1, <1>2, <1>3, <1>4, <1>5, <1>6 DEF Commit

LEMMA CommitTypes == ASSUME ActivityInv, NEW t \in Bets, Commit(t) PROVE ActivityTypeOK'
<1>1. Parts /\ Bettor[t] \in Bettors /\ tx[t] \in TxState /\ tx' \in [Bets -> TxState]
      BY Committed
<1>2. tx[t].row \in StatsRow /\ tx[t].rows \subseteq LedgerRow
      BY <1>1 DEF TxState
<1>3. QED BY <1>1, <1>2 DEF Commit, Parts, ActivityTypeOK

LEMMA OthersSeeCommit ==
  ASSUME ActivityInv, NEW t \in Bets, Commit(t), NEW s \in Bets \ {t}
  PROVE  TxInv(s)'
<1> DEFINE u == Bettor[t]
           v == Bettor[s]
<1>1. /\ Parts /\ TxInv(t) /\ u \in Bettors
      /\ tx'[s] = tx[s] /\ UNCHANGED <<day, referredBy>> /\ exists' = exists \cup {u}
      /\ \A w \in Bettors \ {u} : stats'[w] = stats[w] /\ edge'[w] = edge[w] /\ rowLock'[w] = rowLock[w]
      /\ edge'[u] = (IF tx[t].unlocked THEN "unlocked" ELSE edge[u])
      /\ ledger' = ledger \cup tx[t].rows
      /\ Holds(s) => v # u
  <2>0. s \in Bets \ {t}
        OBVIOUS
  <2>1. /\ Parts /\ TxInv(t) /\ u \in Bettors
        /\ UNCHANGED <<day, referredBy>> /\ exists' = exists \cup {u}
        BY Committed
  <2>2. edge'[u] = (IF tx[t].unlocked THEN "unlocked" ELSE edge[u]) /\ ledger' = ledger \cup tx[t].rows
        BY Committed
  <2>3. \A w \in Bettors \ {u} : stats'[w] = stats[w] /\ edge'[w] = edge[w] /\ rowLock'[w] = rowLock[w]
        BY Committed
  <2>4. \A q \in Bets \ {t} : tx'[q] = tx[q]
        BY Committed
  <2>5. \A q \in Bets \ {t} : Holds(q) => Bettor[q] # u
        BY Committed
  <2>6. QED BY <2>0, <2>1, <2>2, <2>3, <2>4, <2>5
<1>2. v \in Bettors /\ TxInv(s)
      BY <1>1, ActivityAssumption DEF Parts
<1>3. (Holds(s)' <=> Holds(s)) /\ (Written(s) => Holds(s))
      BY <1>1 DEF Holds, Written
<1>4. IsolationOf(s)'
      BY <1>1, <1>2, <1>3 DEF TxInv, IsolationOf
<1>5. EntriesOf(s)'
  <2>1. ASSUME NEW r \in tx[s].rows, r.reason = "streak", NEW q \in tx[t].rows, q.reason = "streak"
        PROVE  q.user # v
        BY <1>1, <1>2, <1>3, <2>1 DEF TxInv, EntriesOf
  <2>2. SignupRows(s, v)' = SignupRows(s, v)
        BY <1>1 DEF SignupRows
  <2>3. \A r \in tx[s].rows : r.reason = "streak" => \A q \in ledger' \cup tx[s].rows :
           q.reason = "streak" /\ q.user = v /\ q.day = r.day => q = r
        BY <1>1, <1>2, <2>1 DEF TxInv, EntriesOf
  <2>4. QED BY <1>1, <1>2, <2>2, <2>3 DEF TxInv, EntriesOf, Written
<1>6. EdgeOf(s)'
      BY <1>1, <1>2, <1>3 DEF TxInv, EdgeOf, Holds
<1>7. \A w : EdgeOpen(s, w) /\ w \in Bettors => EdgeOpen(s, w)'
      BY <1>1 DEF EdgeOpen
<1>8. WalkOf(s)'
      BY <1>1, <1>2, <1>7 DEF TxInv, WalkOf, Chained
<1>9. QED BY <1>4, <1>5, <1>6, <1>8 DEF TxInv

\* A commit adds the bet and its day to those of its user.
LEMMA CommitDays ==
  ASSUME ActivityInv, NEW t \in Bets, Commit(t), NEW v \in Bettors
  PROVE  /\ Done(v)' = IF v = Bettor[t] THEN Done(v) \cup {t} ELSE Done(v)
         /\ BetDays(v)' = IF v = Bettor[t] THEN BetDays(v) \cup {tx[t].row.last} ELSE BetDays(v)
         /\ t \notin Done(v)
<1> DEFINE u == Bettor[t]
<1>1. tx[t].pc = "commit" /\ tx'[t].pc = "done" /\ tx'[t].row = tx[t].row
      BY Committed
<1>2. \A s \in Bets \ {t} : tx'[s] = tx[s]
      BY Committed
<1>3. Done(v)' = IF v = u THEN Done(v) \cup {t} ELSE Done(v)
      BY <1>1, <1>2 DEF Done
<1>4. \A s \in Done(v)' : tx'[s].row.last = tx[s].row.last
      BY <1>1, <1>2 DEF Done
<1>5. BetDays(v)' = {tx'[s].row.last : s \in Done(v)'}
      BY DEF BetDays
<1>6. BetDays(v)' = {tx[s].row.last : s \in Done(v)'}
      BY <1>4, <1>5
<1>7. BetDays(v)' = IF v = u THEN BetDays(v) \cup {tx[t].row.last} ELSE BetDays(v)
  <2>1. CASE v = u
    <3>1. Done(v)' = Done(v) \cup {t}
          BY <1>3, <2>1
    <3>2. {tx[s].row.last : s \in Done(v) \cup {t}} = {tx[s].row.last : s \in Done(v)} \cup {tx[t].row.last}
          OBVIOUS
    <3>3. QED BY <1>6, <2>1, <3>1, <3>2 DEF BetDays
  <2>2. CASE v # u
    <3>1. Done(v)' = Done(v)
          BY <1>3, <2>2
    <3>2. QED BY <1>6, <2>2, <3>1 DEF BetDays
  <2>3. QED BY <2>1, <2>2
<1>8. t \notin Done(v)
      BY <1>1 DEF Done
<1>9. QED BY <1>3, <1>7, <1>8

\* The day of a bet that has its lock, and that of the committed row.
LEMMA HeldRow ==
  ASSUME ActivityInv, NEW t \in Bets, Holds(t)
  PROVE  /\ tx[t].row.last \in Day /\ tx[t].row.last \in 0 .. day
         /\ stats[Bettor[t]] \in StatsRow /\ stats[Bettor[t]].last <= tx[t].row.last
         /\ tx[t].row = CountBet(stats[Bettor[t]], tx[t].row.last)
         /\ tx[t].fresh <=> Bettor[t] \notin exists
<1>1. TxInv(t) /\ stats[Bettor[t]] \in StatsRow /\ day \in Day
      BY Found
<1>2. tx[t].row.last \in 0 .. day
      BY <1>1 DEF TxInv, IsolationOf, Holds
<1>3. tx[t].row.last \in Day
      BY <1>1, <1>2, ActivityAssumption DEF Day
<1>4. QED BY <1>1, <1>2, <1>3 DEF TxInv, IsolationOf

LEMMA CommitKeeps == ASSUME ActivityInv, NEW t \in Bets, Commit(t) PROVE ActivityInv'
<1> DEFINE u == Bettor[t]
<1>1. /\ Parts /\ TxInv(t) /\ tx[t] \in TxState /\ u \in Bettors /\ t # NoHolder
      /\ tx[t].pc = "commit" /\ rowLock[u] = t /\ tx' \in [Bets -> TxState]
      BY Committed
<1>2. /\ tx'[t].pc = "done" /\ tx'[t].rows = {} /\ tx'[t].row = tx[t].row
      /\ tx'[t].me = tx[t].me /\ tx'[t].unlocked = tx[t].unlocked
      /\ UNCHANGED <<day, referredBy>> /\ exists' = exists \cup {u}
      BY Committed
<1>3. \A s \in Bets \ {t} : tx'[s] = tx[s]
      BY Committed
<1>4. /\ stats'[u] = tx[t].row /\ \A v \in Bettors \ {u} : stats'[v] = stats[v]
      /\ edge'[u] = (IF tx[t].unlocked THEN "unlocked" ELSE edge[u])
      /\ \A v \in Bettors \ {u} : edge'[v] = edge[v]
      /\ rowLock'[u] = NoHolder /\ \A v \in Bettors \ {u} : rowLock'[v] = rowLock[v]
      BY Committed
<1>5. Holds(t) /\ tx[t].row.last \in 0 .. day /\ stats[u].last <= tx[t].row.last
      BY <1>1, HeldRow DEF Holds
<1>6. ActivityTypeOK'
      BY CommitTypes
<1>7. OwnersInv'
  <2>1. ASSUME NEW v \in Bettors, rowLock'[v] # NoHolder
        PROVE  Bettor[rowLock'[v]] = v /\ Holds(rowLock[v])' /\ rowLock'[v] = rowLock[v]
    <3>1. v # u /\ rowLock'[v] = rowLock[v]
          BY <1>1, <1>4, <2>1
    <3>2. rowLock[v] \in Bets /\ Bettor[rowLock[v]] = v /\ Holds(rowLock[v])
          BY <1>1, <2>1, <3>1 DEF Parts, ActivityTypeOK, OwnersInv
    <3>3. rowLock[v] # t
          BY <3>1, <3>2
    <3>4. tx'[rowLock[v]] = tx[rowLock[v]]
          BY <1>3, <3>2, <3>3
    <3>5. tx'[rowLock'[v]] = tx[rowLock[v]]
          BY <3>1, <3>4
    <3>6. QED BY <3>1, <3>2, <3>5 DEF Holds
  <2>2. QED BY <2>1 DEF OwnersInv
<1>8. CountersInv'
  <2>1. ASSUME NEW v \in Bettors
        PROVE  /\ v \notin exists' => stats'[v] = NewStats
               /\ v \in exists' => stats'[v].last \in BetDays(v)'
               /\ \A d \in BetDays(v)' : d <= stats'[v].last
    <3>1. CASE v = u
      <4>1. BetDays(v)' = BetDays(v) \cup {tx[t].row.last} /\ stats'[v].last = tx[t].row.last
            BY <1>4, <3>1, CommitDays
      <4>2. \A d \in BetDays(v) : d \in Int /\ d <= stats[v].last
            BY <1>1 DEF Parts, CountersInv, BetDays, Done, ActivityTypeOK, TxInv, IsolationOf
      <4>3. stats[v].last \in Int /\ tx[t].row.last \in Int
            BY <1>1, <1>5 DEF Parts, ActivityTypeOK, StatsRow, Day, NoDay
      <4>4. QED BY <1>2, <1>5, <3>1, <4>1, <4>2, <4>3
    <3>2. CASE v # u
      <4>1. BetDays(v)' = BetDays(v) /\ stats'[v] = stats[v]
            BY <1>4, <3>2, CommitDays
      <4>2. QED BY <1>1, <1>2, <3>2, <4>1 DEF Parts, CountersInv
    <3>3. QED BY <3>1, <3>2
  <2>2. QED BY <2>1 DEF CountersInv
<1>9. InvitersInv'
      BY <1>1, <1>2, <1>4 DEF Parts, InvitersInv, TxInv, EdgeOf
<1>10. TxInv(t)'
  <2>1. IsolationOf(t)'
        BY <1>2, <1>5 DEF IsolationOf, Holds
  <2>2. EntriesOf(t)' /\ EdgeOf(t)' /\ WalkOf(t)'
        BY <1>1, <1>2 DEF TxInv, EntriesOf, EdgeOf, WalkOf, Written
  <2>3. QED BY <2>1, <2>2 DEF TxInv
<1>11. \A s \in Bets : TxInv(s)'
       BY <1>10, OthersSeeCommit
<1>12. Parts'
       BY <1>6, <1>7, <1>8, <1>9, <1>11 DEF Parts
<1>13. QED BY <1>12, InvariantParts, PTL

LEMMA AttributeReferralKeeps ==
  ASSUME ActivityInv, NEW u \in Bettors, NEW inviter \in Bettors, AttributeReferral(u, inviter)
  PROVE  ActivityInv'
<1>1. Parts
      BY InvariantParts
<1>2. /\ referredBy' = [referredBy EXCEPT ![u] = inviter] /\ edge' = [edge EXCEPT ![u] = "pending"]
      /\ referredBy[u] = NoBettor /\ edge[u] = "none"
      /\ UNCHANGED <<day, recordVars, rowLock, tx>>
      BY <1>1 DEF AttributeReferral, Parts, InvitersInv
<1>3. ActivityTypeOK'
      BY <1>1, <1>2 DEF Parts, ActivityTypeOK, recordVars
<1>4. OwnersInv' /\ CountersInv'
      BY <1>1, <1>2 DEF Parts, OwnersInv, CountersInv, Holds, BetDays, Done, recordVars
<1>5. InvitersInv'
      BY <1>1, <1>2, ActivityAssumption DEF Parts, ActivityTypeOK, InvitersInv
<1>6. ASSUME NEW t \in Bets PROVE TxInv(t)'
  <2>1. TxInv(t) /\ tx[t] \in TxState /\ Bettor[t] \in Bettors
        BY Found
  <2>2. \A v \in Bettors : v # u => referredBy'[v] = referredBy[v] /\ edge'[v] = edge[v]
        BY <1>1, <1>2 DEF Parts, ActivityTypeOK
  <2>3. IsolationOf(t)'
        BY <1>2, <2>1 DEF TxInv, IsolationOf, Holds, recordVars
  <2>4. EntriesOf(t)'
    <3>1. tx[t].unlocked /\ Written(t) => Bettor[t] # u
          BY <1>2, <2>1 DEF TxInv, EdgeOf, Written
    <3>2. tx[t].unlocked /\ Written(t) => SignupRows(t, Bettor[t])' = SignupRows(t, Bettor[t])
          BY <2>1, <2>2, <3>1 DEF SignupRows
    <3>3. QED BY <1>2, <2>1, <3>2 DEF TxInv, EntriesOf, Written, recordVars
  <2>5. EdgeOf(t)'
        BY <1>2, <2>1, <2>2 DEF TxInv, EdgeOf
  <2>6. WalkOf(t)'
    <3>1. ASSUME NEW r \in tx[t].rows, r.reason = "referral"
          PROVE  EdgeOpen(t, r.via)' /\ referredBy'[r.via] = r.user
      <4>1. r.via \in Bettors /\ EdgeOpen(t, r.via) /\ referredBy[r.via] = r.user /\ r.user \in Bettors
            BY <2>1, <3>1 DEF TxInv, WalkOf, TxState, LedgerRow
      <4>2. r.via # u
            BY <1>2, <4>1, ActivityAssumption
      <4>3. QED BY <1>2, <2>2, <4>1, <4>2 DEF EdgeOpen
    <3>2. QED BY <1>2, <2>1, <3>1 DEF TxInv, WalkOf, Chained
  <2>7. QED BY <2>3, <2>4, <2>5, <2>6 DEF TxInv
<1>7. Parts'
      BY <1>3, <1>4, <1>5, <1>6 DEF Parts
<1>8. QED BY <1>7, InvariantParts, PTL

LEMMA NextDayKeeps == ASSUME ActivityInv, NextDay PROVE ActivityInv'
<1>1. Parts
      BY InvariantParts
<1>2. /\ day' = day + 1 /\ day' \in Day /\ day \in Nat
      /\ UNCHANGED <<recordVars, rowLock, refVars, tx>>
      BY <1>1, ActivityAssumption DEF NextDay, Parts, ActivityTypeOK, Day
<1>3. ActivityTypeOK' /\ OwnersInv' /\ CountersInv' /\ InvitersInv'
      BY <1>1, <1>2 DEF Parts, ActivityTypeOK, OwnersInv, CountersInv, InvitersInv, Holds, BetDays, Done,
                        recordVars, refVars
<1>4. ASSUME NEW t \in Bets PROVE TxInv(t)'
  <2>1. TxInv(t)
        BY <1>1 DEF Parts
  <2>2. IsolationOf(t)'
        BY <1>2, <2>1 DEF TxInv, IsolationOf, Holds, recordVars
  <2>3. EntriesOf(t)' /\ EdgeOf(t)' /\ WalkOf(t)'
        BY <1>2, <2>1 DEF TxInv, EntriesOf, EdgeOf, WalkOf, Written, SignupRows, EdgeOpen, Chained,
                          recordVars, refVars
  <2>4. QED BY <2>2, <2>3 DEF TxInv
<1>5. Parts'
      BY <1>3, <1>4 DEF Parts
<1>6. QED BY <1>5, InvariantParts, PTL

-----------------------------------------------------------------------------

LEMMA ActivityStarts == ActivityInit => ActivityInv
<1> SUFFICES ASSUME ActivityInit PROVE Parts
    BY InvariantParts
<1>1. NewStats \in StatsRow
      BY DEF NewStats, StatsRow
<1>2. \A t \in Bets : tx[t] = [pc |-> "new", row |-> NewStats, fresh |-> FALSE, clash |-> FALSE,
                               me |-> NoBettor, rows |-> {}, unlocked |-> FALSE,
                               cur |-> Bettor[t], layer |-> 1]
      BY DEF ActivityInit
<1>3. \A t \in Bets : /\ tx[t].pc = "new" /\ ~ tx[t].fresh /\ tx[t].rows = {} /\ ~ tx[t].unlocked
                       /\ tx[t].me = NoBettor /\ tx[t].layer = 1 /\ tx[t].cur = Bettor[t]
  <2>1. ASSUME NEW t \in Bets
        PROVE  /\ tx[t].pc = "new" /\ ~ tx[t].fresh /\ tx[t].rows = {} /\ ~ tx[t].unlocked
               /\ tx[t].me = NoBettor /\ tx[t].layer = 1 /\ tx[t].cur = Bettor[t]
    <3> DEFINE T == tx[t]
    <3>1. T = [pc |-> "new", row |-> NewStats, fresh |-> FALSE, clash |-> FALSE,
               me |-> NoBettor, rows |-> {}, unlocked |-> FALSE, cur |-> Bettor[t], layer |-> 1]
          BY <1>2
    <3> HIDE DEF T
    <3>2. /\ T.pc = "new" /\ T.fresh = FALSE /\ T.rows = {} /\ T.unlocked = FALSE
          /\ T.me = NoBettor /\ T.layer = 1 /\ T.cur = Bettor[t]
          BY <3>1
    <3>3. QED BY <3>2 DEF T
  <2>2. QED BY <2>1
<1>4. tx \in [Bets -> TxState]
  <2>1. ASSUME NEW t \in Bets PROVE tx[t] \in TxState
    <3> DEFINE start == Bettor[t]
    <3>1. start \in Bettors
          BY ActivityAssumption
    <3>2. tx[t] = [pc |-> "new", row |-> NewStats, fresh |-> FALSE, clash |-> FALSE, me |-> NoBettor,
                   rows |-> {}, unlocked |-> FALSE, cur |-> start, layer |-> 1]
          BY <1>2
    <3> HIDE DEF start
    <3>3. [pc |-> "new", row |-> NewStats, fresh |-> FALSE, clash |-> FALSE, me |-> NoBettor,
           rows |-> {}, unlocked |-> FALSE, cur |-> start, layer |-> 1] \in TxState
          BY <1>1, <3>1 DEF TxState
    <3>4. QED BY <3>2, <3>3, Zenon
  <2>2. QED BY <2>1 DEF ActivityInit
<1>5. ActivityTypeOK
      BY <1>1, <1>4, ActivityAssumption DEF ActivityInit, ActivityTypeOK, Day
<1>6. OwnersInv /\ CountersInv /\ InvitersInv
      BY <1>2 DEF ActivityInit, OwnersInv, CountersInv, InvitersInv, BetDays, Done
<1>7. ASSUME NEW t \in Bets PROVE TxInv(t)
      BY <1>3 DEF TxInv, IsolationOf, EntriesOf, EdgeOf, WalkOf, Holds, Written
<1>8. QED BY <1>5, <1>6, <1>7 DEF Parts

LEMMA ActivityStep == ActivityInv /\ [ActivityNext]_activityVars => ActivityInv'
<1> SUFFICES ASSUME ActivityInv, [ActivityNext]_activityVars PROVE ActivityInv'
    OBVIOUS
<1>1. CASE NextDay
      BY <1>1, NextDayKeeps
<1>2. ASSUME NEW u \in Bettors, NEW inviter \in Bettors, AttributeReferral(u, inviter) PROVE ActivityInv'
      BY <1>2, AttributeReferralKeeps
<1>3. ASSUME NEW t \in Bets, Begin(t) \/ Record(t) \/ Abort(t) PROVE ActivityInv'
      BY <1>3, BeginKeeps, GetStatsKeeps, FlushStatsKeeps, AwardKeeps, MaybeUnlockKeeps, PropagateKeeps,
         CommitKeeps, AbortKeeps DEF Record
<1>4. CASE UNCHANGED activityVars
  <2>1. Parts
        BY InvariantParts
  <2>2. Parts'
        BY <1>4, <2>1 DEF Parts, ActivityTypeOK, OwnersInv, CountersInv, InvitersInv, TxInv, IsolationOf,
             EntriesOf, EdgeOf, WalkOf, Holds, Written, BetDays, Done, SignupRows, EdgeOpen, Chained,
             activityVars, recordVars, refVars
  <2>3. QED BY <2>2, InvariantParts, PTL
<1>5. QED BY <1>1, <1>2, <1>3, <1>4 DEF ActivityNext

\* Whatever recordings overlap, clash, abort or commit: a transaction past its
\* read holds its user's row and the copy it writes back is that row plus its
\* own bet (record_bet's FOR UPDATE and the primary key); what it adds to the
\* ledger pays each bonus once; an edge it unlocks was pending (_maybe_unlock);
\* and the referral walk is at an inviter whose edge has earned (_propagate).
THEOREM ActivityInvariant == ActivitySpec => []ActivityInv
<1>1. QED BY ActivityStarts, ActivityStep, PTL DEF ActivitySpec

-----------------------------------------------------------------------------
(* What the committed rows say.  Only a commit changes them.                *)

\* A referral row follows an edge that is unlocked.
PointsInv ==
    \A r \in ledger : r.reason = "referral" =>
        /\ r.via \in Bettors /\ edge[r.via] = "unlocked" /\ referredBy[r.via] = r.user
        /\ Chained(r, ledger)

IsStreak(days, d, n) == n \in Runs(days, d) /\ \A m \in Runs(days, d) : m <= n
IsLongest(days, n) == /\ \E d \in days : n \in Runs(days, d)
                      /\ \A d \in days : \A m \in Runs(days, d) : m <= n

StreakInv ==
    \A u \in exists : /\ IsStreak(BetDays(u), stats[u].last, stats[u].streak)
                      /\ IsLongest(BetDays(u), stats[u].longest)

\* A step that commits nothing.
Quiet ==
    /\ UNCHANGED <<exists, stats, ledger>>
    /\ \A s \in Bets : tx'[s] = tx[s] \/ (tx[s].pc # "done" /\ tx'[s].pc # "done")

LEMMA QuietSteps ==
  ASSUME ActivityInv, [ActivityNext]_activityVars, \A t \in Bets : ~ Commit(t)
  PROVE  Quiet
<1>1. tx \in [Bets -> TxState]
      BY InvariantParts DEF Parts, ActivityTypeOK
<1>2. ASSUME NEW t \in Bets, Begin(t) \/ Record(t) \/ Abort(t) PROVE Quiet
  <2>1. UNCHANGED <<exists, stats, ledger>>
        BY <1>2 DEF Begin, Record, Abort, GetStats, FlushStats, AwardBetAndStreak, MaybeUnlock, Propagate, recordVars
  <2>2. tx[t].pc # "done"
        BY <1>2 DEF Begin, Record, Abort, GetStats, FlushStats, AwardBetAndStreak, MaybeUnlock, Propagate
  <2>3. tx'[t].pc # "done" /\ \A s \in Bets \ {t} : tx'[s] = tx[s]
    <3>1. CASE Begin(t)
          BY <1>1, <3>1 DEF Begin, TxState
    <3>2. CASE GetStats(t)
          BY <1>1, <3>2 DEF GetStats, TxState
    <3>3. CASE FlushStats(t)
          BY <1>1, <3>3 DEF FlushStats, TxState
    <3>4. CASE AwardBetAndStreak(t)
          BY <1>1, <3>4 DEF AwardBetAndStreak, TxState
    <3>5. CASE MaybeUnlock(t)
          BY <1>1, <3>5 DEF MaybeUnlock, TxState
    <3>6. CASE Propagate(t)
      <4> DEFINE earned == tx[t].rows \cup (IF Share(t, tx[t].layer) > 0
                             THEN {Row(t, ParentSeen(t, tx[t].cur), Share(t, tx[t].layer), "referral", tx[t].cur, NoDay)} ELSE {})
                 parent == ParentSeen(t, tx[t].cur)
      <4>1. \/ tx' = [tx EXCEPT ![t].pc = "commit"]
            \/ tx' = [tx EXCEPT ![t].cur = parent, ![t].layer = @ + 1, ![t].rows = earned]
            BY <3>6 DEF Propagate
      <4>2. tx[t].pc = "walk"
            BY <3>6 DEF Propagate
      <4> HIDE DEF earned, parent
      <4>3. QED BY <1>1, <4>1, <4>2 DEF TxState
    <3>7. CASE Abort(t)
          BY <1>1, <3>7 DEF Abort, TxState
    <3>8. QED BY <1>2, <3>1, <3>2, <3>3, <3>4, <3>5, <3>6, <3>7 DEF Record
  <2>4. QED BY <2>1, <2>2, <2>3 DEF Quiet
<1>3. CASE NextDay \/ UNCHANGED activityVars
      BY <1>3 DEF NextDay, activityVars, recordVars, Quiet
<1>4. ASSUME NEW u \in Bettors, NEW inviter \in Bettors, AttributeReferral(u, inviter) PROVE Quiet
      BY <1>4 DEF AttributeReferral, recordVars, Quiet
<1>5. QED BY <1>2, <1>3, <1>4 DEF ActivityNext

LEMMA QuietDone ==
  ASSUME Quiet, NEW u \in Bettors
  PROVE  Done(u)' = Done(u) /\ BetDays(u)' = BetDays(u)
<1>1. \A s \in Bets : tx'[s] = tx[s] \/ (tx[s].pc # "done" /\ tx'[s].pc # "done")
      BY DEF Quiet
<1>2. Done(u)' = Done(u)
      BY <1>1 DEF Done
<1>3. \A s \in Done(u) : tx'[s] = tx[s]
      BY <1>1 DEF Done
<1>4. QED BY <1>2, <1>3 DEF BetDays

\* An edge changes when its referral is attributed or a commit unlocks it; an
\* inviter stays.
LEMMA EdgesLast ==
  ASSUME ActivityInv, [ActivityNext]_activityVars, NEW v \in Bettors
  PROVE  /\ referredBy[v] # NoBettor => referredBy'[v] = referredBy[v]
         /\ edge[v] = "unlocked" => edge'[v] = "unlocked"
         /\ edge'[v] = "unlocked" /\ edge[v] # "unlocked" =>
               \E t \in Bets : Commit(t) /\ Bettor[t] = v /\ tx[t].unlocked
<1>1. Parts
      BY InvariantParts
<1>2. ASSUME NEW t \in Bets, Commit(t)
      PROVE  /\ referredBy' = referredBy
             /\ edge'[v] = edge[v] \/ (edge'[v] = "unlocked" /\ Bettor[t] = v /\ tx[t].unlocked)
      BY <1>1, <1>2 DEF Commit, Parts, ActivityTypeOK
<1>3. ASSUME NEW u \in Bettors, NEW inviter \in Bettors, AttributeReferral(u, inviter)
      PROVE  /\ referredBy[v] # NoBettor => referredBy'[v] = referredBy[v]
             /\ edge[v] = "unlocked" <=> edge'[v] = "unlocked"
      BY <1>1, <1>3 DEF AttributeReferral, Parts, ActivityTypeOK, InvitersInv
<1>4. ASSUME NEW t \in Bets, Begin(t) \/ (Record(t) /\ ~ Commit(t)) \/ Abort(t)
      PROVE  UNCHANGED refVars
      BY <1>4 DEF Begin, Record, Abort, GetStats, FlushStats, AwardBetAndStreak, MaybeUnlock, Propagate
<1>5. CASE NextDay \/ UNCHANGED activityVars
      BY <1>5 DEF NextDay, activityVars, refVars
<1>6. QED BY <1>2, <1>3, <1>4, <1>5 DEF ActivityNext, Record, refVars

\* The ledger of points rows stays within its type.
LEMMA LedgerTypes ==
  ASSUME ActivityInv
  PROVE  \A r \in ledger : r.bet \in Bets /\ r.user \in Bettors
  BY InvariantParts DEF Parts, ActivityTypeOK, LedgerRow

LEMMA PointsStep == ActivityInv /\ PointsInv /\ [ActivityNext]_activityVars => PointsInv'
<1> SUFFICES ASSUME ActivityInv, PointsInv, [ActivityNext]_activityVars,
                    NEW r \in ledger', r.reason = "referral"
             PROVE  /\ r.via \in Bettors /\ edge'[r.via] = "unlocked" /\ referredBy'[r.via] = r.user
                    /\ Chained(r, ledger')
    BY DEF PointsInv, Chained
<1>1. CASE r \in ledger
  <2>1. /\ r.via \in Bettors /\ edge[r.via] = "unlocked" /\ referredBy[r.via] = r.user
        /\ Chained(r, ledger) /\ r.user \in Bettors
        BY <1>1, LedgerTypes DEF PointsInv
  <2>2. edge'[r.via] = "unlocked" /\ referredBy'[r.via] = r.user
        BY <2>1, EdgesLast, ActivityAssumption
  <2>3. ledger \subseteq ledger'
    <3>1. CASE \A t \in Bets : ~ Commit(t)
          BY <3>1, QuietSteps DEF Quiet
    <3>2. ASSUME NEW t \in Bets, Commit(t) PROVE ledger \subseteq ledger'
          BY <3>2 DEF Commit
    <3>3. QED BY <3>1, <3>2
  <2>4. QED BY <2>1, <2>2, <2>3 DEF Chained
<1>2. CASE r \notin ledger
  <2>1. PICK t \in Bets : Commit(t)
        BY <1>2, QuietSteps DEF Quiet
  <2>2. /\ ledger' = ledger \cup tx[t].rows /\ r \in tx[t].rows /\ TxInv(t)
        /\ referredBy' = referredBy
        /\ edge'[Bettor[t]] = (IF tx[t].unlocked THEN "unlocked" ELSE edge[Bettor[t]])
        /\ \A v \in Bettors \ {Bettor[t]} : edge'[v] = edge[v]
    <3>1. ledger' = ledger \cup tx[t].rows /\ TxInv(t) /\ referredBy' = referredBy
          BY <2>1, Committed
    <3>2. edge'[Bettor[t]] = (IF tx[t].unlocked THEN "unlocked" ELSE edge[Bettor[t]])
          BY <2>1, Committed
    <3>3. \A v \in Bettors \ {Bettor[t]} : edge'[v] = edge[v]
          BY <2>1, Committed
    <3>4. QED BY <1>2, <3>1, <3>2, <3>3
  <2>3. /\ r.via \in Bettors /\ EdgeOpen(t, r.via) /\ referredBy[r.via] = r.user
        /\ Chained(r, tx[t].rows)
        BY <2>2 DEF TxInv, WalkOf
  <2>4. edge'[r.via] = "unlocked"
        BY <2>2, <2>3 DEF EdgeOpen
  <2>5. Chained(r, ledger')
        BY <2>2, <2>3 DEF Chained
  <2>6. QED BY <2>2, <2>3, <2>4, <2>5
<1>3. QED BY <1>1, <1>2

\* Points reach an inviter through unlocked edges only, up from a bettor without
\* a gap (rewards._propagate stops at an inactive edge), whatever signs up,
\* unlocks or bets meanwhile, for any rates that do not increase.
THEOREM PointsFollowUnlocked == ActivitySpec => []ReferralPointsFollowUnlocked
<1>1. ActivityInit => PointsInv
      BY DEF ActivityInit, PointsInv
<1>2. PointsInv => ReferralPointsFollowUnlocked
      BY DEF PointsInv, ReferralPointsFollowUnlocked
<1>3. QED BY <1>1, <1>2, PointsStep, ActivityInvariant, PTL DEF ActivitySpec

-----------------------------------------------------------------------------
(* Bets, streaks and bonuses are counted once.                              *)

LEMMA TotalsStep == ActivityInv /\ TotalsAddUp /\ [ActivityNext]_activityVars => TotalsAddUp'
<1> SUFFICES ASSUME ActivityInv, TotalsAddUp, [ActivityNext]_activityVars, NEW v \in Bettors
             PROVE  /\ stats'[v].total = Cardinality(Done(v)')
                    /\ {r \in ledger' : r.reason = "bet" /\ r.user = v} =
                          {Row(s, v, Points[s], "bet", NoBettor, NoDay) : s \in Done(v)'}
    BY DEF TotalsAddUp, Row
<1>1. /\ stats[v].total = Cardinality(Done(v))
      /\ {r \in ledger : r.reason = "bet" /\ r.user = v} =
            {Row(s, v, Points[s], "bet", NoBettor, NoDay) : s \in Done(v)}
      BY DEF TotalsAddUp
<1>2. CASE \A t \in Bets : ~ Commit(t)
  <2>1. Done(v)' = Done(v) /\ UNCHANGED <<stats, ledger>>
        BY <1>2, QuietSteps, QuietDone DEF Quiet
  <2>2. QED BY <1>1, <2>1
<1>3. ASSUME NEW t \in Bets, Commit(t)
      PROVE  /\ stats'[v].total = Cardinality(Done(v)')
             /\ {r \in ledger' : r.reason = "bet" /\ r.user = v} =
                   {Row(s, v, Points[s], "bet", NoBettor, NoDay) : s \in Done(v)'}
  <2> DEFINE u == Bettor[t]
             bet == Row(t, u, Points[t], "bet", NoBettor, NoDay)
  <2>1. tx[t].pc = "commit" /\ TxInv(t) /\ ledger' = ledger \cup tx[t].rows /\ u \in Bettors
        BY <1>3, Committed
  <2>2. stats'[u] = tx[t].row
        BY <1>3, Committed
  <2>3. \A w \in Bettors \ {u} : stats'[w] = stats[w]
        BY <1>3, Committed
  <2>4. {r \in tx[t].rows : r.reason = "bet"} = {bet}
        BY <2>1 DEF TxInv, EntriesOf, Written
  <2>5. bet.user = u
        BY DEF Row
  <2>6. CASE v = u
    <3>1. Done(v)' = Done(v) \cup {t} /\ t \notin Done(v)
          BY <1>3, <2>6, CommitDays
    <3>2. IsFiniteSet(Done(v))
      <4>1. Done(v) \subseteq Bets
            BY DEF Done
      <4>2. QED BY <4>1, FS_Subset, ActivityAssumption
    <3>3. Cardinality(Done(v)') = Cardinality(Done(v)) + 1
          BY <3>1, <3>2, FS_AddElement
    <3>4. tx[t].row.total = stats[v].total + 1
      <4>1. Holds(t)
            BY <2>1 DEF Holds
      <4>2. QED BY <2>6, <4>1, HeldRow, CountFacts
    <3>5. {r \in ledger' : r.reason = "bet" /\ r.user = v} =
          {r \in ledger : r.reason = "bet" /\ r.user = v} \cup {bet}
      <4> HIDE DEF bet
      <4>1. QED BY <2>1, <2>4, <2>5, <2>6
    <3>6. {Row(s, v, Points[s], "bet", NoBettor, NoDay) : s \in Done(v) \cup {t}} =
          {Row(s, v, Points[s], "bet", NoBettor, NoDay) : s \in Done(v)} \cup {bet}
          BY <2>6
    <3>7. QED BY <1>1, <2>2, <2>6, <3>1, <3>3, <3>4, <3>5, <3>6
  <2>7. CASE v # u
    <3>1. Done(v)' = Done(v) /\ stats'[v] = stats[v]
          BY <1>3, <2>3, <2>7, CommitDays
    <3>2. {r \in ledger' : r.reason = "bet" /\ r.user = v} = {r \in ledger : r.reason = "bet" /\ r.user = v}
      <4> HIDE DEF bet
      <4>1. QED BY <2>1, <2>4, <2>5, <2>7
    <3>3. QED BY <1>1, <3>1, <3>2
  <2>8. QED BY <2>6, <2>7
<1>4. QED BY <1>2, <1>3

LEMMA BonusStep == ActivityInv /\ OneStreakBonusPerDay /\ [ActivityNext]_activityVars => OneStreakBonusPerDay'
<1> SUFFICES ASSUME ActivityInv, OneStreakBonusPerDay, [ActivityNext]_activityVars,
                    NEW r \in ledger', NEW q \in ledger', r.reason = "streak", q.reason = "streak",
                    r.user = q.user, r.day = q.day
             PROVE  r = q
    BY DEF OneStreakBonusPerDay
<1>1. CASE r \in ledger /\ q \in ledger
      BY <1>1 DEF OneStreakBonusPerDay
<1>2. CASE ~ (r \in ledger /\ q \in ledger)
  <2>1. PICK t \in Bets : Commit(t)
        BY <1>2, QuietSteps DEF Quiet
  <2>2. ledger' = ledger \cup tx[t].rows /\ TxInv(t)
        BY <2>1, Committed
  <2>3. \A x \in tx[t].rows : x.reason = "streak" =>
           /\ x.user = Bettor[t]
           /\ \A s \in ledger \cup tx[t].rows :
                 s.reason = "streak" /\ s.user = Bettor[t] /\ s.day = x.day => s = x
        BY <2>2 DEF TxInv, EntriesOf
  <2>4. r \in tx[t].rows \/ q \in tx[t].rows
        BY <1>2, <2>2
  <2>5. QED BY <2>2, <2>3, <2>4
<1>3. QED BY <1>1, <1>2

\* The rows of u's signup bonuses.
Paid(u, rows) == {r \in rows : \/ r.reason = "referral_welcome" /\ r.user = u
                               \/ r.reason = "referral_signup" /\ r.via = u}

LEMMA UnlockStep == ActivityInv /\ UnlockPaysOnce /\ [ActivityNext]_activityVars => UnlockPaysOnce'
<1> SUFFICES ASSUME ActivityInv, UnlockPaysOnce, [ActivityNext]_activityVars, NEW v \in Bettors
             PROVE  IF edge'[v] = "unlocked"
                    THEN /\ stats'[v].total >= UnlockBets
                         /\ \E s \in Done(v)' : Paid(v, ledger') = SignupRows(s, v)'
                    ELSE Paid(v, ledger') = {}
    BY DEF UnlockPaysOnce, Paid, SignupRows
<1>1. IF edge[v] = "unlocked"
      THEN stats[v].total >= UnlockBets /\ \E s \in Done(v) : Paid(v, ledger) = SignupRows(s, v)
      ELSE Paid(v, ledger) = {}
      BY DEF UnlockPaysOnce, Paid
<1>2. Parts
      BY InvariantParts
<1>3. edge[v] = "unlocked" => \A s : SignupRows(s, v)' = SignupRows(s, v)
      BY <1>2, EdgesLast DEF Parts, InvitersInv, SignupRows
<1>4. CASE \A t \in Bets : ~ Commit(t)
  <2>1. Done(v)' = Done(v) /\ UNCHANGED <<stats, ledger>>
        BY <1>4, QuietSteps, QuietDone DEF Quiet
  <2>2. edge'[v] = "unlocked" <=> edge[v] = "unlocked"
        BY <1>4, EdgesLast
  <2>3. QED BY <1>1, <1>3, <2>1, <2>2
<1>5. ASSUME NEW t \in Bets, Commit(t)
      PROVE  IF edge'[v] = "unlocked"
             THEN /\ stats'[v].total >= UnlockBets
                  /\ \E s \in Done(v)' : Paid(v, ledger') = SignupRows(s, v)'
             ELSE Paid(v, ledger') = {}
  <2> DEFINE u == Bettor[t]
  <2>1. /\ tx[t].pc = "commit" /\ TxInv(t) /\ ledger' = ledger \cup tx[t].rows /\ u \in Bettors
        /\ referredBy' = referredBy
        BY <1>5, Committed
  <2>2. stats'[u] = tx[t].row /\ edge'[u] = (IF tx[t].unlocked THEN "unlocked" ELSE edge[u])
        BY <1>5, Committed
  <2>3. \A w \in Bettors \ {u} : stats'[w] = stats[w]
        BY <1>5, Committed
  <2>4. \A w \in Bettors \ {u} : edge'[w] = edge[w]
        BY <1>5, Committed
  <2>5. \A s, w : SignupRows(s, w)' = SignupRows(s, w)
        BY <2>1 DEF SignupRows
  <2>6. {r \in tx[t].rows : r.reason \in {"referral_signup", "referral_welcome"}} =
        IF tx[t].unlocked THEN SignupRows(t, u) ELSE {}
        BY <2>1 DEF TxInv, EntriesOf, Written
  <2>7. \A r \in SignupRows(t, u) : \/ r.reason = "referral_signup" /\ r.via = u
                                    \/ r.reason = "referral_welcome" /\ r.user = u
        BY DEF SignupRows, Row
  <2>8. CASE v = u /\ tx[t].unlocked
    <3>1. edge[v] = "pending" /\ tx[t].row.total >= UnlockBets
          BY <2>1, <2>8 DEF TxInv, EdgeOf
    <3>2. Paid(v, ledger) = {}
          BY <1>1, <3>1
    <3>3. Paid(v, ledger') = SignupRows(t, v)
          BY <2>1, <2>6, <2>7, <2>8, <3>2 DEF Paid
    <3>4. t \in Done(v)'
          BY <1>5, <2>8, CommitDays
    <3>5. QED BY <2>2, <2>5, <2>8, <3>1, <3>3, <3>4
  <2>9. CASE ~ (v = u /\ tx[t].unlocked)
    <3>1. Paid(v, ledger') = Paid(v, ledger)
          BY <2>1, <2>6, <2>7, <2>9 DEF Paid, SignupRows, Row
    <3>2. edge'[v] = edge[v]
          BY <2>2, <2>4, <2>9
    <3>3. Done(v) \subseteq Done(v)'
          BY <1>5, CommitDays
    <3>4. stats[v].total \in Nat /\ stats'[v].total >= stats[v].total /\ stats'[v].total \in Nat
      <4>1. stats[v] \in StatsRow
            BY <1>2 DEF Parts, ActivityTypeOK
      <4>2. CASE v # u
            BY <2>3, <4>1, <4>2 DEF StatsRow
      <4>3. CASE v = u
        <5>1. Holds(t)
              BY <2>1 DEF Holds
        <5>2. tx[t].row.total = stats[v].total + 1
              BY <4>3, <5>1, HeldRow, CountFacts
        <5>3. QED BY <2>2, <4>1, <4>3, <5>2 DEF StatsRow
      <4>4. QED BY <4>2, <4>3
    <3>5. UnlockBets \in Nat
          BY ActivityAssumption
    <3>6. QED BY <1>1, <2>5, <3>1, <3>2, <3>3, <3>4, <3>5
  <2>10. QED BY <2>8, <2>9
<1>6. QED BY <1>4, <1>5

\* A run is a length, and its days are among those given.
LEMMA RunIs ==
  ASSUME NEW days, NEW d \in Day, NEW n
  PROVE  n \in Runs(days, d) <=>
            n \in Nat /\ 1 <= n /\ n <= MaxDay + 1 /\ \A k \in Int : d - n + 1 <= k /\ k <= d => k \in days
<1>1. d \in Int /\ MaxDay \in Nat
      BY ActivityAssumption DEF Day
<1>2. QED BY <1>1 DEF Runs

\* A later day changes no earlier run.
LEMMA EarlierRunsStay ==
  ASSUME NEW days \in SUBSET Day, NEW last \in Day, NEW e \in days, e < last
  PROVE  Runs(days \cup {last}, e) = Runs(days, e)
<1>1. e \in Int /\ last \in Int
      BY DEF Day
<1>2. \A n \in 1 .. MaxDay + 1 : (e - n + 1) .. e \subseteq days \cup {last} <=> (e - n + 1) .. e \subseteq days
      BY <1>1, ActivityAssumption
<1>3. QED BY <1>2 DEF Runs

\* The day after the last one prolongs its run by one; one after a gap, and the
\* very first one, starts a run.
LEMMA StreakGoesOn ==
  ASSUME NEW days \in SUBSET Day, NEW last \in days, NEW n \in Nat, IsStreak(days, last, n),
         NEW d \in Day, d = last + 1, \A e \in days : e <= last
  PROVE  IsStreak(days \cup {d}, d, n + 1)
<1>1. d \in Nat /\ last \in Nat /\ last + 1 <= MaxDay /\ last \in Day /\ MaxDay \in Nat
      BY ActivityAssumption DEF Day
<1>2. \A k \in Int : last - n + 1 <= k /\ k <= last => k \in days
      BY <1>1, RunIs DEF IsStreak
<1>3. 1 <= n /\ n <= last + 1
  <2>1. 1 <= n
        BY <1>1, RunIs DEF IsStreak
  <2>2. ASSUME n > last + 1 PROVE FALSE
    <3>1. last - n + 1 \in Int /\ last - n + 1 < 0 /\ last - n + 1 <= last
          BY <1>1, <2>2
    <3>2. last - n + 1 \in days
          BY <1>2, <3>1
    <3>3. QED BY <3>1, <3>2 DEF Day
  <2>3. QED BY <1>1, <2>1, <2>2
<1>4. n + 1 \in Runs(days \cup {d}, d)
  <2>1. \A k \in Int : d - (n + 1) + 1 <= k /\ k <= d => k \in days \cup {d}
        BY <1>1, <1>2
  <2>2. n + 1 \in Nat /\ 1 <= n + 1 /\ n + 1 <= MaxDay + 1
        BY <1>1, <1>3
  <2>3. QED BY <2>1, <2>2, RunIs
<1>5. ASSUME NEW m \in Runs(days \cup {d}, d) PROVE m <= n + 1
  <2>1. m \in Nat /\ 1 <= m /\ m <= MaxDay + 1 /\ \A k \in Int : d - m + 1 <= k /\ k <= d => k \in days \cup {d}
        BY RunIs
  <2>2. CASE m = 1
        BY <2>2, <1>3
  <2>3. CASE m # 1
    <3>1. m - 1 \in Nat /\ 1 <= m - 1 /\ m - 1 <= MaxDay + 1
          BY <1>1, <2>1, <2>3
    <3>2. \A k \in Int : last - (m - 1) + 1 <= k /\ k <= last => k \in days
          BY <1>1, <2>1
    <3>3. m - 1 \in Runs(days, last)
          BY <1>1, <3>1, <3>2, RunIs
    <3>4. QED BY <2>1, <3>1, <3>3 DEF IsStreak
  <2>4. QED BY <2>2, <2>3
<1>6. QED BY <1>4, <1>5 DEF IsStreak

LEMMA StreakStarts ==
  ASSUME NEW days \in SUBSET Day, NEW d \in Day, \A e \in days : e < d - 1
  PROVE  IsStreak(days \cup {d}, d, 1)
<1>1. d \in Nat /\ MaxDay \in Nat
      BY ActivityAssumption DEF Day
<1>2. 1 \in Runs(days \cup {d}, d)
  <2>1. \A k \in Int : d - 1 + 1 <= k /\ k <= d => k \in days \cup {d}
        BY <1>1
  <2>2. QED BY <1>1, <2>1, RunIs
<1>3. ASSUME NEW m \in Runs(days \cup {d}, d) PROVE m <= 1
  <2>1. m \in Nat /\ \A k \in Int : d - m + 1 <= k /\ k <= d => k \in days \cup {d}
        BY RunIs
  <2>2. d - 1 \notin days \cup {d}
        BY <1>1 DEF Day
  <2>3. QED BY <1>1, <2>1, <2>2
<1>4. QED BY <1>2, <1>3 DEF IsStreak

LEMMA LongestGrows ==
  ASSUME NEW days \in SUBSET Day, NEW d \in Day, \A e \in days : e < d,
         NEW n \in Nat, NEW m \in Nat, IsStreak(days \cup {d}, d, m),
         IsLongest(days, n) \/ (days = {} /\ n = 0)
  PROVE  IsLongest(days \cup {d}, IF n >= m THEN n ELSE m)
<1>1. \A e \in days : Runs(days \cup {d}, e) = Runs(days, e)
      BY EarlierRunsStay
<1>2. \A e \in days \cup {d} : \A k \in Runs(days \cup {d}, e) : k \in Nat
  <2>1. \A e \in days \cup {d} : e \in Day
        OBVIOUS
  <2>2. QED BY <2>1, RunIs
<1>3. m >= 1
      BY RunIs DEF IsStreak
<1>4. CASE n >= m
  <2>1. IsLongest(days, n)
        BY <1>3, <1>4
  <2>2. PICK e \in days : n \in Runs(days, e)
        BY <2>1 DEF IsLongest
  <2>3. \A e2 \in days \cup {d} : \A k \in Runs(days \cup {d}, e2) : k <= n
    <3>1. ASSUME NEW e2 \in days, NEW k \in Runs(days \cup {d}, e2) PROVE k <= n
          BY <1>1, <2>1 DEF IsLongest
    <3>2. ASSUME NEW k \in Runs(days \cup {d}, d) PROVE k <= n
      <4>1. k \in Nat /\ k <= m
            BY <1>2 DEF IsStreak
      <4>2. QED BY <1>4, <4>1
    <3>3. QED BY <3>1, <3>2
  <2>4. QED BY <1>1, <1>4, <2>2, <2>3 DEF IsLongest
<1>5. CASE ~ n >= m
  <2>1. \A e \in days : \A k \in Runs(days, e) : k <= n
        BY DEF IsLongest
  <2>2. \A e \in days \cup {d} : \A k \in Runs(days \cup {d}, e) : k <= m
    <3>1. ASSUME NEW e \in days, NEW k \in Runs(days \cup {d}, e) PROVE k <= m
      <4>1. k \in Nat /\ k <= n
            BY <1>1, <1>2, <2>1
      <4>2. QED BY <1>5, <4>1
    <3>2. ASSUME NEW k \in Runs(days \cup {d}, d) PROVE k <= m
          BY DEF IsStreak
    <3>3. QED BY <3>1, <3>2
  <2>3. m \in Runs(days \cup {d}, d)
        BY DEF IsStreak
  <2>4. QED BY <1>5, <2>2, <2>3 DEF IsLongest
<1>6. QED BY <1>4, <1>5

LEMMA StreakStep == ActivityInv /\ StreakInv /\ [ActivityNext]_activityVars => StreakInv'
<1> SUFFICES ASSUME ActivityInv, StreakInv, [ActivityNext]_activityVars, NEW v \in exists'
             PROVE  /\ IsStreak(BetDays(v)', stats'[v].last, stats'[v].streak)
                    /\ IsLongest(BetDays(v)', stats'[v].longest)
    BY DEF StreakInv, IsStreak, IsLongest, Runs
<1>1. Parts
      BY InvariantParts
<1>2. CASE \A t \in Bets : ~ Commit(t)
  <2>1. UNCHANGED <<exists, stats>> /\ v \in Bettors
        BY <1>1, <1>2, QuietSteps DEF Quiet, Parts, ActivityTypeOK
  <2>2. BetDays(v)' = BetDays(v)
        BY <1>2, <2>1, QuietSteps, QuietDone
  <2>3. QED BY <2>1, <2>2 DEF StreakInv
<1>3. ASSUME NEW t \in Bets, Commit(t)
      PROVE  /\ IsStreak(BetDays(v)', stats'[v].last, stats'[v].streak)
             /\ IsLongest(BetDays(v)', stats'[v].longest)
  <2> DEFINE u == Bettor[t]
             d == tx[t].row.last
             days == BetDays(u)
             old == stats[u]
  <2>1. /\ tx[t].pc = "commit" /\ u \in Bettors /\ exists' = exists \cup {u}
        BY <1>3, Committed
  <2>2. stats'[u] = tx[t].row
        BY <1>3, Committed
  <2>3. \A w \in Bettors \ {u} : stats'[w] = stats[w]
        BY <1>3, Committed
  <2>4. v \in Bettors
        BY <1>1, <2>1 DEF Parts, ActivityTypeOK
  <2>5. CASE v # u
    <3>1. v \in exists /\ stats'[v] = stats[v] /\ BetDays(v)' = BetDays(v)
          BY <1>3, <2>1, <2>3, <2>4, <2>5, CommitDays
    <3>2. QED BY <3>1 DEF StreakInv
  <2>6. CASE v = u
    <3>1. /\ d \in Day /\ old \in StatsRow /\ old.last <= d /\ tx[t].row = CountBet(old, d)
      <4>1. Holds(t)
            BY <2>1 DEF Holds
      <4>2. QED BY <4>1, HeldRow
    <3>2. /\ tx[t].row.streak = (IF old.last = d THEN old.streak
                                 ELSE IF old.last = d - 1 THEN old.streak + 1 ELSE 1)
          /\ tx[t].row.longest = (IF old.longest >= tx[t].row.streak THEN old.longest ELSE tx[t].row.streak)
          /\ tx[t].row \in StatsRow
          BY <3>1, CountFacts
    <3>3. BetDays(v)' = days \cup {d}
          BY <1>3, <2>4, <2>6, CommitDays
    <3>4. days \subseteq Day
      <4>1. \A s \in Done(u) : tx[s].row.last \in 0 .. day
            BY <1>1 DEF Parts, TxInv, IsolationOf, Done
      <4>2. 0 .. day \subseteq Day
            BY <1>1, ActivityAssumption DEF Parts, ActivityTypeOK, Day
      <4>3. QED BY <4>1, <4>2 DEF BetDays
    <3>5. /\ u \notin exists => old = NewStats
          /\ u \in exists => old.last \in days
          /\ \A e \in days : e <= old.last
          BY <1>1, <2>1 DEF Parts, CountersInv
    <3>6. u \in exists => IsStreak(days, old.last, old.streak) /\ IsLongest(days, old.longest)
          BY DEF StreakInv
    <3>7. old.streak \in Nat /\ old.longest \in Nat /\ tx[t].row.streak \in Nat /\ d \in Nat
          BY <3>1, <3>2 DEF StatsRow, Day
    <3> HIDE DEF d, days, old
    <3>8. CASE u \in exists /\ old.last = d
      <4>1. days \cup {d} = days /\ tx[t].row.streak = old.streak
            BY <3>2, <3>5, <3>8
      <4>2. old.streak <= old.longest
            BY <3>5, <3>6, <3>8 DEF IsStreak, IsLongest
      <4>3. tx[t].row.longest = old.longest
            BY <3>2, <3>7, <4>1, <4>2
      <4>4. stats'[v].last = d /\ stats'[v].streak = old.streak /\ stats'[v].longest = old.longest
            BY <2>2, <2>6, <4>1, <4>3 DEF d
      <4>5. QED BY <3>3, <3>6, <3>8, <4>1, <4>4
    <3>9. CASE ~ (u \in exists /\ old.last = d)
      <4>1. \A e \in days : e < d
        <5>1. CASE u \in exists
          <6>1. old.last \in Day
                BY <3>4, <3>5, <5>1
          <6>2. old.last < d
                BY <3>1, <3>9, <5>1, <6>1 DEF Day
          <6>3. \A e \in days : e \in Int /\ e <= old.last
                BY <3>4, <3>5 DEF Day
          <6>4. old.last \in Int /\ d \in Int
                BY <3>7, <6>1 DEF Day
          <6>5. QED BY <6>2, <6>3, <6>4
        <5>2. CASE u \notin exists
              BY <3>4, <3>5, <5>2, <3>7 DEF Day, NewStats, NoDay
        <5>3. QED BY <5>1, <5>2
      <4>2. IsStreak(days \cup {d}, d, tx[t].row.streak)
        <5>1. CASE u \in exists /\ old.last = d - 1
          <6>1. d = old.last + 1 /\ tx[t].row.streak = old.streak + 1
                BY <3>2, <3>7, <5>1, <3>4, <3>5 DEF Day
          <6>2. QED BY <3>1, <3>4, <3>5, <3>6, <3>7, <5>1, <6>1, StreakGoesOn
        <5>2. CASE ~ (u \in exists /\ old.last = d - 1)
          <6>1. tx[t].row.streak = 1 /\ \A e \in days : e < d - 1
            <7>1. CASE u \in exists
              <8>1. old.last \in Day
                    BY <3>4, <3>5, <7>1
              <8>2. QED BY <3>1, <3>2, <3>4, <3>5, <3>9, <5>2, <7>1, <8>1 DEF Day
            <7>2. CASE u \notin exists
              <8>1. old.last = -2
                    BY <3>5, <7>2 DEF NewStats, NoDay
              <8>2. tx[t].row.streak = 1
                    BY <3>2, <3>7, <8>1
              <8>3. \A e \in days : e \in Nat /\ e <= -2
                    BY <3>4, <3>5, <8>1 DEF Day
              <8>4. QED BY <3>7, <8>2, <8>3
            <7>3. QED BY <7>1, <7>2
          <6>2. QED BY <3>1, <3>4, <6>1, StreakStarts
        <5>3. QED BY <5>1, <5>2
      <4>3. IsLongest(days, old.longest) \/ (days = {} /\ old.longest = 0)
        <5>1. CASE u \notin exists
          <6>1. old.last = -2 /\ old.longest = 0
                BY <3>5, <5>1 DEF NewStats, NoDay
          <6>2. days = {}
                BY <3>4, <3>5, <6>1 DEF Day
          <6>3. QED BY <6>1, <6>2
        <5>2. QED BY <3>6, <5>1
      <4>4. IsLongest(days \cup {d}, IF old.longest >= tx[t].row.streak THEN old.longest ELSE tx[t].row.streak)
            BY <3>1, <3>4, <3>7, <4>1, <4>2, <4>3, LongestGrows
      <4>5. stats'[v].last = d /\ stats'[v] = tx[t].row
            BY <2>2, <2>6 DEF d
      <4>6. QED BY <3>2, <3>3, <4>2, <4>4, <4>5
    <3>10. QED BY <3>8, <3>9
  <2>7. QED BY <2>5, <2>6
<1>4. QED BY <1>2, <1>3

LEMMA StreaksAreRuns == ActivityInv /\ StreakInv => StreakIsRunOfDays
<1> SUFFICES ASSUME ActivityInv, StreakInv, NEW u \in exists
             PROVE  /\ stats[u].streak = Max(Runs(BetDays(u), stats[u].last))
                    /\ stats[u].longest = Max(UNION {Runs(BetDays(u), d) : d \in BetDays(u)})
    BY DEF StreakIsRunOfDays
<1> DEFINE days == BetDays(u)
<1>1. IsStreak(days, stats[u].last, stats[u].streak) /\ IsLongest(days, stats[u].longest)
      BY DEF StreakInv
<1>2. \A d : Runs(days, d) \subseteq Int
      BY ActivityAssumption DEF Runs
<1>3. stats[u].streak = Max(Runs(days, stats[u].last))
      BY <1>1, <1>2, MaxIs DEF IsStreak
<1> DEFINE all == UNION {Runs(days, d) : d \in days}
<1>4. all \subseteq Int /\ stats[u].longest \in all /\ \A m \in all : m <= stats[u].longest
      BY <1>1, <1>2 DEF IsLongest
<1> HIDE DEF all
<1>5. stats[u].longest = Max(all)
      BY <1>4, MaxIs
<1>6. QED BY <1>3, <1>5 DEF all

\* However the recordings of the two surfaces overlap, fail or die: no bet is
\* lost from the lifetime counter or paid twice, the streak and the longest
\* streak are the runs of the days with a bet, an edge is unlocked and paid by
\* exactly one bet, and a day has one streak bonus (record_bet, _maybe_unlock and
\* reward_for_streak), for any number of bets, users and days.
THEOREM BetsCountOnce == ActivitySpec => []EveryBetCountsOnce
<1>1. ActivityInit => TotalsAddUp /\ OneStreakBonusPerDay /\ UnlockPaysOnce /\ StreakInv
  <2> SUFFICES ASSUME ActivityInit PROVE TotalsAddUp /\ OneStreakBonusPerDay /\ UnlockPaysOnce /\ StreakInv
      OBVIOUS
  <2>1. \A u \in Bettors : Done(u) = {}
        BY DEF ActivityInit, Done
  <2>2. Cardinality({}) = 0
        BY FS_EmptySet
  <2>3. TotalsAddUp
        BY <2>1, <2>2 DEF ActivityInit, TotalsAddUp, NewStats
  <2>4. OneStreakBonusPerDay /\ UnlockPaysOnce /\ StreakInv
        BY DEF ActivityInit, OneStreakBonusPerDay, UnlockPaysOnce, StreakInv
  <2>5. QED BY <2>3, <2>4
<1>2. ActivityInv /\ TotalsAddUp /\ OneStreakBonusPerDay /\ UnlockPaysOnce /\ StreakInv => EveryBetCountsOnce
      BY StreaksAreRuns DEF EveryBetCountsOnce
<1>3. QED BY <1>1, <1>2, TotalsStep, BonusStep, UnlockStep, StreakStep, ActivityInvariant, PTL DEF ActivitySpec
=============================================================================
