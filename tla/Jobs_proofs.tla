---------------------------- MODULE Jobs_proofs ----------------------------
(***************************************************************************)
(* Proofs about two jobs of the bot.                                       *)
(*                                                                         *)
(* The settlement job (Settlement), for any users, bets, markets, batch    *)
(* limits and number of faults.  BetInv is inductive: a run has read       *)
(* nothing that is not final (JobInv), so what it books is what the market *)
(* says; it books open bets only, and a bet is open as long as nobody was  *)
(* told of it.  CountersMatchBets needs of it that the types hold and the  *)
(* booked bets were open.                                                  *)
(*                                                                         *)
(* The broadcast queue (Broadcast), for any recipients, any batch limit    *)
(* and any number of forms, faults and blocked bots.  The order of the     *)
(* messages needs what a run has taken up (HeldAreOldest) and what it has  *)
(* tried (TriesInv): the older row of a user is in the batch of the newer  *)
(* one, and tried before it, unless it was marked before.                  *)
(***************************************************************************)
EXTENDS Settlement, Broadcast, FiniteSetTheorems, TLAPS

BetInv == SettleInv /\ BookedAsSettled /\ NotifiedOnceTruly

\* The bets a run books: open, placed, on markets it knows the result of.
Due == {b \in OpenBets : Resolved(job.res[MarketOf[b]])}

\* A batch holds only bets that were placed and are still open.
LEMMA DueBets ==
    ASSUME TypeOK
    PROVE  /\ Due \subseteq Bets
           /\ \A b \in Due : /\ IsPlaced(b) /\ status[b] = "OPEN"
                             /\ job.res[MarketOf[b]] # Unsettled
<1>1. \A b \in OpenBets : b \in Bets /\ IsPlaced(b) /\ status[b] = "OPEN"
  <2>1. placed \in Seq(Bets)  BY DEF TypeOK
  <2>2. \A k \in DOMAIN placed : placed[k] \in Bets  BY <2>1
  <2>3. \A b \in OpenBets : \E k \in DOMAIN placed : b = placed[k] /\ status[placed[k]] = "OPEN"
    BY DEF OpenBets
  <2>4. QED  BY <2>2, <2>3 DEF IsPlaced
<1>2. QED  BY <1>1 DEF Due, Resolved

\* A settled market decides every bet on it.
LEMMA ResultFinal ==
    ASSUME NEW b \in Bets, NEW o
    PROVE  Result(b, o) \in Final
BY DEF Result, Final

\* Any set of bets has a cardinality.
LEMMA BetsCount ==
    ASSUME NEW S \in SUBSET Bets
    PROVE  IsFiniteSet(S) /\ Cardinality(S) \in Nat
BY BetsAssumption, FS_Subset, FS_CardinalityType

----------------------------------------------------------------------------
\* The initial states satisfy the invariant: nothing was bet, read or told.
LEMMA InitInv == Init => BetInv
<1> SUFFICES ASSUME Init PROVE BetInv  OBVIOUS
<1> USE DEF Init, Idle
<1>1. TypeOK
  BY BetsAssumption, BoundsAssumption DEF TypeOK, Outcomes, Final
<1>2. JobInv  BY DEF JobInv
<1>3. BookedAsSettled  BY DEF BookedAsSettled
<1>4. NotifiedOnceTruly  BY DEF NotifiedOnceTruly
<1>5. QED  BY <1>1, <1>2, <1>3, <1>4 DEF BetInv, SettleInv

\* Bets, markets and the steps of a run that book nothing keep the types.
LEMMA TypeStep ==
    ASSUME TypeOK, [Next]_vars
    PROVE  TypeOK'
<1> USE BoundsAssumption DEF TypeOK
<1>1. ASSUME NEW b \in Bets, PlaceBet(b) PROVE TypeOK'
  BY <1>1 DEF PlaceBet, betVars
<1>2. ASSUME NEW m \in Markets, NEW o \in Token \cup {Void}, SettleMarket(m, o) PROVE TypeOK'
  BY <1>2 DEF SettleMarket, betVars, Outcomes
<1>3. CASE StartRun
  <2>1. Idle.res \in [Markets -> Outcomes]  BY DEF Idle, Outcomes
  <2>2. PICK todo \in SUBSET {MarketOf[b] : b \in Open} :
           job' = [Idle EXCEPT !.pc = "resolve", !.todo = todo]
    BY <1>3 DEF StartRun
  <2>3. todo \in SUBSET Markets  BY <2>2, BetsAssumption DEF Open
  <2>4. QED  BY <1>3, <2>1, <2>2, <2>3 DEF StartRun, betVars, Idle
<1>4. ASSUME NEW m \in Markets, Resolve(m) PROVE TypeOK'
  <2>1. faults' \in 0 .. MaxFaults  BY <1>4 DEF Resolve, Fault
  <2>2. [job.res EXCEPT ![m] = outcome[m]] \in [Markets -> Outcomes]  OBVIOUS
  <2>3. \/ job' = [job EXCEPT !.todo = @ \ {m}, !.res = [job.res EXCEPT ![m] = outcome[m]]]
        \/ job' = [job EXCEPT !.todo = @ \ {m}]
    BY <1>4 DEF Resolve
  <2>4. job' \in [pc : {"idle", "resolve", "notify"}, todo : SUBSET Markets,
                  res : [Markets -> Outcomes], notes : SUBSET Bets]
    BY <2>2, <2>3
  <2>5. QED  BY <1>4, <2>1, <2>4 DEF Resolve, betVars
<1>5. CASE SettleBatch
  <2> DEFINE result(b) == Result(b, job.res[MarketOf[b]])
             count(s, u, r) == Cardinality({b \in s : Owner[b] = u /\ result(b) = r})
  <2>1. PICK failed \in SUBSET Due :
           LET settled == Due \ failed IN
           /\ IF failed = {} THEN UNCHANGED faults ELSE Fault
           /\ status' = [b \in Bets |-> IF b \in settled THEN result(b) ELSE status[b]]
           /\ wins' = [u \in Users |-> wins[u] + count(settled, u, "WON")]
           /\ losses' = [u \in Users |-> losses[u] + count(settled, u, "LOST")]
           /\ bonus' = [b \in Bets |-> IF b \in settled /\ result(b) = "WON"
                                       THEN bonus[b] + 1 ELSE bonus[b]]
           /\ job' = [job EXCEPT !.pc = "notify", !.notes = ToNotify(settled, failed)]
    BY <1>5 DEF SettleBatch, Due
  <2>2. Due \ failed \in SUBSET Bets  BY DueBets
  <2> DEFINE won == [u \in Users |-> count(Due \ failed, u, "WON")]
             lost == [u \in Users |-> count(Due \ failed, u, "LOST")]
  <2>3. won \in [Users -> Nat] /\ lost \in [Users -> Nat]
    BY <2>2, BetsCount
  <2>4. \A b \in Bets : result(b) \in Final  BY ResultFinal
  <2>5. faults' \in 0 .. MaxFaults  BY <2>1 DEF Fault
  <2>6. status' \in [Bets -> {"OPEN"} \cup Final]  BY <2>1, <2>4
  <2>7. wins' \in [Users -> Nat] /\ losses' \in [Users -> Nat]
    <3>1. /\ wins' = [u \in Users |-> wins[u] + won[u]]
          /\ losses' = [u \in Users |-> losses[u] + lost[u]]
      BY <2>1
    <3> HIDE DEF won, lost
    <3>2. QED  BY <2>3, <3>1
  <2>8. bonus' \in [Bets -> Nat]  BY <2>1
  <2>9. job' \in [pc : {"idle", "resolve", "notify"}, todo : SUBSET Markets,
                  res : [Markets -> Outcomes], notes : SUBSET Bets]
    BY <2>1, <2>2 DEF ToNotify
  <2>10. UNCHANGED <<outcome, placed, notified>>  BY <1>5 DEF SettleBatch
  <2>11. QED  BY <2>5, <2>6, <2>7, <2>8, <2>9, <2>10
<1>6. ASSUME NEW b \in Bets, Notify(b) PROVE TypeOK'
  <2>1. Result(b, job.res[MarketOf[b]]) \in Final  BY ResultFinal
  <2>2. notified' \in [Bets -> Seq(Final)]
    <3>1. CASE notified' = notified  BY <3>1
    <3>2. CASE notified' = [notified EXCEPT ![b] = Append(@, Result(b, job.res[MarketOf[b]]))]
      BY <2>1, <3>2
    <3>3. QED  BY <1>6, <3>1, <3>2 DEF Notify
  <2>3. job' \in [pc : {"idle", "resolve", "notify"}, todo : SUBSET Markets,
                  res : [Markets -> Outcomes], notes : SUBSET Bets]
    BY <1>6 DEF Notify
  <2>4. faults' \in 0 .. MaxFaults  BY <1>6 DEF Notify, Fault
  <2>5. QED  BY <1>6, <2>2, <2>3, <2>4 DEF Notify, betVars
<1>7. CASE EndRun \/ Crash
  <2>1. Idle \in [pc : {"idle", "resolve", "notify"}, todo : SUBSET Markets,
                  res : [Markets -> Outcomes], notes : SUBSET Bets]
    BY DEF Idle, Outcomes
  <2>2. QED  BY <1>7, <2>1 DEF EndRun, Crash, Fault, betVars
<1>8. CASE UNCHANGED vars  BY <1>8 DEF vars, betVars
<1>9. QED  BY <1>1, <1>2, <1>3, <1>4, <1>5, <1>6, <1>7, <1>8 DEF Next, JobStep

----------------------------------------------------------------------------
\* A step changes no booked bet, reads no result twice and tells nobody twice:
\* the rest of the invariant is inductive.
LEMMA BetStep ==
    ASSUME BetInv, [Next]_vars
    PROVE  JobInv' /\ BookedAsSettled' /\ NotifiedOnceTruly'
<1>0. TypeOK /\ TypeOK'  BY TypeStep DEF BetInv, SettleInv
<1> USE DEF BetInv, SettleInv
<1>1. ASSUME NEW b \in Bets, PlaceBet(b) PROVE JobInv' /\ BookedAsSettled' /\ NotifiedOnceTruly'
  <2>1. \A c \in Bets : IsPlaced(c) => IsPlaced(c)'
    <3>1. placed' = Append(placed, b) /\ placed \in Seq(Bets)  BY <1>0, <1>1 DEF PlaceBet, TypeOK
    <3>2. \A k \in DOMAIN placed : k \in DOMAIN placed' /\ placed'[k] = placed[k]
      BY <3>1
    <3>3. QED  BY <3>2 DEF IsPlaced
  <2>2. UNCHANGED <<outcome, status, notified, job>>  BY <1>1 DEF PlaceBet, betVars
  <2>3. QED  BY <2>1, <2>2 DEF JobInv, BookedAsSettled, NotifiedOnceTruly
<1>2. ASSUME NEW m \in Markets, NEW o \in Token \cup {Void}, SettleMarket(m, o)
      PROVE JobInv' /\ BookedAsSettled' /\ NotifiedOnceTruly'
  <2>1. UNCHANGED <<placed, status, notified, job>>  BY <1>2 DEF SettleMarket, betVars
  <2>2. \A n \in Markets : outcome[n] # Unsettled => outcome'[n] = outcome[n]
    BY <1>0, <1>2 DEF SettleMarket, TypeOK
  <2>3. JobInv'  BY <2>1, <2>2 DEF JobInv
  <2>4. \A b \in Bets : status[b] \in Final => outcome'[MarketOf[b]] = outcome[MarketOf[b]]
    BY <2>2, BetsAssumption, OutcomesAssumption DEF BookedAsSettled, Final
  <2>5. BookedAsSettled'
    BY <2>1, <2>4 DEF BookedAsSettled, Final, IsPlaced
  <2>6. QED  BY <2>1, <2>3, <2>5 DEF NotifiedOnceTruly
<1>3. CASE StartRun \/ EndRun \/ Crash
  <2>1. UNCHANGED <<outcome, placed, status, notified>>
    BY <1>3 DEF StartRun, EndRun, Crash, betVars
  <2>2. job'.notes = {} /\ job'.res = [m \in Markets |-> Unsettled]
    <3>1. CASE StartRun
      <4>1. PICK todo : job' = [Idle EXCEPT !.pc = "resolve", !.todo = todo]
        BY <3>1 DEF StartRun
      <4>2. QED  BY <4>1 DEF Idle
    <3>2. CASE EndRun \/ Crash  BY <3>2 DEF EndRun, Crash, Idle
    <3>3. QED  BY <1>3, <3>1, <3>2
  <2>3. QED  BY <2>1, <2>2 DEF JobInv, BookedAsSettled, NotifiedOnceTruly, IsPlaced
<1>4. ASSUME NEW m \in Markets, Resolve(m)
      PROVE JobInv' /\ BookedAsSettled' /\ NotifiedOnceTruly'
  <2>1. UNCHANGED <<outcome, placed, status, notified>>  BY <1>4 DEF Resolve, betVars
  <2>2. job'.notes = {}  BY <1>0, <1>4 DEF Resolve, JobInv, TypeOK
  <2>3. \A n \in Markets : job'.res[n] = job.res[n] \/ job'.res[n] = outcome[n]
    <3>1. CASE job' = [job EXCEPT !.todo = @ \ {m}]  BY <3>1
    <3>2. CASE job' = [job EXCEPT !.todo = @ \ {m}, !.res[m] = outcome[m]]
      BY <1>0, <3>2 DEF TypeOK
    <3>3. QED  BY <1>4, <3>1, <3>2 DEF Resolve
  <2>4. QED  BY <2>1, <2>2, <2>3 DEF JobInv, BookedAsSettled, NotifiedOnceTruly, IsPlaced
<1>5. CASE SettleBatch
  <2> DEFINE result == [b \in Bets |-> Result(b, job.res[MarketOf[b]])]
  <2>1. PICK failed \in SUBSET Due :
           /\ status' = [b \in Bets |-> IF b \in Due \ failed THEN result[b] ELSE status[b]]
           /\ job' = [job EXCEPT !.pc = "notify", !.notes = Due \ failed]
    <3>1. PICK failed \in SUBSET Due :
             /\ status' = [b \in Bets |-> IF b \in Due \ failed
                                          THEN Result(b, job.res[MarketOf[b]]) ELSE status[b]]
             /\ job' = [job EXCEPT !.pc = "notify", !.notes = Due \ failed]
      BY <1>5 DEF SettleBatch, Due, ToNotify
    <3>2. QED  BY <3>1
  <2>2. UNCHANGED <<outcome, placed, notified>>  BY <1>5 DEF SettleBatch
  <2>3. \A b \in Due : /\ b \in Bets /\ IsPlaced(b) /\ status[b] = "OPEN"
                       /\ notified[b] = <<>>
                       /\ job.res[MarketOf[b]] # Unsettled
                       /\ job.res[MarketOf[b]] = outcome[MarketOf[b]]
    BY <1>0, DueBets, BetsAssumption DEF JobInv
  <2>4. job'.res = job.res /\ job'.notes = Due \ failed /\ job'.pc = "notify"
    BY <1>0, <2>1 DEF TypeOK
  <2>5. \A b \in Bets : /\ b \in Due \ failed => status'[b] = result[b]
                        /\ b \notin Due \ failed => status'[b] = status[b]
    BY <2>1
  <2>6. result \in [Bets -> Final]  BY ResultFinal
  <2> HIDE DEF result
  <2>7. JobInv'
    <3>1. ASSUME NEW b \in Due \ failed
          PROVE  status'[b] # "OPEN" /\ notified'[b] = <<>> /\ status'[b] = result[b]
      <4>1. b \in Bets /\ notified[b] = <<>>  BY <2>3
      <4>2. status'[b] = result[b] /\ result[b] \in Final  BY <2>5, <2>6, <4>1
      <4>3. QED  BY <2>2, <4>1, <4>2 DEF Final
    <3>2. ASSUME NEW b \in Bets, status'[b] = "OPEN" PROVE notified'[b] = <<>>
      <4>1. b \notin Due \ failed  BY <3>1, <3>2
      <4>2. status[b] = "OPEN"  BY <2>5, <3>2, <4>1
      <4>3. QED  BY <2>2, <4>2 DEF JobInv
    <3>3. \A b \in Bets : result[b] = Result(b, job'.res[MarketOf[b]])
      BY <2>4 DEF result
    <3>4. \A m \in Markets : job'.res[m] # Unsettled => outcome'[m] = job'.res[m]
      BY <2>2, <2>4 DEF JobInv
    <3>5. \A b \in job'.notes : b \in Bets  BY <2>3, <2>4
    <3>6. QED  BY <2>4, <3>1, <3>2, <3>3, <3>4, <3>5 DEF JobInv, Result
  <2>8. BookedAsSettled'
    <3> SUFFICES ASSUME NEW b \in Bets
                 PROVE  LET o == outcome[MarketOf[b]] IN
                        /\ status'[b] = "WON" => o = TokenOf[b]
                        /\ status'[b] = "LOST" => o \in Token \ {TokenOf[b]}
                        /\ status'[b] = "VOID" => o = Void
                        /\ status'[b] # "OPEN" => IsPlaced(b)
      BY <2>2 DEF BookedAsSettled, IsPlaced
    <3>1. outcome[MarketOf[b]] \in Outcomes
      BY <1>0, BetsAssumption DEF TypeOK
    <3>2. CASE b \in Due \ failed
      <4>1. status'[b] = result[b]  BY <2>5, <3>2
      <4>2. outcome[MarketOf[b]] \in Token \cup {Void} /\ IsPlaced(b)
        BY <2>3, <3>1, <3>2 DEF Outcomes
      <4>3. result[b] = Result(b, outcome[MarketOf[b]])  BY <2>3, <3>2 DEF result
      <4>4. QED  BY <4>1, <4>2, <4>3 DEF Result
    <3>3. CASE b \notin Due \ failed
      <4>1. status'[b] = status[b]  BY <2>5, <3>3
      <4>2. QED  BY <4>1 DEF BookedAsSettled
    <3>4. QED  BY <3>2, <3>3
  <2>9. NotifiedOnceTruly'
    <3> SUFFICES ASSUME NEW b \in Bets
                 PROVE  Len(notified'[b]) <= 1 /\ (notified'[b] # <<>> => notified'[b] = <<status'[b]>>)
      BY DEF NotifiedOnceTruly
    <3>1. CASE b \in Due \ failed
      <4>1. notified'[b] = <<>>  BY <2>2, <2>3, <3>1
      <4>2. QED  BY <4>1
    <3>2. CASE b \notin Due \ failed
      <4>1. notified'[b] = notified[b] /\ status'[b] = status[b]  BY <2>2, <2>5, <3>2
      <4>2. QED  BY <4>1 DEF NotifiedOnceTruly
    <3>3. QED  BY <3>1, <3>2
  <2>10. QED  BY <2>7, <2>8, <2>9
<1>6. ASSUME NEW b \in Bets, Notify(b) PROVE JobInv' /\ BookedAsSettled' /\ NotifiedOnceTruly'
  <2>1. UNCHANGED <<outcome, placed, status>> /\ b \in job.notes  BY <1>6 DEF Notify, betVars
  <2>2. /\ job'.notes = job.notes \ {b} /\ UNCHANGED <<job.res, job.pc>> /\ job.pc = "notify"
    BY <1>0, <1>6 DEF Notify, TypeOK
  <2>3. \A c \in Bets \ {b} : notified'[c] = notified[c]
    BY <1>0, <1>6 DEF Notify, TypeOK
  <2>4. notified'[b] \in {notified[b], <<status[b]>>}
    <3>1. notified[b] = <<>> /\ status[b] = Result(b, job.res[MarketOf[b]])  BY <2>1 DEF JobInv
    <3>2. QED  BY <1>0, <1>6, <3>1 DEF Notify, TypeOK
  <2>5. status[b] # "OPEN"  BY <2>1 DEF JobInv
  <2>6. JobInv'  
    <3>1. \A c \in job'.notes : c \in Bets \ {b}  BY <1>0, <2>2 DEF TypeOK
    <3>2. QED  BY <2>1, <2>2, <2>3, <2>5, <3>1 DEF JobInv, Result
  <2>7. BookedAsSettled'  BY <2>1 DEF BookedAsSettled, IsPlaced
  <2>8. NotifiedOnceTruly'
    <3>1. CASE notified'[b] = notified[b]
      BY <2>1, <2>3, <3>1 DEF NotifiedOnceTruly
    <3>2. CASE notified'[b] = <<status[b]>>
      <4>1. Len(<<status[b]>>) = 1  OBVIOUS
      <4>2. Len(notified'[b]) <= 1 /\ notified'[b] = <<status'[b]>>  BY <2>1, <3>2, <4>1
      <4>3. QED  BY <2>1, <2>3, <4>2 DEF NotifiedOnceTruly
    <3>3. QED  BY <2>4, <3>1, <3>2
  <2>9. QED  BY <2>6, <2>7, <2>8
<1>7. CASE UNCHANGED vars
  BY <1>7 DEF vars, betVars, JobInv, BookedAsSettled, NotifiedOnceTruly, IsPlaced, Result
<1>8. QED  BY <1>1, <1>2, <1>3, <1>4, <1>5, <1>6, <1>7 DEF Next, JobStep

----------------------------------------------------------------------------
\* The invariant of the settlement job, types included: what a run has read is
\* final, and the bettors it still has to notify are those of bets it booked.
THEOREM SettleInvariant == Spec => []SettleInv
<1>1. Init => BetInv  BY InitInv
<1>2. BetInv /\ [Next]_vars => BetInv'  BY TypeStep, BetStep DEF BetInv, SettleInv
<1>3. BetInv => SettleInv  BY DEF BetInv
<1>4. QED  BY <1>1, <1>2, <1>3, PTL DEF Spec

\* Every bet is booked as its settled market says, whatever runs, failed
\* bookings and crashes there were (settlement_job, settle_bet_values).
THEOREM BetsBookedAsSettled == Spec => []BookedAsSettled
<1>1. Init => BetInv  BY InitInv
<1>2. BetInv /\ [Next]_vars => BetInv'  BY TypeStep, BetStep DEF BetInv, SettleInv
<1>3. BetInv => BookedAsSettled  BY DEF BetInv
<1>4. QED  BY <1>1, <1>2, <1>3, PTL DEF Spec

\* A bettor is told of a bet once at most, and only what was committed.
THEOREM BettorsToldOnce == Spec => []NotifiedOnceTruly
<1>1. Init => BetInv  BY InitInv
<1>2. BetInv /\ [Next]_vars => BetInv'  BY TypeStep, BetStep DEF BetInv, SettleInv
<1>3. BetInv => NotifiedOnceTruly  BY DEF BetInv
<1>4. QED  BY <1>1, <1>2, <1>3, PTL DEF Spec

----------------------------------------------------------------------------
\* Disjoint sets of bets add up.
LEMMA DisjointBets ==
    ASSUME NEW O \in SUBSET Bets, NEW S \in SUBSET Bets, O \cap S = {}
    PROVE  Cardinality(O \cup S) = Cardinality(O) + Cardinality(S)
<1>1. IsFiniteSet(O) /\ IsFiniteSet(S) /\ Cardinality(O) \in Nat /\ Cardinality(S) \in Nat
  BY BetsCount
<1>2. Cardinality(O \cup S) = Cardinality(O) + Cardinality(S) - Cardinality(O \cap S)
  BY <1>1, FS_Union
<1>3. Cardinality(O \cap S) = 0  BY FS_EmptySet
<1>4. QED  BY <1>1, <1>2, <1>3

\* Every step keeps the counters in step with the booked bets.
LEMMA CountersStep ==
    ASSUME BetInv, CountersMatchBets, [Next]_vars
    PROVE  CountersMatchBets'
<1>1. CASE SettleBatch
  <2> DEFINE result(b) == Result(b, job.res[MarketOf[b]])
             count(s, u, r) == Cardinality({b \in s : Owner[b] = u /\ result(b) = r})
             total(st, u, r) == Cardinality({b \in Bets : Owner[b] = u /\ st[b] = r})
  <2>1. TypeOK  BY DEF BetInv, SettleInv
  <2>2. Due \subseteq Bets /\ \A b \in Due : status[b] = "OPEN"  BY <2>1, DueBets
  <2>3. PICK failed \in SUBSET Due :
           LET settled == Due \ failed IN
           /\ status' = [b \in Bets |-> IF b \in settled THEN result(b) ELSE status[b]]
           /\ wins' = [u \in Users |-> wins[u] + count(settled, u, "WON")]
           /\ losses' = [u \in Users |-> losses[u] + count(settled, u, "LOST")]
           /\ bonus' = [b \in Bets |-> IF b \in settled /\ result(b) = "WON"
                                       THEN bonus[b] + 1 ELSE bonus[b]]
    BY <1>1 DEF SettleBatch, Due
  <2> DEFINE settled == Due \ failed
  <2>4. settled \in SUBSET Bets  BY <2>2
  <2>5. \A b \in settled : status[b] = "OPEN" /\ status'[b] = result(b)
    BY <2>2, <2>3
  <2>6. \A b \in Bets \ settled : status'[b] = status[b]  BY <2>3
  <2>7. ASSUME NEW u \in Users
        PROVE  wins'[u] = total(status', u, "WON") /\ losses'[u] = total(status', u, "LOST")
    <3>1. /\ wins'[u] = wins[u] + count(settled, u, "WON")
          /\ losses'[u] = losses[u] + count(settled, u, "LOST")
      BY <2>3
    <3>2. wins[u] = total(status, u, "WON") /\ losses[u] = total(status, u, "LOST")
      BY DEF CountersMatchBets
    <3>3. ASSUME NEW r \in {"WON", "LOST"}
          PROVE  total(status', u, r) = total(status, u, r) + count(settled, u, r)
      <4> DEFINE O == {b \in Bets : Owner[b] = u /\ status[b] = r}
                 S == {b \in settled : Owner[b] = u /\ result(b) = r}
      <4>1. \A b \in Bets : b \in settled => status[b] = "OPEN" /\ status'[b] = result(b)
        BY <2>5
      <4> HIDE DEF settled, result
      <4>2. {b \in Bets : Owner[b] = u /\ status'[b] = r} = O \cup S
        BY <2>4, <2>6, <4>1
      <4>3. O \in SUBSET Bets /\ S \in SUBSET Bets /\ O \cap S = {}  BY <2>4, <4>1
      <4> HIDE DEF O, S
      <4>4. Cardinality(O \cup S) = Cardinality(O) + Cardinality(S)  BY <4>3, DisjointBets
      <4>5. QED  BY <4>2, <4>4 DEF O, S
    <3>4. /\ total(status', u, "WON") = total(status, u, "WON") + count(settled, u, "WON")
          /\ total(status', u, "LOST") = total(status, u, "LOST") + count(settled, u, "LOST")
      BY <3>3
    <3>5. QED  BY <3>1, <3>2, <3>4
  <2>8. ASSUME NEW b \in Bets
        PROVE  bonus'[b] = IF status'[b] = "WON" THEN 1 ELSE 0
    <3>1. bonus[b] = IF status[b] = "WON" THEN 1 ELSE 0  BY DEF CountersMatchBets
    <3>2. bonus'[b] = IF b \in settled /\ result(b) = "WON" THEN bonus[b] + 1 ELSE bonus[b]
      BY <2>3
    <3>3. CASE b \in settled
      <4>1. status[b] = "OPEN" /\ status'[b] = result(b)  BY <2>5, <3>3
      <4>2. bonus[b] = 0  BY <3>1, <4>1
      <4>3. bonus'[b] = IF status'[b] = "WON" THEN bonus[b] + 1 ELSE bonus[b]
        BY <3>2, <3>3, <4>1
      <4>4. QED  BY <4>2, <4>3
    <3>4. CASE b \notin settled
      <4>1. status'[b] = status[b]  BY <2>6, <3>4
      <4>2. bonus'[b] = bonus[b]  BY <3>2, <3>4
      <4>3. QED  BY <3>1, <4>1, <4>2
    <3>5. QED  BY <3>3, <3>4
  <2>9. QED  BY <2>7, <2>8 DEF CountersMatchBets
<1>2. CASE UNCHANGED betVars
  BY <1>2 DEF betVars, CountersMatchBets
<1>3. QED
  BY <1>1, <1>2 DEF Next, JobStep, vars, PlaceBet, SettleMarket, StartRun, Resolve, Notify,
                    EndRun, Crash

\* Wins, losses and win bonuses count the booked bets, each once
\* (record_settlement and reward_for_win inside the savepoint of each bet).
THEOREM CountersAgree == Spec => []CountersMatchBets
<1>1. Init => BetInv /\ CountersMatchBets
  <2> SUFFICES ASSUME Init PROVE CountersMatchBets  BY InitInv
  <2>1. \A u \in Users, r \in {"WON", "LOST"} : {b \in Bets : Owner[b] = u /\ status[b] = r} = {}
    BY DEF Init
  <2>2. QED  BY <2>1, FS_EmptySet DEF Init, CountersMatchBets
<1>2. BetInv /\ CountersMatchBets /\ [Next]_vars => (BetInv /\ CountersMatchBets)'
  BY TypeStep, BetStep, CountersStep DEF BetInv, SettleInv
<1>3. QED  BY <1>1, <1>2, PTL DEF Spec

-----------------------------------------------------------------------------
(* The broadcast queue.                                                    *)

\* The parts of a record that describes a run.
Runs == [pc : {"idle", "send"}, todo : SUBSET Rows, done : SUBSET Rows, error : SUBSET Rows]

\* A row's form is a number, and its user a recipient.
LEMMA RowParts ==
    ASSUME NEW k \in Rows
    PROVE  FormOf(k) \in Forms /\ UserOf(k) \in Recipients /\ FormOf(k) \in Nat
BY BroadcastAssumption DEF Rows, Forms, FormOf, UserOf

\* A form that commits joins the log, and those that were overtaken stay so.
LEMMA LogGrows ==
    ASSUME log \in Seq(Forms), NEW n \in Forms, log' = Append(log, n)
    PROVE  /\ log' \in Seq(Forms)
           /\ Committed' = Committed \cup {n}
           /\ \A f : Overtaken(f) => Overtaken(f)'
<1>1. log' \in Seq(Forms) /\ Len(log') = Len(log) + 1 /\ Len(log) \in Nat
  OBVIOUS
<1>2. \A i \in 1 .. Len(log) : log'[i] = log[i]
  OBVIOUS
<1>3. log'[Len(log) + 1] = n
  OBVIOUS
<1>4. Committed' = Committed \cup {n}
  <2>1. Committed' = {log'[i] : i \in 1 .. Len(log) + 1}
    BY <1>1 DEF Committed
  <2>2. ASSUME NEW x \in Committed  PROVE x \in Committed'
    BY <2>1, <1>1, <1>2 DEF Committed
  <2>3. n \in Committed'
    BY <2>1, <1>1, <1>3
  <2>4. ASSUME NEW x \in Committed'  PROVE x \in Committed \cup {n}
    <3>1. PICK i \in 1 .. Len(log) + 1 : x = log'[i]
      BY <2>1
    <3>2. CASE i = Len(log) + 1
      BY <3>1, <3>2, <1>3
    <3>3. CASE i # Len(log) + 1
      <4>1. i \in 1 .. Len(log)
        BY <3>3, <1>1
      <4> QED
        BY <3>1, <4>1, <1>2 DEF Committed
    <3> QED
      BY <3>2, <3>3
  <2> QED
    BY <2>2, <2>3, <2>4
<1>5. ASSUME NEW f, Overtaken(f)  PROVE Overtaken(f)'
  <2>1. PICK i, j \in 1 .. Len(log) : i < j /\ log[j] = f /\ log[i] > f
    BY <1>5 DEF Overtaken
  <2>2. i \in 1 .. Len(log') /\ j \in 1 .. Len(log')
    BY <1>1
  <2> QED
    BY <2>1, <2>2, <1>2 DEF Overtaken
<1> QED
  BY <1>1, <1>4, <1>5

\* A form that commits after a later one is overtaken from then on.
LEMMA LateIsOvertaken ==
    ASSUME log \in Seq(Forms), NEW n \in Forms, log' = Append(log, n),
           NEW m \in Committed, n < m
    PROVE  Overtaken(n)'
<1>1. PICK i \in 1 .. Len(log) : log[i] = m
  BY DEF Committed
<1>2. Len(log') = Len(log) + 1 /\ Len(log) \in Nat /\ log'[Len(log) + 1] = n /\ log'[i] = log[i]
  BY <1>1
<1>3. m \in Nat /\ n \in Nat
  BY <1>1, BroadcastAssumption DEF Forms
<1>4. i \in 1 .. Len(log') /\ Len(log) + 1 \in 1 .. Len(log') /\ i < Len(log) + 1
  BY <1>1, <1>2
<1> QED
  BY <1>1, <1>2, <1>3, <1>4 DEF Overtaken

\* Every behaviour starts with no form, no row and no run.
LEMMA InitBroadcast == BroadcastInit => BroadcastInv
<1> SUFFICES ASSUME BroadcastInit PROVE BroadcastInv
  OBVIOUS
<1>1. NoBatch \in Runs /\ NoBatch.pc = "idle" /\ NoBatch.todo = {} /\ NoBatch.done = {}
      /\ NoBatch.error = {}
  BY DEF NoBatch, Runs
<1>2. BroadcastTypeOK
  BY <1>1, BroadcastAssumption DEF BroadcastInit, BroadcastTypeOK, Runs
<1>3. Held = {} /\ Tried = {} /\ Committed = {} /\ Pending = {}
  BY <1>1, BroadcastAssumption DEF BroadcastInit, Held, Tried, Committed, Pending
<1>4. RunInv
  BY <1>1, <1>3 DEF BroadcastInit, RunInv
<1>5. TriesInv
  BY <1>3, BroadcastAssumption DEF BroadcastInit, TriesInv, RepetitionsTakeFaults
<1> QED
  BY <1>2, <1>3, <1>4, <1>5
  DEF BroadcastInit, BroadcastInv, DoneWereSent, HeldAreOldest, InOrder

-----------------------------------------------------------------------------

\* A form begins: the queue does not change.
LEMMA FormBeginKeeps == BroadcastInv /\ FormBegin => BroadcastInv'
<1> SUFFICES ASSUME BroadcastInv, FormBegin PROVE BroadcastInv'
  OBVIOUS
<1> USE DEF BroadcastInv, FormBegin, tgVars
<1>1. Committed' = Committed /\ Pending' = Pending /\ Held' = Held /\ Tried' = Tried
      /\ (\A n : Overtaken(n)' <=> Overtaken(n))
  BY DEF Committed, Pending, Held, Tried, Overtaken
<1>2. BroadcastTypeOK'
  BY BroadcastAssumption DEF BroadcastTypeOK
<1>3. RunInv'
  <2>1. 1 .. begun \subseteq 1 .. begun'
    BY BroadcastAssumption DEF BroadcastTypeOK
  <2> QED
    BY <1>1, <2>1 DEF RunInv
<1>4. DoneWereSent' /\ TriesInv' /\ HeldAreOldest' /\ InOrder'
  BY <1>1 DEF DoneWereSent, TriesInv, RepetitionsTakeFaults, HeldAreOldest, InOrder
<1> QED
  BY <1>2, <1>3, <1>4

\* A form commits: its rows are new, and where a row of a later form was there
\* before, the form is overtaken.
LEMMA FormCommitKeeps ==
    ASSUME NEW n \in Forms, NEW targets \in SUBSET Recipients
    PROVE  BroadcastInv /\ FormCommit(n, targets) => BroadcastInv'
<1> SUFFICES ASSUME BroadcastInv, FormCommit(n, targets) PROVE BroadcastInv'
  OBVIOUS
<1> USE DEF BroadcastInv, FormCommit, tgVars
<1>1. /\ log' \in Seq(Forms)
      /\ Committed' = Committed \cup {n}
      /\ \A f : Overtaken(f) => Overtaken(f)'
  BY LogGrows DEF BroadcastTypeOK
<1>2. ASSUME NEW m \in Committed, n < m  PROVE Overtaken(n)'
  BY <1>2, LateIsOvertaken DEF BroadcastTypeOK
<1>3. ASSUME NEW k \in Rows, FormOf(k) = n
      PROVE  command[k] = "none" /\ tries[k] = 0
  BY <1>3 DEF RunInv, TriesInv
<1>4. ASSUME NEW k \in Rows, FormOf(k) # n  PROVE command'[k] = command[k]
  BY <1>4
<1>5. ASSUME NEW k \in Rows
      PROVE  \/ command'[k] = command[k]
             \/ FormOf(k) = n /\ command[k] = "none" /\ command'[k] = "pending"
  BY <1>3
<1>6. Held' = Held /\ Tried' = Tried
  BY DEF Held, Tried
<1>7. Pending \subseteq Pending'
  BY <1>5 DEF Pending
<1>8. BroadcastTypeOK'
  BY <1>1 DEF BroadcastTypeOK
<1>9. RunInv'
  <2>1. \A k \in Rows : command'[k] # "none" => FormOf(k) \in Committed'
    BY <1>1, <1>5 DEF RunInv
  <2>2. Committed' \subseteq 1 .. begun'
    <3>1. n \in 1 .. begun
      BY BroadcastAssumption DEF Forms, BroadcastTypeOK
    <3> QED
      BY <3>1, <1>1 DEF RunInv
  <2> QED
    BY <2>1, <2>2, <1>6, <1>7 DEF RunInv
<1>10. DoneWereSent'
  BY <1>5 DEF DoneWereSent
<1>11. TriesInv'
  <2>1. \A k \in Rows : command'[k] = "none" => tries'[k] = 0
    BY <1>5 DEF TriesInv
  <2>2. \A k \in Rows : command'[k] \in {"done", "error"} => tries'[k] > 0
    BY <1>5 DEF TriesInv
  <2>3. \A k \in Pending' \ Tried' : tries'[k] <= sendFaults'
    <3> SUFFICES ASSUME NEW k \in Pending' \ Tried'  PROVE tries'[k] <= sendFaults'
      OBVIOUS
    <3>1. k \in Rows /\ command'[k] = "pending"
      BY DEF Pending
    <3>2. CASE command[k] = "pending"
      BY <3>1, <3>2, <1>6 DEF TriesInv, Pending
    <3>3. CASE command[k] # "pending"
      <4>1. tries[k] = 0
        BY <3>1, <3>3, <1>5, <1>3
      <4> QED
        BY <4>1, BroadcastAssumption DEF BroadcastTypeOK
    <3> QED
      BY <3>2, <3>3
  <2> QED
    BY <2>1, <2>2, <2>3, <1>6 DEF TriesInv, RepetitionsTakeFaults
<1>12. HeldAreOldest'
  <2> SUFFICES ASSUME NEW k \in Held', NEW j \in Pending',
                      FormOf(j) < FormOf(k), ~ Overtaken(FormOf(j))'
               PROVE  j \in Held'
    BY DEF HeldAreOldest, FormOf
  <2>1. k \in Held /\ k \in Rows /\ command[k] = "pending" /\ FormOf(k) \in Committed
    BY <1>6 DEF RunInv, Pending
  <2>2. j \in Rows /\ FormOf(j) # n
    BY <2>1, <1>2 DEF Pending
  <2>3. j \in Pending /\ ~ Overtaken(FormOf(j))
    BY <2>2, <1>4, <1>1 DEF Pending
  <2> QED
    BY <2>1, <2>3, <1>6 DEF HeldAreOldest
<1>13. InOrder'
  <2> SUFFICES ASSUME NEW j \in Rows, NEW k \in Rows,
                      UserOf(j) = UserOf(k), FormOf(j) < FormOf(k),
                      ~ Overtaken(FormOf(j))', command'[j] # "none", tries'[k] > 0
               PROVE  tries'[j] > 0
    BY DEF InOrder, FormOf, UserOf
  <2>1. command[k] # "none"
    BY DEF TriesInv, BroadcastTypeOK
  <2>2. FormOf(j) # n
    BY <2>1, <1>2 DEF RunInv
  <2>3. command[j] # "none" /\ ~ Overtaken(FormOf(j))
    BY <2>2, <1>4, <1>1
  <2> QED
    BY <2>3 DEF InOrder
<1> QED
  BY <1>8, <1>9, <1>10, <1>11, <1>12, <1>13

\* A user blocks or unblocks the bot: the queue does not change.
LEMMA ToggleBlockKeeps ==
    ASSUME NEW u \in Recipients
    PROVE  BroadcastInv /\ ToggleBlock(u) => BroadcastInv'
<1> SUFFICES ASSUME BroadcastInv, ToggleBlock(u) PROVE BroadcastInv'
  OBVIOUS
<1> USE DEF BroadcastInv, ToggleBlock
<1>1. Committed' = Committed /\ Pending' = Pending /\ Held' = Held /\ Tried' = Tried
      /\ (\A n : Overtaken(n)' <=> Overtaken(n))
  BY DEF Committed, Pending, Held, Tried, Overtaken
<1>2. BroadcastTypeOK'
  BY BroadcastAssumption DEF BroadcastTypeOK
<1>3. RunInv' /\ DoneWereSent' /\ TriesInv' /\ HeldAreOldest' /\ InOrder'
  BY <1>1 DEF RunInv, DoneWereSent, TriesInv, RepetitionsTakeFaults, HeldAreOldest, InOrder
<1> QED
  BY <1>2, <1>3

-----------------------------------------------------------------------------

\* A run takes the oldest pending rows, none of them tried yet.
LEMMA StartKeeps == BroadcastInv /\ Start => BroadcastInv'
<1> SUFFICES ASSUME BroadcastInv, Start PROVE BroadcastInv'
  OBVIOUS
<1> USE DEF BroadcastInv, Start, tgVars
<1>1. PICK T \in Oldest(Pending) : sendRun' = [NoBatch EXCEPT !.pc = "send", !.todo = T]
  OBVIOUS
<1>2. T \subseteq Pending /\ \A k \in T, j \in Pending \ T : FormOf(k) <= FormOf(j)
  BY DEF Oldest
<1>3. /\ sendRun' \in Runs
      /\ sendRun'.pc = "send" /\ sendRun'.todo = T /\ sendRun'.done = {} /\ sendRun'.error = {}
  BY <1>1, <1>2 DEF NoBatch, Runs, Pending
<1>4. Held' = T /\ Tried' = {}
  BY <1>3 DEF Held, Tried
<1>5. Committed' = Committed /\ Pending' = Pending /\ (\A n : Overtaken(n)' <=> Overtaken(n))
  BY DEF Committed, Pending, Overtaken
<1>6. Tried = {}
  BY DEF RunInv, Tried, NoBatch
<1>7. BroadcastTypeOK'
  BY <1>3 DEF BroadcastTypeOK, Runs
<1>8. RunInv'
  BY <1>2, <1>3, <1>4, <1>5 DEF RunInv
<1>9. DoneWereSent' /\ TriesInv' /\ InOrder'
  BY <1>4, <1>5, <1>6 DEF DoneWereSent, TriesInv, RepetitionsTakeFaults, InOrder
<1>10. HeldAreOldest'
  <2> SUFFICES ASSUME NEW k \in T, NEW j \in Pending, FormOf(j) < FormOf(k)
               PROVE  j \in T
    BY <1>4, <1>5 DEF HeldAreOldest, FormOf
  <2>1. j \in Rows /\ k \in Rows
    BY <1>2 DEF Pending
  <2> QED
    BY <1>2, <2>1, RowParts
<1> QED
  BY <1>7, <1>8, <1>9, <1>10

\* The next row is tried; the older ones its user was to be sent were tried.
LEMMA SendKeeps ==
    ASSUME NEW k \in Rows
    PROVE  BroadcastInv /\ Send(k) => BroadcastInv'
<1> SUFFICES ASSUME BroadcastInv, Send(k) PROVE BroadcastInv'
  OBVIOUS
<1> USE DEF BroadcastInv
<1>1. /\ sendRun.pc = "send" /\ k \in sendRun.todo
      /\ \A j \in sendRun.todo : FormOf(k) <= FormOf(j)
      /\ tries' = [tries EXCEPT ![k] = @ + 1]
      /\ begun' = begun /\ log' = log /\ command' = command /\ blocked' = blocked /\ acts' = acts
  BY DEF Send
<1>2. \/ sendRun' = [sendRun EXCEPT !.todo = @ \ {k}, !.done = @ \cup {k}]
         /\ sent' = [sent EXCEPT ![k] = @ + 1] /\ sendFaults' = sendFaults
      \/ sendRun' = [sendRun EXCEPT !.todo = @ \ {k}, !.error = @ \cup {k}]
         /\ sent' \in {sent, [sent EXCEPT ![k] = @ + 1]}
         /\ (sendFaults' = sendFaults \/ SendFault)
  BY DEF Send, Done, Failed
<1>3. sendRun \in Runs /\ sent \in [Rows -> Nat] /\ tries \in [Rows -> Nat]
      /\ sendFaults \in Nat
  BY BroadcastAssumption DEF BroadcastTypeOK, Runs
<1>4. /\ sendRun' \in Runs /\ sendRun'.pc = "send"
      /\ sendRun'.todo = sendRun.todo \ {k}
      /\ \/ sendRun'.done = sendRun.done \cup {k} /\ sendRun'.error = sendRun.error
            /\ sent' = [sent EXCEPT ![k] = @ + 1]
         \/ sendRun'.done = sendRun.done /\ sendRun'.error = sendRun.error \cup {k}
  <2>1. CASE /\ sendRun' = [sendRun EXCEPT !.todo = @ \ {k}, !.done = @ \cup {k}]
             /\ sent' = [sent EXCEPT ![k] = @ + 1]
    BY <2>1, <1>1, <1>3 DEF Runs
  <2>2. CASE sendRun' = [sendRun EXCEPT !.todo = @ \ {k}, !.error = @ \cup {k}]
    BY <2>2, <1>1, <1>3 DEF Runs
  <2> QED
    BY <2>1, <2>2, <1>2
<1>5. Held' = Held /\ Tried' = Tried \cup {k}
  BY <1>1, <1>4 DEF Held, Tried
<1>6. Committed' = Committed /\ Pending' = Pending /\ (\A n : Overtaken(n)' <=> Overtaken(n))
  BY <1>1 DEF Committed, Pending, Overtaken
<1>7. /\ tries' \in [Rows -> Nat] /\ tries'[k] = tries[k] + 1
      /\ \A j \in Rows : j # k => tries'[j] = tries[j]
  BY <1>1, <1>3
<1>8. /\ sent' \in [Rows -> Nat] /\ sent'[k] \in {sent[k], sent[k] + 1}
      /\ \A j \in Rows : j # k => sent'[j] = sent[j]
  BY <1>2, <1>3
<1>9. sendFaults' \in 0 .. MaxSendFaults /\ sendFaults' >= sendFaults
  BY <1>2, BroadcastAssumption DEF BroadcastTypeOK, SendFault
<1>10. BroadcastTypeOK'
  BY <1>1, <1>4, <1>7, <1>8, <1>9 DEF BroadcastTypeOK, Runs
<1>11. k \in Pending /\ k \notin Tried
  BY <1>1 DEF RunInv, Held
<1>12. RunInv'
  <2>1. sendRun'.todo \cap Tried' = {} /\ sendRun'.done \cap sendRun'.error = {}
    BY <1>4, <1>5, <1>11 DEF RunInv, Tried
  <2>2. \A j \in sendRun'.done : sent'[j] > 0
    <3> SUFFICES ASSUME NEW j \in sendRun'.done  PROVE sent'[j] > 0
      OBVIOUS
    <3>1. CASE j = k
      <4>1. k \notin sendRun.done
        BY <1>11 DEF Tried
      <4> QED
        BY <3>1, <4>1, <1>4, <1>3
    <3>2. CASE j # k
      <4>1. j \in sendRun.done /\ j \in Rows
        BY <3>2, <1>4, <1>3 DEF Runs
      <4> QED
        BY <3>2, <4>1, <1>8 DEF RunInv
    <3> QED
      BY <3>1, <3>2
  <2>3. \A j \in Rows : sent'[j] <= tries'[j]
    <3> SUFFICES ASSUME NEW j \in Rows  PROVE sent'[j] <= tries'[j]
      OBVIOUS
    <3>1. sent[j] <= tries[j] /\ sent[j] \in Nat /\ tries[j] \in Nat
      BY <1>3 DEF RunInv
    <3>2. CASE j = k
      BY <3>1, <3>2, <1>7, <1>8
    <3>3. CASE j # k
      BY <3>1, <3>3, <1>7, <1>8
    <3> QED
      BY <3>2, <3>3
  <2>4. \A j \in Rows : command'[j] # "none" => FormOf(j) \in Committed'
    BY <1>1, <1>6 DEF RunInv
  <2>5. Committed' \subseteq 1 .. begun' /\ Held' \subseteq Pending'
    BY <1>1, <1>5, <1>6 DEF RunInv
  <2> QED
    BY <2>1, <2>2, <2>3, <2>4, <2>5, <1>4 DEF RunInv
<1>13. DoneWereSent'
  <2> SUFFICES ASSUME NEW j \in Rows, command'[j] = "done"  PROVE sent'[j] > 0
    BY DEF DoneWereSent
  <2>1. j # k
    BY <1>1, <1>11 DEF Pending
  <2> QED
    BY <2>1, <1>1, <1>8 DEF DoneWereSent
<1>14. TriesInv'
  <2>1. \A j \in Rows : command'[j] = "none" => tries'[j] = 0
    BY <1>1, <1>7, <1>11 DEF TriesInv, Pending
  <2>2. \A j \in Rows : tries'[j] >= tries[j]
    BY <1>3, <1>7
  <2>3. \A j \in Rows : tries[j] \in Nat /\ tries'[j] \in Nat
    BY <1>3, <1>7
  <2>4. \A j \in Rows : command'[j] \in {"done", "error"} => tries'[j] > 0
    BY <1>1, <2>2, <2>3 DEF TriesInv
  <2>5. \A j \in Tried' : tries'[j] > 0
    <3> SUFFICES ASSUME NEW j \in Tried'  PROVE tries'[j] > 0
      OBVIOUS
    <3>1. CASE j = k
      BY <3>1, <1>3, <1>7
    <3>2. CASE j # k
      <4>1. j \in Tried /\ j \in Rows
        BY <3>2, <1>5, <1>3 DEF Tried, Runs
      <4> QED
        BY <4>1, <2>2, <2>3 DEF TriesInv
    <3> QED
      BY <3>1, <3>2
  <2>6. \A j \in Pending' \ Tried' : tries'[j] <= sendFaults'
    <3> SUFFICES ASSUME NEW j \in Pending' \ Tried'  PROVE tries'[j] <= sendFaults'
      OBVIOUS
    <3>1. j \in Pending \ Tried /\ j # k /\ j \in Rows
      BY <1>5, <1>6 DEF Pending
    <3>2. tries[j] <= sendFaults /\ tries'[j] = tries[j] /\ tries[j] \in Nat
      BY <3>1, <1>7, <2>3 DEF TriesInv
    <3>3. sendFaults' \in Nat
      BY <1>9, BroadcastAssumption
    <3> QED
      BY <3>2, <3>3, <1>3, <1>9
  <2>7. RepetitionsTakeFaults'
    <3> SUFFICES ASSUME NEW j \in Rows  PROVE tries'[j] <= 1 + sendFaults'
      BY DEF RepetitionsTakeFaults
    <3>1. sendFaults' \in Nat
      BY <1>9, BroadcastAssumption
    <3>2. CASE j = k
      <4>1. tries[k] <= sendFaults
        BY <1>11 DEF TriesInv
      <4> QED
        BY <3>1, <3>2, <4>1, <1>3, <1>7, <1>9
    <3>3. CASE j # k
      <4>1. tries'[j] = tries[j] /\ tries[j] <= 1 + sendFaults /\ tries[j] \in Nat
        BY <3>3, <1>7, <2>3 DEF TriesInv, RepetitionsTakeFaults
      <4> QED
        BY <3>1, <4>1, <1>3, <1>9
    <3> QED
      BY <3>2, <3>3
  <2> QED
    BY <2>1, <2>4, <2>5, <2>6, <2>7 DEF TriesInv
<1>15. HeldAreOldest'
  BY <1>5, <1>6 DEF HeldAreOldest
<1>16. InOrder'
  <2> SUFFICES ASSUME NEW j \in Rows, NEW i \in Rows,
                      UserOf(j) = UserOf(i), FormOf(j) < FormOf(i),
                      ~ Overtaken(FormOf(j)), command[j] # "none", tries'[i] > 0
               PROVE  tries'[j] > 0
    BY <1>1, <1>6 DEF InOrder, FormOf, UserOf
  <2>1. tries'[j] >= tries[j] /\ tries[j] \in Nat /\ tries'[j] \in Nat
    BY <1>3, <1>7
  <2>2. CASE i # k
    <3>1. tries[i] > 0
      BY <2>2, <1>7
    <3>2. tries[j] > 0
      BY <3>1 DEF InOrder
    <3> QED
      BY <2>1, <3>2
  <2>3. CASE i = k
    <3>1. CASE command[j] = "pending"
      <4>1. j \in Held
        BY <3>1, <2>3, <1>1 DEF HeldAreOldest, Held, Pending
      <4>2. j \notin sendRun.todo
        BY <2>3, <1>1, RowParts
      <4>3. tries[j] > 0
        BY <4>1, <4>2 DEF Held, TriesInv
      <4> QED
        BY <2>1, <4>3
    <3>2. CASE command[j] # "pending"
      <4>1. command[j] \in {"done", "error"}
        BY <3>2 DEF BroadcastTypeOK
      <4>2. tries[j] > 0
        BY <4>1 DEF TriesInv
      <4> QED
        BY <2>1, <4>2
    <3> QED
      BY <3>1, <3>2
  <2> QED
    BY <2>2, <2>3
<1> QED
  BY <1>10, <1>12, <1>13, <1>14, <1>15, <1>16

\* A run ends without an outcome stored: a fault pays for the tries it made.
LEMMA LostRunKeeps ==
    ASSUME BroadcastInv, SendFault, sendRun' = NoBatch,
           UNCHANGED <<begun, log, command, tgVars>>
    PROVE  BroadcastInv'
<1> USE DEF BroadcastInv, tgVars
<1>1. NoBatch \in Runs /\ NoBatch.pc = "idle" /\ NoBatch.todo = {} /\ NoBatch.done = {}
      /\ NoBatch.error = {}
  BY DEF NoBatch, Runs
<1>2. Held' = {} /\ Tried' = {}
  BY <1>1 DEF Held, Tried
<1>3. Committed' = Committed /\ Pending' = Pending /\ (\A n : Overtaken(n)' <=> Overtaken(n))
  BY DEF Committed, Pending, Overtaken
<1>4. sendFaults \in Nat /\ sendFaults' = sendFaults + 1 /\ sendFaults' \in 0 .. MaxSendFaults
  BY BroadcastAssumption DEF BroadcastTypeOK, SendFault
<1>5. BroadcastTypeOK'
  BY <1>1, <1>4 DEF BroadcastTypeOK, Runs
<1>6. RunInv'
  BY <1>1, <1>2, <1>3 DEF RunInv
<1>7. TriesInv'
  <2>1. \A k \in Rows : tries[k] \in Nat /\ tries[k] <= sendFaults'
    BY <1>4 DEF TriesInv, RepetitionsTakeFaults, BroadcastTypeOK
  <2>2. Pending' \subseteq Rows
    BY <1>3 DEF Pending
  <2> QED
    BY <1>2, <1>4, <2>1, <2>2 DEF TriesInv, RepetitionsTakeFaults
<1>8. DoneWereSent' /\ HeldAreOldest' /\ InOrder'
  BY <1>2, <1>3 DEF DoneWereSent, HeldAreOldest, InOrder
<1> QED
  BY <1>5, <1>6, <1>7, <1>8

\* The outcomes are stored: the rows that were tried leave the queue together.
LEMMA MarkKeeps == BroadcastInv /\ Mark => BroadcastInv'
<1> SUFFICES ASSUME BroadcastInv, Mark PROVE BroadcastInv'
  OBVIOUS
<1> USE DEF BroadcastInv, tgVars
<1>1. CASE SendFault /\ UNCHANGED command
  BY <1>1, LostRunKeeps DEF Mark
<1>2. CASE /\ command' = [k \in Rows |-> IF k \in Tried THEN MarkedAs(k) ELSE command[k]]
           /\ sendFaults' = sendFaults
  <2>1. NoBatch \in Runs /\ NoBatch.pc = "idle" /\ NoBatch.todo = {} /\ NoBatch.done = {}
        /\ NoBatch.error = {}
    BY DEF NoBatch, Runs
  <2>2. Held' = {} /\ Tried' = {}
    BY <2>1 DEF Held, Tried, Mark
  <2>3. UNCHANGED <<begun, log, blocked, tries, sent, acts>> /\ sendRun' = NoBatch
    BY DEF Mark
  <2>4. Committed' = Committed /\ (\A n : Overtaken(n)' <=> Overtaken(n))
    BY <2>3 DEF Committed, Overtaken
  <2>5. ASSUME NEW k \in Rows
        PROVE  \/ command'[k] = command[k] /\ k \notin Tried
               \/ k \in Tried /\ command'[k] \in {"done", "error"}
                  /\ (command'[k] = "done" => k \in sendRun.done)
    BY <1>2 DEF MarkedAs
  <2>6. ASSUME NEW k \in Tried  PROVE k \in Rows /\ command[k] = "pending"
    BY DEF RunInv, Held, Pending
  <2>7. Pending' = Pending \ Tried
    BY <2>5 DEF Pending
  <2>8. BroadcastTypeOK'
    <3>1. command' \in [Rows -> {"none", "pending", "done", "error"}]
      BY <1>2 DEF MarkedAs, BroadcastTypeOK
    <3> QED
      BY <3>1, <2>1, <2>3, <1>2 DEF BroadcastTypeOK, Runs
  <2>9. RunInv'
    <3>1. \A k \in Rows : command'[k] # "none" => FormOf(k) \in Committed'
      BY <2>4, <2>5, <2>6 DEF RunInv
    <3> QED
      BY <3>1, <2>1, <2>2, <2>3, <2>4 DEF RunInv
  <2>10. DoneWereSent'
    BY <2>3, <2>5 DEF DoneWereSent, RunInv
  <2>11. TriesInv'
    <3>1. \A k \in Rows : command'[k] = "none" => tries'[k] = 0
      BY <2>3, <2>5 DEF TriesInv
    <3>2. \A k \in Rows : command'[k] \in {"done", "error"} => tries'[k] > 0
      BY <2>3, <2>5 DEF TriesInv
    <3> QED
      BY <3>1, <3>2, <2>2, <2>3, <2>7, <1>2 DEF TriesInv, RepetitionsTakeFaults
  <2>12. HeldAreOldest'
    BY <2>2 DEF HeldAreOldest
  <2>13. InOrder'
    <3> SUFFICES ASSUME NEW j \in Rows, NEW k \in Rows,
                        UserOf(j) = UserOf(k), FormOf(j) < FormOf(k),
                        ~ Overtaken(FormOf(j)), command'[j] # "none", tries[k] > 0
                 PROVE  tries[j] > 0
      BY <2>3, <2>4 DEF InOrder, FormOf, UserOf
    <3>1. command[j] # "none"
      BY <2>5, <2>6
    <3> QED
      BY <3>1 DEF InOrder
  <2> QED
    BY <2>8, <2>9, <2>10, <2>11, <2>12, <2>13
<1> QED
  BY <1>1, <1>2 DEF Mark, Tried

-----------------------------------------------------------------------------

\* The invariant of the queue, types included: in particular a run holds only
\* pending rows, the oldest ones, and what it will mark done was shown.
THEOREM BroadcastInvariant == BroadcastSpec => []BroadcastInv
<1>1. BroadcastInv /\ [BroadcastNext]_sendVars => BroadcastInv'
  <2> SUFFICES ASSUME BroadcastInv, [BroadcastNext]_sendVars PROVE BroadcastInv'
    OBVIOUS
  <2>1. CASE FormBegin
    BY <2>1, FormBeginKeeps
  <2>2. CASE \E n \in Forms, targets \in SUBSET Recipients : FormCommit(n, targets)
    BY <2>2, FormCommitKeeps
  <2>3. CASE \E u \in Recipients : ToggleBlock(u)
    BY <2>3, ToggleBlockKeeps
  <2>4. CASE Start
    BY <2>4, StartKeeps
  <2>5. CASE \E k \in Rows : Send(k)
    BY <2>5, SendKeeps
  <2>6. CASE Mark
    BY <2>6, MarkKeeps
  <2>7. CASE SendCrash
    BY <2>7, LostRunKeeps DEF SendCrash
  <2>8. CASE UNCHANGED sendVars
    <3>1. Committed' = Committed /\ Pending' = Pending /\ Held' = Held /\ Tried' = Tried
          /\ (\A n : Overtaken(n)' <=> Overtaken(n))
      BY <2>8 DEF sendVars, tgVars, Committed, Pending, Held, Tried, Overtaken
    <3>2. BroadcastTypeOK' /\ RunInv'
      BY <2>8, <3>1 DEF sendVars, tgVars, BroadcastInv, BroadcastTypeOK, RunInv
    <3>3. DoneWereSent' /\ TriesInv' /\ HeldAreOldest' /\ InOrder'
      BY <2>8, <3>1 DEF sendVars, tgVars, BroadcastInv, DoneWereSent, TriesInv,
         RepetitionsTakeFaults, HeldAreOldest, InOrder
    <3> QED
      BY <3>2, <3>3 DEF BroadcastInv
  <2> QED
    BY <2>1, <2>2, <2>3, <2>4, <2>5, <2>6, <2>7, <2>8 DEF BroadcastNext, SendStep
<1> QED
  BY InitBroadcast, <1>1, PTL DEF BroadcastSpec

\* A message is tried at most once, and once more for each crash, lost answer or
\* failed commit: broadcast_job marks a batch only after it was sent.
THEOREM RepetitionsArePaid == BroadcastSpec => []RepetitionsTakeFaults
<1>1. BroadcastInv => RepetitionsTakeFaults
  BY DEF BroadcastInv, TriesInv
<1> QED
  BY BroadcastInvariant, <1>1, PTL

\* The messages of several forms reach a user in the order of the forms, however
\* the limit cuts the batches, unless a form's own commit was overtaken.
THEOREM MessagesKeepOrder == BroadcastSpec => []InOrder
<1>1. BroadcastInv => InOrder
  BY DEF BroadcastInv
<1> QED
  BY BroadcastInvariant, <1>1, PTL
=============================================================================
