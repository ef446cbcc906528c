----------------------------- MODULE Settlement -----------------------------
(***************************************************************************)
(* The settlement job (bot/jobs.py): it resolves the markets of the open   *)
(* bets outside any transaction, books every bet whose market has settled  *)
(* in one transaction, and notifies the bettors after the commit.  Bets    *)
(* are placed, and markets settle, while it runs; the process may die      *)
(* between any two steps.  The scheduler runs one instance at a time.      *)
(***************************************************************************)
EXTENDS Integers, Sequences, FiniteSets

CONSTANTS
    Users,
    Bets,
    Owner,          \* bettor of each bet
    Markets,
    MarketOf,       \* market of each bet
    Token,          \* outcome tokens; a bet backs one of them
    TokenOf,
    Void,           \* a settled market without a single winner
    Unsettled,
    BatchMarkets,   \* market_ids[:100]
    BatchBets,      \* open_bets(limit=500)
    MaxFaults       \* bound: crashes, failed fetches and malformed bookings

ASSUME BetsAssumption == /\ IsFiniteSet(Bets)
                         /\ Owner \in [Bets -> Users]
                         /\ MarketOf \in [Bets -> Markets]
                         /\ TokenOf \in [Bets -> Token]
ASSUME OutcomesAssumption == Void # Unsettled /\ {Void, Unsettled} \cap Token = {}
ASSUME BoundsAssumption == BatchMarkets \in Nat /\ BatchBets \in Nat /\ MaxFaults \in Nat

Outcomes == Token \cup {Void, Unsettled}

VARIABLES
    outcome,        \* what the market data says of each market
    placed,         \* bets rows in order of created_at
    status,         \* bets.status
    wins, losses,   \* user_stats of each user
    bonus,          \* "win" rows of points_ledger, per bet
    notified,       \* messages sent, per bet: the status they report
    job,            \* the running instance of the job
    faults

betVars == <<status, wins, losses, bonus>>
vars == <<outcome, placed, betVars, notified, job, faults>>

Idle == [pc |-> "idle", todo |-> {}, res |-> [m \in Markets |-> Unsettled], notes |-> {}]
Final == {"WON", "LOST", "VOID"}
IsPlaced(b) == \E k \in DOMAIN placed : placed[k] = b
Open == {b \in Bets : IsPlaced(b) /\ status[b] = "OPEN"}

TypeOK ==
    /\ outcome \in [Markets -> Outcomes]
    /\ placed \in Seq(Bets)
    /\ status \in [Bets -> {"OPEN"} \cup Final]
    /\ wins \in [Users -> Nat] /\ losses \in [Users -> Nat]
    /\ bonus \in [Bets -> Nat]
    /\ notified \in [Bets -> Seq(Final)]
    /\ job \in [pc : {"idle", "resolve", "notify"}, todo : SUBSET Markets,
                res : [Markets -> Outcomes], notes : SUBSET Bets]
    /\ faults \in 0 .. MaxFaults

Init ==
    /\ outcome = [m \in Markets |-> Unsettled]
    /\ placed = <<>>
    /\ status = [b \in Bets |-> "OPEN"]
    /\ wins = [u \in Users |-> 0]
    /\ losses = [u \in Users |-> 0]
    /\ bonus = [b \in Bets |-> 0]
    /\ notified = [b \in Bets |-> <<>>]
    /\ job = Idle
    /\ faults = 0

Fault == faults < MaxFaults /\ faults' = faults + 1

\* create_bet, from either surface.  The market may have settled meanwhile.
PlaceBet(b) ==
    /\ ~ IsPlaced(b)
    /\ placed' = Append(placed, b)
    /\ UNCHANGED <<outcome, betVars, notified, job, faults>>

\* The market closes and its resolution is final.
SettleMarket(m, o) ==
    /\ outcome[m] = Unsettled
    /\ outcome' = [outcome EXCEPT ![m] = o]
    /\ UNCHANGED <<placed, betVars, notified, job, faults>>

\* Session 1: the distinct markets of open bets, in no order, cut to the first
\* BatchMarkets.
StartRun ==
    LET ids == {MarketOf[b] : b \in Open} IN
    /\ job.pc = "idle"
    /\ ids # {}
    /\ \E todo \in SUBSET ids :
         /\ IF Cardinality(ids) <= BatchMarkets THEN todo = ids
            ELSE Cardinality(todo) = BatchMarkets
         /\ job' = [Idle EXCEPT !.pc = "resolve", !.todo = todo]
    /\ UNCHANGED <<outcome, placed, betVars, notified, faults>>

\* market_resolution of the next market; a failure reads as not yet resolved.
Resolve(m) ==
    /\ job.pc = "resolve"
    /\ m \in job.todo
    /\ \/ job' = [job EXCEPT !.todo = @ \ {m}, !.res[m] = outcome[m]] /\ UNCHANGED faults
       \/ job' = [job EXCEPT !.todo = @ \ {m}] /\ Fault
    /\ UNCHANGED <<outcome, placed, betVars, notified>>

\* Mutant: every bet of the table, not only the open ones.
OpenBetsMutant == {placed[k] : k \in {i \in DOMAIN placed : i <= BatchBets}}

\* open_bets: the oldest BatchBets bets that are still open.
OpenBets ==
    LET isOpen(k) == status[placed[k]] = "OPEN" IN
    {placed[k] : k \in {i \in DOMAIN placed :
        isOpen(i) /\ Cardinality({j \in 1 .. i - 1 : isOpen(j)}) < BatchBets}}

\* Mutant: a settled market without a winner is booked as a loss.
ResultMutant(b, o) == IF o = TokenOf[b] THEN "WON" ELSE "LOST"

\* settle_bet_values
Result(b, o) == IF o = Void THEN "VOID" ELSE IF o = TokenOf[b] THEN "WON" ELSE "LOST"

\* Mutant: a market without a winner counts as not resolved yet.
ResolvedMutant(o) == o \notin {Unsettled, Void}

\* The job's "continue" for a market that has not settled.
Resolved(o) == o # Unsettled

\* Mutant: the bettors of a failed booking are notified with the others.
ToNotifyMutant(settled, failed) == settled \cup failed

ToNotify(settled, failed) == settled

\* Session 2, one transaction: each open bet of a resolved market is booked in
\* a savepoint of its own; a malformed one (\in failed) is left OPEN.
SettleBatch ==
    /\ job.pc = "resolve"
    /\ job.todo = {}
    /\ LET due == {b \in OpenBets : Resolved(job.res[MarketOf[b]])}
           result(b) == Result(b, job.res[MarketOf[b]]) IN
       \E failed \in SUBSET due :
         LET settled == due \ failed
             count(u, r) == Cardinality({b \in settled : Owner[b] = u /\ result(b) = r}) IN
         /\ IF failed = {} THEN UNCHANGED faults ELSE Fault
         /\ status' = [b \in Bets |-> IF b \in settled THEN result(b) ELSE status[b]]
         /\ wins' = [u \in Users |-> wins[u] + count(u, "WON")]
         /\ losses' = [u \in Users |-> losses[u] + count(u, "LOST")]
         /\ bonus' = [b \in Bets |-> IF b \in settled /\ result(b) = "WON"
                                     THEN bonus[b] + 1 ELSE bonus[b]]
         /\ job' = [job EXCEPT !.pc = "notify", !.notes = ToNotify(settled, failed)]
    /\ UNCHANGED <<outcome, placed, notified>>

\* After the commit: one message per settled bet; a Telegram error skips it.
\* A run with nothing left to send ends.
Notify(b) ==
    /\ job.pc = "notify"
    /\ b \in job.notes
    /\ \/ /\ notified' = [notified EXCEPT ![b] = Append(@, Result(b, job.res[MarketOf[b]]))]
          /\ UNCHANGED faults
       \/ UNCHANGED notified /\ Fault
    /\ job' = [job EXCEPT !.notes = @ \ {b}]
    /\ UNCHANGED <<outcome, placed, betVars>>

EndRun ==
    /\ job.pc = "notify"
    /\ job.notes = {}
    /\ job' = Idle
    /\ UNCHANGED <<outcome, placed, betVars, notified, faults>>

\* The bot dies: an open transaction is rolled back, messages are lost.
Crash ==
    /\ job.pc # "idle"
    /\ Fault
    /\ job' = Idle
    /\ UNCHANGED <<outcome, placed, betVars, notified>>

JobStep == StartRun \/ (\E m \in Markets : Resolve(m)) \/ SettleBatch
           \/ (\E b \in Bets : Notify(b)) \/ EndRun

Next ==
    \/ \E b \in Bets : PlaceBet(b)
    \/ \E m \in Markets, o \in Token \cup {Void} : SettleMarket(m, o)
    \/ JobStep
    \/ Crash

Spec == Init /\ [][Next]_vars

\* The scheduler starts the job again and again, and a run goes on; nothing
\* makes anyone bet or a market settle.
FairSpec == Spec /\ WF_vars(JobStep)

----------------------------------------------------------------------------
(* Properties.                                                             *)

\* What a run has read of a market stays true, and the bettors it still has to
\* notify are those of bets it booked and told nobody of.
JobInv ==
    /\ \A m \in Markets : job.res[m] # Unsettled => outcome[m] = job.res[m]
    /\ job.pc # "notify" => job.notes = {}
    /\ \A b \in job.notes : /\ status[b] # "OPEN" /\ notified[b] = <<>>
                            /\ status[b] = Result(b, job.res[MarketOf[b]])
    /\ \A b \in Bets : status[b] = "OPEN" => notified[b] = <<>>
SettleInv == TypeOK /\ JobInv

\* A bet is WON, LOST or VOID only as its settled market says, and then for
\* good: later runs, failed bookings and crashes never book it again
\* ("Idempotent: only OPEN bets are processed").
BookedAsSettled ==
    \A b \in Bets :
        LET o == outcome[MarketOf[b]] IN
        /\ status[b] = "WON" => o = TokenOf[b]
        /\ status[b] = "LOST" => o \in Token \ {TokenOf[b]}
        /\ status[b] = "VOID" => o = Void
        /\ status[b] # "OPEN" => IsPlaced(b)

\* The lifetime counters and the win bonuses equal the bets booked: none is
\* counted twice, none is booked without being counted.
CountersMatchBets ==
    /\ \A u \in Users :
         /\ wins[u] = Cardinality({b \in Bets : Owner[b] = u /\ status[b] = "WON"})
         /\ losses[u] = Cardinality({b \in Bets : Owner[b] = u /\ status[b] = "LOST"})
    /\ \A b \in Bets : bonus[b] = IF status[b] = "WON" THEN 1 ELSE 0

\* A bettor is told of a bet at most once, and only what was committed.
NotifiedOnceTruly ==
    \A b \in Bets : Len(notified[b]) <= 1 /\ (notified[b] # <<>> => notified[b] = <<status[b]>>)

\* "Resolve open bets whose markets have settled" (jobs.py): a bet on a
\* settled market is booked sooner or later, once the faults stop.
SettledMarketsPayOut ==
    \A b \in Bets : (IsPlaced(b) /\ outcome[MarketOf[b]] # Unsettled) ~> status[b] # "OPEN"
=============================================================================
