----------------------------- MODULE Broadcast ------------------------------
(***************************************************************************)
(* The broadcast queue: the dashboard's form writes one command per        *)
(* recipient, broadcast_job of the bot (bot/jobs.py) takes the oldest      *)
(* pending ones, sends them outside any transaction and stores all the     *)
(* outcomes together afterwards.  The queue is the commands table, shared  *)
(* by two processes.                                                       *)
(***************************************************************************)
EXTENDS Integers, Sequences, FiniteSets

CONSTANTS
    Recipients,
    MaxForms,       \* bound: forms, numbered as their transactions begin
    Batch,          \* pending(limit=25)
    MaxActs,        \* bound: users blocking and unblocking the bot
    MaxSendFaults   \* bound: crashes, lost or refused sends, failed commits

ASSUME BroadcastAssumption ==
    /\ Batch \in Nat \ {0} /\ {MaxForms, MaxActs, MaxSendFaults} \subseteq Nat
    /\ IsFiniteSet(Recipients)

Forms == 1 .. MaxForms
Rows == Forms \X Recipients \* a command: the form (its requested_at) and user_id
FormOf(k) == k[1]
UserOf(k) == k[2]

VARIABLES
    begun,          \* forms 1 .. begun have begun their transactions
    log,            \* the forms in the order of their commits
    command,        \* commands.status
    blocked,        \* Telegram: users who blocked the bot
    tries, sent,    \* Telegram: requests for each command, and messages shown
    sendRun,        \* the run of broadcast_job
    acts, sendFaults

tgVars == <<blocked, tries, sent, acts>>
sendVars == <<begun, log, command, tgVars, sendRun, sendFaults>>

NoBatch == [pc |-> "idle", todo |-> {}, done |-> {}, error |-> {}]

BroadcastTypeOK ==
    /\ begun \in 0 .. MaxForms
    /\ log \in Seq(Forms)
    /\ command \in [Rows -> {"none", "pending", "done", "error"}]
    /\ blocked \subseteq Recipients
    /\ tries \in [Rows -> Nat] /\ sent \in [Rows -> Nat]
    /\ sendRun \in [pc : {"idle", "send"}, todo : SUBSET Rows, done : SUBSET Rows, error : SUBSET Rows]
    /\ acts \in 0 .. MaxActs /\ sendFaults \in 0 .. MaxSendFaults

BroadcastInit ==
    /\ begun = 0 /\ log = <<>>
    /\ command = [k \in Rows |-> "none"]
    /\ blocked = {} /\ tries = [k \in Rows |-> 0] /\ sent = [k \in Rows |-> 0]
    /\ sendRun = NoBatch
    /\ acts = 0 /\ sendFaults = 0

SendFault == sendFaults < MaxSendFaults /\ sendFaults' = sendFaults + 1
Committed == {log[i] : i \in 1 .. Len(log)}

----------------------------------------------------------------------------
(* The dashboard.                                                          *)

\* requested_at is the time its transaction begins.
FormBegin ==
    /\ begun < MaxForms
    /\ begun' = begun + 1
    /\ UNCHANGED <<log, command, tgVars, sendRun, sendFaults>>

\* One pending row for every user who matches the filters, in one transaction.
FormCommit(n, targets) ==
    /\ n <= begun /\ n \notin Committed
    /\ log' = Append(log, n)
    /\ command' = [k \in Rows |-> IF FormOf(k) = n /\ UserOf(k) \in targets THEN "pending"
                                 ELSE command[k]]
    /\ UNCHANGED <<begun, tgVars, sendRun, sendFaults>>

\* A user blocks or unblocks the bot.
ToggleBlock(u) ==
    /\ acts < MaxActs /\ acts' = acts + 1
    /\ blocked' = IF u \in blocked THEN blocked \ {u} ELSE blocked \cup {u}
    /\ UNCHANGED <<begun, log, command, tries, sent, sendRun, sendFaults>>

----------------------------------------------------------------------------
(* broadcast_job.                                                          *)

\* Mutant: a failed command is taken up again.
PendingMutant == {k \in Rows : command[k] \in {"pending", "error"}}

Pending == {k \in Rows : command[k] = "pending"}

\* Mutant: no order_by.
OldestMutant(S) == {T \in SUBSET S : Cardinality(T) = Batch} \cup {T \in {S} : Cardinality(T) <= Batch}

\* Mutant: only full batches.
FullMutant(S) ==
    {T \in SUBSET S : /\ Cardinality(T) = Batch
                      /\ \A k \in T, j \in S \ T : FormOf(k) <= FormOf(j)}

\* order_by(requested_at).limit(n): the rows of one form are in no order.
Oldest(S) ==
    {T \in SUBSET S : /\ Cardinality(T) = IF Cardinality(S) < Batch THEN Cardinality(S) ELSE Batch
                      /\ \A k \in T, j \in S \ T : FormOf(k) <= FormOf(j)}

\* The snapshot of a sendRun.  The form makes no row with an empty message and no
\* user is deleted, so none is malformed.
Start ==
    /\ sendRun.pc = "idle"
    /\ Pending # {}
    /\ \E T \in Oldest(Pending) : sendRun' = [NoBatch EXCEPT !.pc = "send", !.todo = T]
    /\ UNCHANGED <<begun, log, command, tgVars, sendFaults>>

\* Mutant: a command that was sent stays in the sendRun.
DoneMutant(k) == sendRun' = [sendRun EXCEPT !.done = @ \cup {k}]

Done(k) == sendRun' = [sendRun EXCEPT !.todo = @ \ {k}, !.done = @ \cup {k}]

Failed(k) == sendRun' = [sendRun EXCEPT !.todo = @ \ {k}, !.error = @ \cup {k}]

\* The next one of the batch: Forbidden for a blocked bot; shown; or an error
\* (flood control, a timeout), after a lost answer although it is shown.
Send(k) ==
    LET shown == sent' = [sent EXCEPT ![k] = @ + 1] IN
    /\ sendRun.pc = "send"
    /\ k \in sendRun.todo
    /\ \A j \in sendRun.todo : FormOf(k) <= FormOf(j)
    /\ tries' = [tries EXCEPT ![k] = @ + 1]
    /\ \/ UserOf(k) \in blocked /\ Failed(k) /\ UNCHANGED <<sent, sendFaults>>
       \/ UserOf(k) \notin blocked /\ shown /\ Done(k) /\ UNCHANGED sendFaults
       \/ UserOf(k) \notin blocked /\ SendFault /\ Failed(k) /\ (shown \/ UNCHANGED sent)
    /\ UNCHANGED <<begun, log, command, blocked, acts>>

\* Mutant: every row of the batch is marked done.
MarkedAsMutant(k) == "done"

MarkedAs(k) == IF k \in sendRun.done THEN "done" ELSE "error"

\* The outcomes are stored together, or lost together.
Mark ==
    /\ sendRun.pc = "send"
    /\ sendRun.todo = {}
    /\ \/ /\ command' = [k \in Rows |-> IF k \in sendRun.done \cup sendRun.error THEN MarkedAs(k)
                                       ELSE command[k]]
          /\ UNCHANGED sendFaults
       \/ SendFault /\ UNCHANGED command
    /\ sendRun' = NoBatch
    /\ UNCHANGED <<begun, log, tgVars>>

\* The bot dies and starts again.
SendCrash ==
    /\ SendFault
    /\ sendRun' = NoBatch
    /\ UNCHANGED <<begun, log, command, tgVars>>

SendStep == Start \/ (\E k \in Rows : Send(k)) \/ Mark

BroadcastNext ==
    \/ FormBegin
    \/ \E n \in Forms, targets \in SUBSET Recipients : FormCommit(n, targets)
    \/ \E u \in Recipients : ToggleBlock(u)
    \/ SendStep
    \/ SendCrash

BroadcastSpec == BroadcastInit /\ [][BroadcastNext]_sendVars

\* The job is started every 20 seconds and a run goes on.
FairBroadcast == BroadcastSpec /\ WF_sendVars(SendStep)

----------------------------------------------------------------------------
(* Properties.                                                             *)

\* The rows a run has taken up, and of them those it has tried.
Tried == sendRun.done \cup sendRun.error
Held == sendRun.todo \cup Tried

\* What a run holds was committed, is still pending, and has one outcome at most.
RunInv ==
    /\ \A k \in Rows : command[k] # "none" => FormOf(k) \in Committed
    /\ Committed \subseteq 1 .. begun
    /\ Held \subseteq Pending
    /\ sendRun.todo \cap Tried = {} /\ sendRun.done \cap sendRun.error = {}
    /\ sendRun.pc = "idle" => sendRun = NoBatch
    /\ \A k \in sendRun.done : sent[k] > 0
    /\ \A k \in Rows : sent[k] <= tries[k]

\* A command marked done was shown to its user, and none is shown again after it
\* was marked: a repetition takes a crash or a commit that failed.
DoneWereSent == \A k \in Rows : command[k] = "done" => sent[k] > 0
RepetitionsTakeFaults == \A k \in Rows : tries[k] <= 1 + sendFaults

\* A form whose commit was overtaken by a later one.
Overtaken(n) ==
    \E i, j \in 1 .. Len(log) : i < j /\ log[j] = n /\ log[i] > n

\* A user is not sent a message before an earlier one was tried, whatever the
\* batches, the failures and the restarts, unless that one was committed late.
InOrder ==
    \A j, k \in Rows :
        (/\ UserOf(j) = UserOf(k) /\ FormOf(j) < FormOf(k) /\ ~ Overtaken(FormOf(j))
         /\ command[j] # "none" /\ tries[k] > 0) => tries[j] > 0

\* What has an outcome was tried, and what awaits its try in this run was tried
\* before only in runs that a fault ended.
TriesInv ==
    /\ \A k \in Rows : command[k] = "none" => tries[k] = 0
    /\ \A k \in Rows : command[k] \in {"done", "error"} => tries[k] > 0
    /\ \A k \in Tried : tries[k] > 0
    /\ \A k \in Pending \ Tried : tries[k] <= sendFaults
    /\ RepetitionsTakeFaults

\* A run leaves out no pending row older than one it holds, but what was
\* committed late.
HeldAreOldest ==
    \A k \in Held, j \in Pending :
        FormOf(j) < FormOf(k) /\ ~ Overtaken(FormOf(j)) => j \in Held

\* The inductive invariant.
BroadcastInv == BroadcastTypeOK /\ RunInv /\ DoneWereSent /\ TriesInv /\ HeldAreOldest /\ InOrder

\* Every command comes to an end: users who blocked the bot hold up nobody.
BroadcastsEnd == \A k \in Rows : command[k] = "pending" ~> command[k] \in {"done", "error"}
=============================================================================
