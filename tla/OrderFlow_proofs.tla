-------------------------- MODULE OrderFlow_proofs --------------------------
(***************************************************************************)
(* The safety properties of OrderFlow, for every set of intents and        *)
(* requests, every number of wallets, every TTL.                           *)
(***************************************************************************)
EXTENDS OrderFlow, WellFoundedInduction, TLAPS

\* A non-empty set of account ids has an oldest one.
LEMMA OldestExists ==
    ASSUME accts \subseteq Account, accts # {}
    PROVE  OldestAccount \in accts
<1>1. accts \subseteq Nat
  BY BoundsAssumption DEF Account
<1>2. PICK a \in accts : \A b \in accts : ~ (<<b, a>> \in OpToRel(<, Nat))
  BY <1>1, NatLessThanWellFounded, WFMin, Zenon
<1>3. \A m, n \in Nat : m < n => <<m, n>> \in OpToRel(<, Nat)
  BY Zenon DEF OpToRel
<1>4. \A b \in accts : ~ (b < a)
  BY <1>1, <1>2, <1>3
<1>5. \A b \in accts : a <= b
  BY <1>1, <1>4
<1> QED
  BY <1>2, <1>5 DEF OldestAccount

\* Without an explicit id the resolution yields a connected account, or none
\* when none is connected.
LEMMA DefaultResolves ==
    ASSUME accts \subseteq Account
    PROVE  /\ DefaultAccount \in AccountOrNone
           /\ DefaultAccount # NoAccount => DefaultAccount \in accts
BY OldestExists DEF DefaultAccount, AccountOrNone

LEMMA ResolutionType ==
    ASSUME accts \subseteq Account, NEW chosen
    PROVE  ResolveAccount(chosen) \in AccountOrNone
BY DefaultResolves DEF ResolveAccount, AccountOrNone

\* Type correctness of the initial states.
LEMMA InitType == Init => TypeOK
BY BoundsAssumption, OriginsAssumption
   DEF Init, TypeOK, Time, AccountOrNone, Account, NoAccount, IntentState, Kinds, Idle,
       BotState, WebState, Answers, NoOrder, Origins

\* Every action keeps the types.
LEMMA TypeStep == TypeOK /\ [Next]_vars => TypeOK'
<1> SUFFICES ASSUME TypeOK, [Next]_vars PROVE TypeOK'
  OBVIOUS
<1> USE DEF TypeOK
<1>0. Intents \subseteq Origins /\ Requests \subseteq Origins
  BY DEF Origins
<1>1. NoAccount \in AccountOrNone /\ accts \subseteq AccountOrNone
  BY DEF AccountOrNone
<1>2. DefaultAccount \in AccountOrNone
  BY DefaultResolves
<1>3. Idle \in BotState
  BY DEF Idle, BotState, AccountOrNone, Answers
<1>4. \A pc \in {"idle", "client", "resolve", "placing", "clob", "result",
                 "order", "stats", "bet"} : [bot EXCEPT !.pc = pc] \in BotState
  BY DEF BotState
<1>6. CASE Tick
  BY <1>6, BoundsAssumption
     DEF Tick, Time, acctVars, botVars, clobVars, dbVars, userVars
<1>7. CASE Connect
  <2>1. accts' \subseteq Account /\ lastAcct' \in AccountOrNone /\ active' \in AccountOrNone
    <3>1. CASE \E a \in accts : active' = a /\ UNCHANGED <<accts, lastAcct>>
      BY <3>1, <1>1
    <3>2. CASE /\ lastAcct < MaxAccount
               /\ lastAcct' = lastAcct + 1
               /\ accts' = accts \cup {lastAcct + 1}
               /\ active' = lastAcct + 1
      <4>1. lastAcct \in Nat /\ lastAcct + 1 \in Account
        BY <3>2, BoundsAssumption DEF AccountOrNone, Account, NoAccount
      <4> QED
        BY <3>2, <4>1 DEF AccountOrNone
    <3> QED
      BY <1>7, <3>1, <3>2 DEF Connect
  <2> QED
    BY <1>7, <2>1 DEF Connect, botVars, clobVars, dbVars, userVars
<1>8. ASSUME NEW a \in Account, Disconnect(a) PROVE TypeOK'
  BY <1>8, <1>1 DEF Disconnect, botVars, clobVars, userVars, NoOrder
<1>9. ASSUME NEW i \in Intents, NEW kind \in KindsUsed, NEW chosen \in AccountOrNone,
             Request(i, kind, chosen)
      PROVE  TypeOK'
  <2>1. [kind |-> kind, ts |-> now, account_id |-> chosen] \in IntentState
    BY KindsAssumption DEF IntentState
  <2>2. [Idle EXCEPT !.pc = "client", !.i = i] \in BotState
    BY <1>1 DEF Idle, BotState, Answers
  <2>3. bot' \in BotState /\ (bot'.pc # "idle" => bot'.i \in Intents)
    BY <1>9, <2>2 DEF Request, Idle
  <2> QED
    BY <1>9, <2>1, <2>2, <2>3 DEF Request, acctVars, clobVars, dbVars, userVars
<1>10. ASSUME NEW i \in Intents, OnConfirm(i) PROVE TypeOK'
  <2>1. [Idle EXCEPT !.pc = "client", !.i = i] \in BotState
    BY <1>1 DEF Idle, BotState, Answers
  <2>2. bot' \in BotState /\ (bot'.pc # "idle" => bot'.i \in Intents)
    BY <1>10, <2>1 DEF OnConfirm, Idle
  <2>3. consent' \in [Intents -> Time \cup {-1}]
    BY <1>10 DEF OnConfirm
  <2> QED
    BY <1>10, <2>2, <2>3 DEF OnConfirm, PopIntent, acctVars, clobVars, dbVars
<1>11. ASSUME NEW i \in Intents, OnDecline(i) PROVE TypeOK'
  BY <1>11 DEF OnDecline, PopIntent, acctVars, clobVars, dbVars
<1>12. CASE ExecClient
  <2>1. ResolveAccount(intent[bot.i].account_id) \in AccountOrNone
    BY ResolutionType
  <2>2. \A a \in AccountOrNone : [bot EXCEPT !.pc = "resolve", !.client = a] \in BotState
    BY DEF BotState
  <2>3. bot' \in BotState /\ (bot'.pc # "idle" => bot'.i \in Intents)
    BY <1>12, <2>1, <2>2, <1>3 DEF ExecClient, Idle, BotState
  <2> QED
    BY <1>12, <2>3 DEF ExecClient, acctVars, clobVars, dbVars, userVars
<1>13. CASE ExecResolve
  <2> DEFINE chosen == intent[bot.i].account_id
             acct == IF chosen # NoAccount THEN chosen ELSE DefaultAccount
  <2>1. bot' = [bot EXCEPT !.pc = "placing", !.acct = acct]
    BY <1>13 DEF ExecResolve
  <2>2. acct \in AccountOrNone
    BY <1>13, <1>2 DEF ExecResolve, IntentState
  <2>3. bot' \in BotState /\ (bot'.pc # "idle" => bot'.i \in Intents)
    BY <1>13, <2>1, <2>2 DEF BotState, ExecResolve
  <2> QED
    BY <1>13, <2>3 DEF ExecResolve, acctVars, clobVars, dbVars, userVars
<1>14. CASE ExecSubmit
  <2>1. bot' \in BotState /\ (bot'.pc # "idle" => bot'.i \in Intents)
    BY <1>14, <1>3, <1>4, SMTT(30) DEF ExecSubmit, BotGoto, Idle, BotState
  <2>2. audit' \in [Origins -> SUBSET {"SUBMIT", "RESULT", "ERROR"}]
    BY <1>14, <1>0 DEF ExecSubmit
  <2> QED
    BY <1>14, <2>1, <2>2 DEF ExecSubmit, acctVars, clobVars, userVars
<1>15. CASE ExecClob
  <2>1. bot' \in BotState /\ (bot'.pc # "idle" => bot'.i \in Intents)
    BY <1>15 DEF ExecClob, BotState
  <2> QED
    BY <1>15, <2>1, <1>0 DEF ExecClob, ClobCall, BotState, acctVars, dbVars, userVars
<1>16. CASE ExecAudit
  <2>1. bot' \in BotState /\ (bot'.pc # "idle" => bot'.i \in Intents)
    BY <1>16, <1>3, <1>4, SMTT(30) DEF ExecAudit, BotGoto, Idle, BotState
  <2>2. audit' \in [Origins -> SUBSET {"SUBMIT", "RESULT", "ERROR"}]
    <3>1. audit' = audit \/ \E e \in {"RESULT", "ERROR"} :
              audit' = [audit EXCEPT ![bot.i] = @ \cup {e}]
      BY <1>16 DEF ExecAudit
    <3> QED
      BY <3>1
  <2> QED
    BY <1>16, <2>1, <2>2 DEF ExecAudit, acctVars, clobVars, userVars
<1>17. CASE ExecLogOrder
  <2>1. bot' \in BotState /\ (bot'.pc # "idle" => bot'.i \in Intents)
    BY <1>17, <1>3, <1>4, SMTT(30) DEF ExecLogOrder, BotGoto, Idle, BotState
  <2>2. orders' \in [Origins -> [status : {"none", "open", "rejected"}, acct : AccountOrNone]]
    BY <1>17, <1>1 DEF ExecLogOrder
  <2> QED
    BY <1>17, <2>1, <2>2 DEF ExecLogOrder, acctVars, clobVars, userVars
<1>18. CASE ExecRecordActivity
  BY <1>18, <1>3, <1>4, SMTT(30)
     DEF ExecRecordActivity, BotGoto, acctVars, clobVars, userVars, Idle, BotState
<1>19. CASE ExecRecordNewsBet
  BY <1>19, <1>3 DEF ExecRecordNewsBet, acctVars, clobVars, userVars, Idle
<1>20. CASE BotRestart
  BY <1>20, <1>3 DEF BotRestart, acctVars, clobVars, dbVars, userVars, Idle
<1>21. ASSUME NEW r \in Requests, PlaceBet(r) PROVE TypeOK'
  <2> DEFINE pcs == {"new", "client", "resolve", "clob", "result", "record", "done"}
  <2>0. web[r] \in WebState /\ \A pc \in pcs : [web[r] EXCEPT !.pc = pc] \in WebState
    BY SMTT(30) DEF WebState
  <2>1. CASE BetValidate(r)
    BY <2>1, <2>0 DEF BetValidate, WebGoto, acctVars, botVars, clobVars, dbVars, userVars
  <2>2. CASE BetClient(r)
    <3>0. [web[r] EXCEPT !.pc = "resolve", !.client = DefaultAccount] \in WebState
      BY <2>0, <1>2, ZenonT(30) DEF WebState
    <3>1. web' \in [Requests -> WebState]
      BY <2>2, <2>0, <3>0 DEF BetClient, WebGoto
    <3> QED
      BY <2>2, <3>1 DEF BetClient, acctVars, botVars, clobVars, dbVars, userVars
  <2>3. CASE BetResolve(r)
    <3>0. [web[r] EXCEPT !.pc = "clob", !.acct = DefaultAccount] \in WebState
      BY <2>0, <1>2, ZenonT(30) DEF WebState
    <3>1. web' \in [Requests -> WebState]
      BY <2>3, <3>0 DEF BetResolve
    <3> QED
      BY <2>3, <3>1 DEF BetResolve, acctVars, botVars, clobVars, dbVars, userVars
  <2>4. CASE BetClob(r)
    <3>0. \A ans \in Answers : [web[r] EXCEPT !.pc = "result", !.ans = ans] \in WebState
      BY <2>0, ZenonT(30) DEF WebState
    <3>1. web' \in [Requests -> WebState]
      BY <2>4, <3>0, ZenonT(30) DEF BetClob
    <3>2. web[r].client \in AccountOrNone
      BY <2>0 DEF WebState
    <3> QED
      BY <2>4, <3>1, <3>2, <1>0 DEF BetClob, ClobCall, acctVars, botVars, dbVars, userVars
  <2>5. CASE BetFailed(r)
    <3>1. web' \in [Requests -> WebState]
      BY <2>5, <2>0 DEF BetFailed, WebGoto
    <3>2. web[r].acct \in AccountOrNone
      BY <2>0 DEF WebState
    <3>3. orders' \in [Origins -> [status : {"none", "open", "rejected"}, acct : AccountOrNone]]
      BY <2>5, <3>2 DEF BetFailed
    <3> QED
      BY <2>5, <3>1, <3>3 DEF BetFailed, acctVars, botVars, clobVars, userVars
  <2>6. CASE BetFlush(r)
    BY <2>6, <2>0 DEF BetFlush, WebGoto, acctVars, botVars, clobVars, dbVars, userVars
  <2>7. CASE BetRecord(r)
    <3>1. web' \in [Requests -> WebState]
      BY <2>7, <2>0 DEF BetRecord, WebGoto
    <3>2. web[r].acct \in AccountOrNone
      BY <2>0 DEF WebState
    <3>4. /\ audit' \in [Origins -> SUBSET {"SUBMIT", "RESULT", "ERROR"}]
          /\ activity' \in [Origins -> Nat] /\ bets' \in [Origins -> Nat]
      <4>1. CASE UNCHANGED dbVars
        BY <4>1 DEF dbVars
      <4>2. CASE /\ audit' = [audit EXCEPT ![r] = @ \cup {"SUBMIT", "RESULT"}]
                 /\ activity' = [activity EXCEPT ![r] = @ + 1]
                 /\ bets' = [bets EXCEPT ![r] = @ + 1]
        <5>1. audit[r] \cup {"SUBMIT", "RESULT"} \in SUBSET {"SUBMIT", "RESULT", "ERROR"}
          BY <1>0
        <5>2. activity[r] + 1 \in Nat /\ bets[r] + 1 \in Nat
          BY <1>0
        <5> QED
          BY <4>2, <5>1, <5>2
      <4> QED
        BY <2>7, <4>1, <4>2 DEF BetRecord
    <3>3. orders' \in [Origins -> [status : {"none", "open", "rejected"}, acct : AccountOrNone]]
      BY <2>7, <3>2 DEF BetRecord, dbVars
    <3> QED
      BY <2>7, <3>1, <3>3, <3>4 DEF BetRecord, acctVars, botVars, clobVars, userVars
  <2> QED
    BY <1>21, <2>1, <2>2, <2>3, <2>4, <2>5, <2>6, <2>7 DEF PlaceBet
<1>22. CASE WebRestart
  <2>1. \A r \in Requests : web[r] \in WebState /\ [web[r] EXCEPT !.pc = "done"] \in WebState
    BY DEF WebState
  <2>2. web' \in [Requests -> WebState]
    BY <1>22, <2>1 DEF WebRestart
  <2> QED
    BY <1>22, <2>2 DEF WebRestart, acctVars, botVars, clobVars, dbVars, userVars
<1>23. CASE UNCHANGED vars
  BY <1>23 DEF vars, acctVars, botVars, clobVars, dbVars, userVars
<1> QED
  BY <1>6, <1>7, <1>8, <1>9, <1>10, <1>11, <1>12, <1>13, <1>14, <1>15, <1>16, <1>17,
     <1>18, <1>19, <1>20, <1>21, <1>22, <1>23 DEF Next, Execute

----------------------------------------------------------------------------
(* The inductive invariant, one lemma per conjunct.                        *)

\* The oldest account, hence the resolution, depends on the accounts table only.
LEMMA ResolutionStable ==
    ASSUME UNCHANGED <<accts, active>>, NEW chosen
    PROVE  ResolveAccount(chosen)' = ResolveAccount(chosen) /\ UNCHANGED DefaultAccount
BY DEF ResolveAccount, DefaultAccount, OldestAccount

LEMMA RecordStep == OrderInv /\ [Next]_vars => RecordInv'
<1> SUFFICES ASSUME OrderInv, [Next]_vars PROVE RecordInv'
  OBVIOUS
<1> USE DEF OrderInv, RecordInv
<1>0. Intents \subseteq Origins /\ Requests \subseteq Origins
  BY DEF Origins
<1>1. /\ called \in [Origins -> Nat] /\ placed \in [Origins -> Nat]
      /\ activity \in [Origins -> Nat] /\ bets \in [Origins -> Nat]
      /\ audit \in [Origins -> SUBSET {"SUBMIT", "RESULT", "ERROR"}]
      /\ orders \in [Origins -> [status : {"none", "open", "rejected"}, acct : AccountOrNone]]
  BY DEF TypeOK
<1>2. bot.pc # "idle" => bot.i \in Intents
  BY DEF TypeOK
<1>3. CASE UNCHANGED <<clobVars, dbVars>>
  BY <1>3 DEF clobVars, dbVars
<1>4. ASSUME NEW a \in Account, Disconnect(a) PROVE RecordInv'
  BY <1>4, <1>1 DEF Disconnect, clobVars, NoOrder
<1>5. CASE ExecSubmit
  <2>1. UNCHANGED <<called, placed, activity, bets, orders>>
    BY <1>5 DEF ExecSubmit, clobVars
  <2>2. \A o \in Origins : audit'[o] \ {"SUBMIT"} \subseteq audit[o]
    BY <1>5, <1>0, <1>1, <1>2 DEF ExecSubmit
  <2>3. \A o \in Origins : audit'[o] \cap {"RESULT", "ERROR"} # {}
                             => audit[o] \cap {"RESULT", "ERROR"} # {}
    BY <2>2
  <2> QED
    BY <2>1, <2>3
<1>6. CASE ExecClob
  <2>1. called[bot.i] = 0 /\ bot.i \in Intents
    BY <1>6, <1>2 DEF IntentInv, BeforeCall, ExecClob
  <2> QED
    BY <1>6, <2>1, <1>0, <1>1 DEF ExecClob, ClobCall, dbVars
<1>7. CASE ExecAudit
  <2>1. called[bot.i] = 1 /\ bot.i \in Intents
    BY <1>7, <1>2 DEF ResultInv, AfterCall, ExecAudit
  <2> QED
    BY <1>7, <2>1, <1>0, <1>1 DEF ExecAudit, clobVars
<1>8. CASE ExecLogOrder
  <2>1. ResultOk(bot.ans) => placed[bot.i] = 1
    BY <1>8 DEF ResultInv, AfterCall, ExecLogOrder, ResultOk
  <2>2. called[bot.i] = 1
    BY <1>8 DEF ResultInv, AfterCall, ExecLogOrder
  <2> QED
    BY <1>8, <2>1, <2>2, <1>0, <1>1, <1>2 DEF ExecLogOrder, clobVars
<1>9. CASE ExecRecordActivity
  <2>1. placed[bot.i] = 1 /\ activity[bot.i] = 0
    BY <1>9 DEF ResultInv, AfterCall, ExecRecordActivity
  <2> QED
    BY <1>9, <2>1, <1>0, <1>1, <1>2 DEF ExecRecordActivity, clobVars
<1>10. CASE ExecRecordNewsBet
  <2>1. placed[bot.i] = 1 /\ bets[bot.i] = 0
    BY <1>10 DEF ResultInv, AfterCall, ExecRecordNewsBet
  <2> QED
    BY <1>10, <2>1, <1>0, <1>1, <1>2 DEF ExecRecordNewsBet, clobVars
<1>11. ASSUME NEW r \in Requests, BetClob(r) PROVE RecordInv'
  <2>1. called[r] = 0
    BY <1>11 DEF WebInv, BeforeCall, BetClob
  <2> QED
    BY <1>11, <2>1, <1>0, <1>1 DEF BetClob, ClobCall, dbVars
<1>12. ASSUME NEW r \in Requests, BetFailed(r) PROVE RecordInv'
  <2>1. called[r] = 1
    BY <1>12 DEF WebInv, BetFailed
  <2> QED
    BY <1>12, <2>1, <1>0, <1>1 DEF BetFailed, clobVars
<1>13. ASSUME NEW r \in Requests, BetRecord(r) PROVE RecordInv'
  <2>1. called[r] = 1 /\ placed[r] = 1 /\ activity[r] = 0 /\ bets[r] = 0
    BY <1>13 DEF WebInv, BetRecord
  <2> QED
    BY <1>13, <2>1, <1>0, <1>1 DEF BetRecord, clobVars, dbVars
<1>14. \/ UNCHANGED <<clobVars, dbVars>>
       \/ \E a \in Account : Disconnect(a)
       \/ ExecSubmit \/ ExecClob \/ ExecAudit \/ ExecLogOrder
       \/ ExecRecordActivity \/ ExecRecordNewsBet
       \/ \E r \in Requests : BetClob(r) \/ BetFailed(r) \/ BetRecord(r)
  BY DEF Next, Execute, PlaceBet, Tick, Connect, Request, OnConfirm, OnDecline, ExecClient,
         ExecResolve, BotRestart, BetValidate, BetClient, BetResolve, BetFlush, WebRestart, vars
<1> QED
  BY <1>3, <1>4, <1>5, <1>6, <1>7, <1>8, <1>9, <1>10, <1>11, <1>12, <1>13, <1>14

LEMMA WebStep == OrderInv /\ [Next]_vars => WebInv'
<1> SUFFICES ASSUME OrderInv, [Next]_vars PROVE WebInv'
  OBVIOUS
<1> USE DEF OrderInv, WebInv, BeforeCall
<1>0. Intents \subseteq Origins /\ Requests \subseteq Origins /\ Intents \cap Requests = {}
  BY OriginsAssumption DEF Origins
<1>1. /\ called \in [Origins -> Nat] /\ placed \in [Origins -> Nat]
      /\ activity \in [Origins -> Nat] /\ bets \in [Origins -> Nat]
      /\ web \in [Requests -> WebState]
  BY DEF TypeOK
<1>2. bot.pc # "idle" => bot.i \in Intents
  BY DEF TypeOK
<1>3. CASE UNCHANGED <<web, clobVars, activity, bets>>
  BY <1>3 DEF clobVars
<1>4. CASE ExecClob
  BY <1>4, <1>0, <1>1, <1>2 DEF ExecClob, ClobCall, dbVars
<1>5. CASE ExecRecordActivity
  BY <1>5, <1>0, <1>1, <1>2 DEF ExecRecordActivity, clobVars
<1>6. CASE ExecRecordNewsBet
  BY <1>6, <1>0, <1>1, <1>2 DEF ExecRecordNewsBet, clobVars
<1>7. ASSUME NEW r \in Requests, BetValidate(r) PROVE WebInv'
  <2>1. PICK pc \in {"client", "done"} : web' = [web EXCEPT ![r].pc = pc]
    BY <1>7 DEF BetValidate, WebGoto
  <2> QED
    BY <1>7, <2>1, <1>1 DEF BetValidate, clobVars, dbVars
<1>8. ASSUME NEW r \in Requests, BetClient(r) PROVE WebInv'
  BY <1>8, <1>1 DEF BetClient, WebGoto, WebState, clobVars, dbVars
<1>9. ASSUME NEW r \in Requests, BetResolve(r) PROVE WebInv'
  BY <1>9, <1>1 DEF BetResolve, WebState, clobVars, dbVars
<1>10. ASSUME NEW r \in Requests, BetClob(r) PROVE WebInv'
  <2>1. /\ called[r] = 0 /\ placed[r] = 0 /\ activity[r] = 0 /\ bets[r] = 0
    BY <1>10, <1>0, <1>1 DEF RecordInv, BetClob
  <2> QED
    BY <1>10, <2>1, <1>0, <1>1 DEF BetClob, ClobCall, CancelKinds, WebState, dbVars
<1>11. ASSUME NEW r \in Requests, BetFailed(r) PROVE WebInv'
  BY <1>11, <1>1 DEF BetFailed, WebGoto, clobVars
<1>12. ASSUME NEW r \in Requests, BetFlush(r) PROVE WebInv'
  <2>1. PICK pc \in {"record", "done"} : web' = [web EXCEPT ![r].pc = pc]
    BY <1>12 DEF BetFlush, WebGoto
  <2> QED
    BY <1>12, <2>1, <1>1 DEF BetFlush, ResultOk, clobVars, dbVars
<1>13. ASSUME NEW r \in Requests, BetRecord(r) PROVE WebInv'
  BY <1>13, <1>0, <1>1 DEF BetRecord, WebGoto, clobVars, dbVars
<1>14. CASE WebRestart
  BY <1>14, <1>1 DEF WebRestart, clobVars, dbVars
<1>15. \/ UNCHANGED <<web, clobVars, activity, bets>>
       \/ ExecClob \/ ExecRecordActivity \/ ExecRecordNewsBet
       \/ \E r \in Requests : PlaceBet(r)
       \/ WebRestart
  BY DEF Next, Execute, Tick, Connect, Disconnect, Request, OnConfirm, OnDecline, ExecClient,
         ExecResolve, ExecSubmit, ExecAudit, ExecLogOrder, BotRestart, vars, dbVars
<1> QED
  BY <1>3, <1>4, <1>5, <1>6, <1>7, <1>8, <1>9, <1>10, <1>11, <1>12, <1>13, <1>14, <1>15
     DEF PlaceBet

LEMMA IntentStep == OrderInv /\ [Next]_vars => IntentInv'
<1> SUFFICES ASSUME OrderInv, [Next]_vars PROVE IntentInv'
  OBVIOUS
<1> USE DEF OrderInv, IntentInv, BeforeCall, NeedsConsent
<1>0. Intents \subseteq Origins /\ Intents \cap Requests = {}
  BY OriginsAssumption DEF Origins
<1>1. /\ called \in [Origins -> Nat]
      /\ bot \in BotState /\ (bot.pc # "idle" => bot.i \in Intents)
      /\ intent \in [Intents -> IntentState]
      /\ consent \in [Intents -> Time \cup {-1}]
      /\ used \subseteq Intents /\ pending \subseteq used /\ declined \subseteq Intents
      /\ TTL \in Nat /\ now \in Nat
  BY BoundsAssumption DEF TypeOK, Time
<1>2. Idle.pc = "idle"
  BY DEF Idle
<1>3. CASE UNCHANGED <<now, confirmTrades, botVars, called, userVars>>
  BY <1>3 DEF botVars, userVars
<1>4. ASSUME NEW i \in Intents, NEW kind \in KindsUsed, NEW chosen \in AccountOrNone,
             Request(i, kind, chosen)
      PROVE  IntentInv'
  <2>1. called[i] = 0 /\ i \notin declined
    BY <1>4 DEF Request
  <2>2. intent' = [intent EXCEPT ![i] = [kind |-> kind, ts |-> now, account_id |-> chosen]]
    BY <1>4 DEF Request
  <2>3. UNCHANGED <<now, called, consent, declined, confirmTrades>> /\ used' = used \cup {i}
    BY <1>4 DEF Request, clobVars, userVars
  <2>4. CASE AlwaysConfirm(kind) \/ confirmTrades
    <3>1. pending' = pending \cup {i} /\ bot' = bot /\ bot.pc = "idle"
      BY <2>4, <1>4 DEF Request
    <3> QED
      BY <2>1, <2>2, <2>3, <3>1, <1>1
  <2>5. CASE ~ (AlwaysConfirm(kind) \/ confirmTrades)
    <3>1. pending' = pending /\ bot' = [Idle EXCEPT !.pc = "client", !.i = i] /\ bot.pc = "idle"
      BY <2>5, <1>4 DEF Request
    <3>2. bot'.pc = "client" /\ bot'.i = i
      BY <3>1 DEF Idle
    <3>3. i \notin used /\ kind \notin {"cancel_all", "close", "market_sell", "news"}
      BY <2>5, <1>4 DEF Request, AlwaysConfirm
    <3> QED
      BY <2>1, <2>2, <2>3, <2>5, <3>1, <3>2, <3>3, <1>1
  <2> QED
    BY <2>4, <2>5
<1>5. ASSUME NEW i \in Intents, OnConfirm(i) PROVE IntentInv'
  <2>1. UNCHANGED <<now, called, declined, intent, used, confirmTrades>> /\ pending' = pending \ {i}
        /\ bot.pc = "idle" /\ i \in used
    BY <1>5 DEF OnConfirm, PopIntent, clobVars
  <2>2. CASE i \in pending /\ now - intent[i].ts <= TTL
    <3>1. bot' = [Idle EXCEPT !.pc = "client", !.i = i] /\ consent' = [consent EXCEPT ![i] = now]
      BY <2>2, <1>5 DEF OnConfirm
    <3>2. bot'.pc = "client" /\ bot'.i = i
      BY <3>1 DEF Idle
    <3>3. intent[i].ts \in Nat /\ now \in intent[i].ts .. intent[i].ts + TTL
      BY <2>2, <1>1 DEF IntentState, Time
    <3> QED
      BY <2>1, <2>2, <3>1, <3>2, <3>3, <1>1
  <2>3. CASE ~ (i \in pending /\ now - intent[i].ts <= TTL)
    <3>1. UNCHANGED <<bot, consent>>
      BY <2>3, <1>5 DEF OnConfirm
    <3> QED
      BY <2>1, <3>1, <1>1
  <2> QED
    BY <2>2, <2>3
<1>6. ASSUME NEW i \in Intents, OnDecline(i) PROVE IntentInv'
  BY <1>6, <1>1 DEF OnDecline, PopIntent, clobVars
<1>7. CASE Tick
  BY <1>7, <1>1 DEF Tick, IntentState, Time, botVars, clobVars, userVars
<1>8. CASE BotRestart
  BY <1>8, <1>1, <1>2 DEF BotRestart, clobVars, userVars
<1>9. ASSUME UNCHANGED <<now, confirmTrades, used, pending, intent, called, userVars>>,
             \/ bot' = Idle
             \/ bot'.i = bot.i /\ bot.pc # "idle"
                /\ (bot'.pc \in BeforeCall => bot.pc \in BeforeCall)
      PROVE  IntentInv'
  BY <1>9, <1>1, <1>2 DEF userVars
<1>10. CASE ExecClient
  <2>1. bot' = Idle \/ (bot'.i = bot.i /\ bot.pc \in BeforeCall)
    BY <1>10, <1>1 DEF ExecClient, BotState
  <2> QED
    BY <1>10, <2>1, <1>9 DEF ExecClient, clobVars
<1>11. CASE ExecResolve
  <2>1. bot'.i = bot.i /\ bot.pc \in BeforeCall
    BY <1>11, <1>1 DEF ExecResolve, BotState
  <2> QED
    BY <1>11, <2>1, <1>9 DEF ExecResolve, clobVars
<1>12. CASE ExecSubmit
  <2>1. bot' = Idle \/ (bot'.i = bot.i /\ bot.pc \in BeforeCall)
    BY <1>12, <1>1 DEF ExecSubmit, BotGoto, BotState
  <2> QED
    BY <1>12, <2>1, <1>9 DEF ExecSubmit, clobVars
<1>13. CASE ExecClob
  <2>1. PICK ans \in Answers : bot' = [bot EXCEPT !.pc = "result", !.ans = ans]
    BY <1>13 DEF ExecClob
  <2>2. bot'.pc = "result" /\ bot'.i = bot.i /\ bot.pc = "clob"
    BY <1>13, <2>1, <1>1 DEF ExecClob, BotState
  <2>3. called' = [called EXCEPT ![bot.i] = @ + 1]
    BY <1>13 DEF ExecClob, ClobCall
  <2> QED
    BY <1>13, <2>2, <2>3, <1>0, <1>1 DEF ExecClob, userVars
<1>14. CASE ExecAudit
  <2>1. bot' = Idle \/ (bot'.i = bot.i /\ bot.pc = "result" /\ bot'.pc = "order")
    BY <1>14, <1>1 DEF ExecAudit, BotGoto, BotState
  <2> QED
    BY <1>14, <2>1, <1>9 DEF ExecAudit, clobVars
<1>15. CASE ExecLogOrder
  <2>1. bot' = Idle \/ (bot'.i = bot.i /\ bot.pc = "order" /\ bot'.pc = "stats")
    BY <1>15, <1>1 DEF ExecLogOrder, BotGoto, BotState
  <2> QED
    BY <1>15, <2>1, <1>9 DEF ExecLogOrder, clobVars
<1>16. CASE ExecRecordActivity
  <2>1. bot' = Idle \/ (bot'.i = bot.i /\ bot.pc = "stats" /\ bot'.pc = "bet")
    BY <1>16, <1>1 DEF ExecRecordActivity, BotGoto, BotState
  <2> QED
    BY <1>16, <2>1, <1>9 DEF ExecRecordActivity, clobVars
<1>17. CASE ExecRecordNewsBet
  BY <1>17, <1>9 DEF ExecRecordNewsBet, clobVars
<1>18. ASSUME NEW r \in Requests, BetClob(r) PROVE IntentInv'
  <2>1. \A i \in Intents : called'[i] = called[i]
    BY <1>18, <1>0, <1>1 DEF BetClob, ClobCall
  <2> QED
    BY <1>18, <2>1, <1>1 DEF BetClob, botVars, userVars
<1>19. \/ UNCHANGED <<now, confirmTrades, botVars, called, userVars>>
       \/ Tick \/ BotRestart \/ Execute
       \/ \E i \in Intents :
            \/ \E kind \in KindsUsed, chosen \in AccountOrNone : Request(i, kind, chosen)
            \/ OnConfirm(i) \/ OnDecline(i)
       \/ \E r \in Requests : BetClob(r)
  BY DEF Next, PlaceBet, Connect, Disconnect, BetValidate, BetClient, BetResolve, BetFailed,
         BetFlush, BetRecord, WebRestart, vars, clobVars
<1> QED
  BY <1>3, <1>4, <1>5, <1>6, <1>7, <1>8, <1>10, <1>11, <1>12, <1>13, <1>14, <1>15, <1>16,
     <1>17, <1>18, <1>19 DEF Execute

LEMMA ResultStep == OrderInv /\ [Next]_vars => ResultInv'
<1> SUFFICES ASSUME OrderInv, [Next]_vars PROVE ResultInv'
  OBVIOUS
<1> USE DEF OrderInv, ResultInv, AfterCall
<1>0. Intents \subseteq Origins /\ Intents \cap Requests = {}
  BY OriginsAssumption DEF Origins
<1>1. /\ called \in [Origins -> Nat] /\ placed \in [Origins -> Nat]
      /\ activity \in [Origins -> Nat] /\ bets \in [Origins -> Nat]
      /\ bot \in BotState /\ (bot.pc # "idle" => bot.i \in Intents)
      /\ intent \in [Intents -> IntentState]
  BY DEF TypeOK
<1>2. bot' = Idle => ResultInv'
  BY DEF Idle
<1>3. CASE UNCHANGED <<bot, intent, called, placed, activity, bets>>
  BY <1>3
<1>4. ASSUME bot'.pc \in {"client", "resolve", "placing", "clob"} PROVE ResultInv'
  BY <1>4
<1>5. ASSUME NEW i \in Intents, NEW kind \in KindsUsed, NEW chosen \in AccountOrNone,
             Request(i, kind, chosen)
      PROVE  ResultInv'
  <2>1. bot.pc = "idle" /\ (bot' = bot \/ bot' = [Idle EXCEPT !.pc = "client", !.i = i])
    BY <1>5 DEF Request
  <2> QED
    BY <2>1, <1>4 DEF Idle
<1>6. ASSUME NEW i \in Intents, OnConfirm(i) PROVE ResultInv'
  <2>1. bot.pc = "idle" /\ (bot' = bot \/ bot' = [Idle EXCEPT !.pc = "client", !.i = i])
    BY <1>6 DEF OnConfirm
  <2> QED
    BY <2>1, <1>4 DEF Idle
<1>7. CASE ExecClient \/ ExecResolve \/ ExecSubmit
  <2>1. bot' = Idle \/ bot'.pc \in {"resolve", "placing", "clob"}
    BY <1>7, <1>1 DEF ExecClient, ExecResolve, ExecSubmit, BotGoto, BotState
  <2> QED
    BY <2>1, <1>2, <1>4
<1>8. CASE ExecClob
  <2>1. PICK ans \in Answers : /\ bot' = [bot EXCEPT !.pc = "result", !.ans = ans]
                               /\ ClobCall(bot.i, bot.client, intent[bot.i].kind, ans)
    BY <1>8 DEF ExecClob
  <2>2. bot'.pc = "result" /\ bot'.i = bot.i /\ bot'.ans = ans /\ bot.pc = "clob"
    BY <1>8, <2>1, <1>1 DEF ExecClob, BotState
  <2>3. bot.i \in Origins /\ called[bot.i] = 0
    BY <2>2, <1>0, <1>1 DEF IntentInv, BeforeCall
  <2>4. placed[bot.i] = 0 /\ activity[bot.i] = 0 /\ bets[bot.i] = 0
    BY <2>3, <1>1 DEF RecordInv
  <2> QED
    BY <1>8, <2>1, <2>2, <2>3, <2>4, <1>1 DEF ExecClob, ClobCall, dbVars
<1>9. CASE ExecAudit
  <2>1. bot' = Idle \/ /\ bot'.i = bot.i /\ bot'.ans = bot.ans
                       /\ bot.pc = "result" /\ bot'.pc = "order"
                       /\ intent[bot.i].kind \notin CancelKinds
    BY <1>9, <1>1 DEF ExecAudit, BotGoto, BotState
  <2> QED
    BY <1>9, <2>1, <1>2 DEF ExecAudit, clobVars
<1>10. CASE ExecLogOrder
  <2>1. bot' = Idle \/ /\ bot'.i = bot.i /\ bot'.ans = bot.ans
                       /\ bot.pc = "order" /\ bot'.pc = "stats" /\ bot.ans = "ok"
    BY <1>10, <1>1 DEF ExecLogOrder, ResultOk, BotGoto, BotState
  <2> QED
    BY <1>10, <2>1, <1>2 DEF ExecLogOrder, clobVars
<1>11. CASE ExecRecordActivity
  <2>1. bot' = Idle \/ /\ bot'.i = bot.i /\ bot'.ans = bot.ans
                       /\ bot.pc = "stats" /\ bot'.pc = "bet"
    BY <1>11, <1>1 DEF ExecRecordActivity, BotGoto, BotState
  <2> QED
    BY <1>11, <2>1, <1>2 DEF ExecRecordActivity, clobVars
<1>12. CASE ExecRecordNewsBet \/ BotRestart
  BY <1>12, <1>2 DEF ExecRecordNewsBet, BotRestart
<1>13. ASSUME NEW r \in Requests, BetClob(r) PROVE ResultInv'
  <2>1. \A i \in Intents : called'[i] = called[i] /\ placed'[i] = placed[i]
    BY <1>13, <1>0, <1>1 DEF BetClob, ClobCall
  <2> QED
    BY <1>13, <2>1, <1>1 DEF BetClob, botVars, dbVars
<1>14. ASSUME NEW r \in Requests, BetRecord(r) PROVE ResultInv'
  <2>1. \A i \in Intents : activity'[i] = activity[i] /\ bets'[i] = bets[i]
    BY <1>14, <1>0, <1>1 DEF BetRecord, dbVars
  <2> QED
    BY <1>14, <2>1, <1>1 DEF BetRecord, botVars, clobVars
<1>15. \/ UNCHANGED <<bot, intent, called, placed, activity, bets>>
       \/ Execute \/ BotRestart
       \/ \E i \in Intents :
            \/ \E kind \in KindsUsed, chosen \in AccountOrNone : Request(i, kind, chosen)
            \/ OnConfirm(i)
       \/ \E r \in Requests : BetClob(r) \/ BetRecord(r)
  BY DEF Next, PlaceBet, Tick, Connect, Disconnect, OnDecline, BetValidate, BetClient,
         BetResolve, BetFailed, BetFlush, WebRestart, vars, botVars, clobVars, dbVars
<1> QED
  BY <1>3, <1>5, <1>6, <1>7, <1>8, <1>9, <1>10, <1>11, <1>12, <1>13, <1>14, <1>15 DEF Execute

LEMMA WalletStep == OrderInv /\ [Next]_vars => WalletInv'
<1> SUFFICES ASSUME OrderInv, [Next]_vars PROVE WalletInv'
  OBVIOUS
<1> USE DEF OrderInv, WalletInv, AfterCall
<1>0. Intents \subseteq Origins /\ Intents \cap Requests = {}
  BY OriginsAssumption DEF Origins
<1>1. /\ signer \in [Origins -> AccountOrNone]
      /\ bot \in BotState /\ (bot.pc # "idle" => bot.i \in Intents)
      /\ intent \in [Intents -> IntentState]
  BY DEF TypeOK
<1>2. bot'.pc \in {"idle", "client"} => WalletInv'
  OBVIOUS
<1>3. Idle.pc = "idle" /\ \A i : [Idle EXCEPT !.pc = "client", !.i = i].pc = "client"
  BY DEF Idle
<1>4. ASSUME UNCHANGED <<accts, active>>
      PROVE  \A chosen : ResolveAccount(chosen)' = ResolveAccount(chosen)
  BY <1>4, ResolutionStable
<1>5. CASE UNCHANGED <<bot, accts, active, intent, signer>>
  BY <1>4, <1>5
<1>6. ASSUME bot.pc = "idle", bot' = bot PROVE WalletInv'
  BY <1>6, <1>2
<1>7. CASE Connect \/ \E a \in Account : Disconnect(a)
  BY <1>6, <1>7 DEF Connect, Disconnect, botVars
<1>8. ASSUME NEW i \in Intents,
             \/ \E kind \in KindsUsed, chosen \in AccountOrNone : Request(i, kind, chosen)
             \/ OnConfirm(i)
      PROVE  WalletInv'
  <2>1. bot.pc = "idle" /\ (bot' = bot \/ bot' = [Idle EXCEPT !.pc = "client", !.i = i])
    BY <1>8 DEF Request, OnConfirm
  <2> QED
    BY <2>1, <1>2, <1>3
<1>9. CASE ExecClient
  <2>1. CASE bot' = Idle
    BY <2>1, <1>2, <1>3
  <2> DEFINE a == ResolveAccount(intent[bot.i].account_id)
  <2>2. CASE a # NoAccount /\ bot' = [bot EXCEPT !.pc = "resolve", !.client = a]
    <3>1. bot'.pc = "resolve" /\ bot'.i = bot.i /\ bot'.client = a
      BY <2>2, <1>1 DEF BotState
    <3> QED
      BY <2>2, <3>1, <1>4, <1>9 DEF ExecClient, acctVars
  <2> QED
    BY <1>9, <2>1, <2>2 DEF ExecClient
<1>10. CASE ExecResolve
  <2> DEFINE chosen == intent[bot.i].account_id
             acct == IF chosen # NoAccount THEN chosen ELSE DefaultAccount
  <2>1. bot' = [bot EXCEPT !.pc = "placing", !.acct = acct]
    BY <1>10 DEF ExecResolve
  <2>2. bot'.pc = "placing" /\ bot'.i = bot.i /\ bot'.client = bot.client /\ bot'.acct = acct
    BY <2>1, <1>1 DEF BotState
  <2>3. bot.client # NoAccount /\ bot.client = ResolveAccount(chosen)
    BY <1>10 DEF ExecResolve
  <2>4. acct = bot.client
    BY <2>3 DEF ResolveAccount
  <2> QED
    BY <2>2, <2>3, <2>4, <1>4, <1>10 DEF ExecResolve, acctVars
<1>11. ASSUME UNCHANGED <<accts, active, intent, signer>>,
              \/ bot' = Idle
              \/ /\ bot'.i = bot.i /\ bot'.client = bot.client /\ bot'.acct = bot.acct
                 /\ bot.pc \in {"placing"} \cup AfterCall
                 /\ bot'.pc \in AfterCall => bot.pc \in AfterCall
       PROVE  WalletInv'
  BY <1>11, <1>2, <1>3, <1>4
<1>12. CASE ExecSubmit
  <2>1. bot' = Idle \/ /\ bot'.i = bot.i /\ bot'.client = bot.client /\ bot'.acct = bot.acct
                       /\ bot.pc = "placing" /\ bot'.pc = "clob"
    BY <1>12, <1>1 DEF ExecSubmit, BotGoto, BotState
  <2> QED
    BY <1>12, <2>1, <1>11 DEF ExecSubmit, acctVars, clobVars
<1>13. CASE ExecClob
  <2>1. PICK ans \in Answers : /\ bot' = [bot EXCEPT !.pc = "result", !.ans = ans]
                               /\ ClobCall(bot.i, bot.client, intent[bot.i].kind, ans)
    BY <1>13 DEF ExecClob
  <2>2. /\ bot'.pc = "result" /\ bot'.i = bot.i /\ bot'.client = bot.client
        /\ bot'.acct = bot.acct /\ bot.pc = "clob"
    BY <1>13, <2>1, <1>1 DEF ExecClob, BotState
  <2>3. signer'[bot.i] = bot.client
    BY <2>1, <2>2, <1>0, <1>1 DEF ClobCall
  <2> QED
    BY <1>13, <2>2, <2>3, <1>4 DEF ExecClob, acctVars
<1>14. CASE ExecAudit
  <2>1. bot' = Idle \/ /\ bot'.i = bot.i /\ bot'.client = bot.client /\ bot'.acct = bot.acct
                       /\ bot.pc = "result" /\ bot'.pc = "order"
    BY <1>14, <1>1 DEF ExecAudit, BotGoto, BotState
  <2> QED
    BY <1>14, <2>1, <1>11 DEF ExecAudit, acctVars, clobVars
<1>15. CASE ExecLogOrder
  <2>1. bot' = Idle \/ /\ bot'.i = bot.i /\ bot'.client = bot.client /\ bot'.acct = bot.acct
                       /\ bot.pc = "order" /\ bot'.pc = "stats"
    BY <1>15, <1>1 DEF ExecLogOrder, BotGoto, BotState
  <2> QED
    BY <1>15, <2>1, <1>11 DEF ExecLogOrder, acctVars, clobVars
<1>16. CASE ExecRecordActivity
  <2>1. bot' = Idle \/ /\ bot'.i = bot.i /\ bot'.client = bot.client /\ bot'.acct = bot.acct
                       /\ bot.pc = "stats" /\ bot'.pc = "bet"
    BY <1>16, <1>1 DEF ExecRecordActivity, BotGoto, BotState
  <2> QED
    BY <1>16, <2>1, <1>11 DEF ExecRecordActivity, acctVars, clobVars
<1>17. CASE ExecRecordNewsBet \/ BotRestart
  BY <1>17, <1>2, <1>3 DEF ExecRecordNewsBet, BotRestart
<1>18. ASSUME NEW r \in Requests, BetClob(r) PROVE WalletInv'
  <2>1. \A i \in Intents : signer'[i] = signer[i]
    BY <1>18, <1>0, <1>1 DEF BetClob, ClobCall
  <2> QED
    BY <1>18, <2>1, <1>1, <1>4 DEF BetClob, botVars, acctVars
<1>19. \/ UNCHANGED <<bot, accts, active, intent, signer>>
       \/ Connect \/ (\E a \in Account : Disconnect(a)) \/ Execute \/ BotRestart
       \/ \E i \in Intents :
            \/ \E kind \in KindsUsed, chosen \in AccountOrNone : Request(i, kind, chosen)
            \/ OnConfirm(i)
       \/ \E r \in Requests : BetClob(r)
  BY DEF Next, PlaceBet, Tick, OnDecline, BetValidate, BetClient, BetResolve, BetFailed,
         BetFlush, BetRecord, WebRestart, vars, acctVars, botVars, clobVars
<1> QED
  BY <1>5, <1>7, <1>8, <1>9, <1>10, <1>12, <1>13, <1>14, <1>15, <1>16, <1>17, <1>18, <1>19
     DEF Execute

LEMMA AgreementStep == OrderInv /\ [Next]_vars => WalletAgreement'
<1> SUFFICES ASSUME OrderInv, [Next]_vars PROVE WalletAgreement'
  OBVIOUS
<1> USE DEF OrderInv, WalletAgreement
<1>0. Intents \subseteq Origins /\ Intents \cap Requests = {}
  BY OriginsAssumption DEF Origins
<1>1. /\ signer \in [Origins -> AccountOrNone] /\ called \in [Origins -> Nat]
      /\ orders \in [Origins -> [status : {"none", "open", "rejected"}, acct : AccountOrNone]]
      /\ bot \in BotState /\ (bot.pc # "idle" => bot.i \in Intents)
      /\ intent \in [Intents -> IntentState]
  BY DEF TypeOK
<1>2. CASE UNCHANGED <<intent, called, signer, orders>>
  BY <1>2
<1>3. ASSUME NEW a \in Account, Disconnect(a) PROVE WalletAgreement'
  BY <1>3, <1>0, <1>1 DEF Disconnect, botVars, clobVars, NoOrder
<1>4. ASSUME NEW i \in Intents, NEW kind \in KindsUsed, NEW chosen \in AccountOrNone,
             Request(i, kind, chosen)
      PROVE  WalletAgreement'
  <2>1. called[i] = 0
    BY <1>4 DEF Request, IntentInv
  <2> QED
    BY <1>4, <2>1, <1>1 DEF Request, clobVars, dbVars
<1>5. CASE ExecClob
  <2>1. called[bot.i] = 0 /\ bot.i \in Intents
    BY <1>5, <1>1 DEF ExecClob, IntentInv, BeforeCall
  <2>2. orders[bot.i].status = "none"
    BY <2>1, <1>0 DEF RecordInv
  <2>3. bot.client # NoAccount /\ bot.client = ResolveAccount(intent[bot.i].account_id)
    BY <1>5 DEF ExecClob, WalletInv
  <2>4. intent[bot.i].account_id # NoAccount => bot.client = intent[bot.i].account_id
    BY <2>3 DEF ResolveAccount
  <2> QED
    BY <1>5, <2>1, <2>2, <2>4, <1>0, <1>1 DEF ExecClob, ClobCall, dbVars
<1>6. CASE ExecLogOrder
  <2>1. bot.acct = signer[bot.i] /\ bot.i \in Intents
    BY <1>6, <1>1 DEF ExecLogOrder, WalletInv, AfterCall
  <2> QED
    BY <1>6, <2>1, <1>0, <1>1 DEF ExecLogOrder, clobVars
<1>7. ASSUME NEW r \in Requests, BetClob(r) PROVE WalletAgreement'
  <2>1. \A i \in Intents : signer'[i] = signer[i] /\ called'[i] = called[i]
    BY <1>7, <1>0, <1>1 DEF BetClob, ClobCall
  <2> QED
    BY <1>7, <2>1 DEF BetClob, botVars, dbVars
<1>8. ASSUME NEW r \in Requests, BetFailed(r) \/ BetRecord(r) PROVE WalletAgreement'
  <2>1. \A i \in Intents : orders'[i] = orders[i]
    BY <1>8, <1>0, <1>1 DEF BetFailed, BetRecord, dbVars
  <2> QED
    BY <1>8, <2>1 DEF BetFailed, BetRecord, botVars, clobVars
<1>9. \/ UNCHANGED <<intent, called, signer, orders>>
      \/ (\E a \in Account : Disconnect(a)) \/ ExecClob \/ ExecLogOrder
      \/ \E i \in Intents, kind \in KindsUsed, chosen \in AccountOrNone : Request(i, kind, chosen)
      \/ \E r \in Requests : BetClob(r) \/ BetFailed(r) \/ BetRecord(r)
  BY DEF Next, PlaceBet, Execute, Tick, Connect, OnConfirm, OnDecline, ExecClient, ExecResolve,
         ExecSubmit, ExecAudit, ExecRecordActivity, ExecRecordNewsBet, BotRestart, BetValidate,
         BetClient, BetResolve, BetFlush, WebRestart, vars, botVars, clobVars, dbVars
<1> QED
  BY <1>2, <1>3, <1>4, <1>5, <1>6, <1>7, <1>8, <1>9

LEMMA InitInv == Init => OrderInv
<1> SUFFICES ASSUME Init PROVE OrderInv
  OBVIOUS
<1>1. TypeOK
  BY InitType
<1>2. RecordInv /\ WalletAgreement
  BY DEF Init, RecordInv, WalletAgreement, NoOrder, Origins
<1>3. IntentInv
  BY BoundsAssumption DEF Init, IntentInv, Idle, BeforeCall, Origins
<1>4. ResultInv /\ WalletInv
  BY DEF Init, ResultInv, WalletInv, Idle, AfterCall
<1>5. WebInv
  BY DEF Init, WebInv, Origins
<1> QED
  BY <1>1, <1>2, <1>3, <1>4, <1>5 DEF OrderInv

----------------------------------------------------------------------------
(* The theorems.                                                           *)

\* The inductive invariant of the order flow (bot and Mini App together).
THEOREM OrderInvariant == Spec => []OrderInv
<1>1. OrderInv /\ [Next]_vars => OrderInv'
  <2> SUFFICES ASSUME OrderInv, [Next]_vars PROVE OrderInv'
    OBVIOUS
  <2>1. TypeOK' /\ RecordInv'
    BY TypeStep, RecordStep DEF OrderInv
  <2>2. IntentInv' /\ ResultInv'
    BY IntentStep, ResultStep
  <2>3. WalletInv' /\ WalletAgreement' /\ WebInv'
    BY WalletStep, AgreementStep, WebStep
  <2> QED
    BY <2>1, <2>2, <2>3 DEF OrderInv
<1> QED
  BY <1>1, InitInv, PTL DEF Spec

\* confirm.on_confirm pops before it executes and place_bet never retries: a
\* confirmation or a request reaches the exchange at most once.
THEOREM OrdersOnce == Spec => []AtMostOneCall
<1>1. OrderInv => AtMostOneCall
  BY DEF OrderInv, RecordInv, AtMostOneCall
<1> QED
  BY <1>1, OrderInvariant, PTL

\* confirm.request and on_confirm: a call that needs consent was consented to
\* by a tap within the TTL of its prompt.
THEOREM OrdersConsented == Spec => []ConsentGiven
<1>1. OrderInv => ConsentGiven
  BY DEF OrderInv, IntentInv, NeedsConsent, ConsentGiven
<1> QED
  BY <1>1, OrderInvariant, PTL

\* _execute and place_bet: the rows they commit describe orders that the
\* exchange accepted, each counted once.
THEOREM OrdersRecordedTruly == Spec => []RecordsAreTrue
<1>1. OrderInv => RecordsAreTrue
  <2> SUFFICES ASSUME OrderInv, NEW o \in Origins
               PROVE  /\ orders[o].status = "open" \/ activity[o] > 0 \/ bets[o] > 0
                           => placed[o] = 1
                      /\ activity[o] <= 1 /\ bets[o] <= 1
                      /\ audit[o] \cap {"RESULT", "ERROR"} # {} => called[o] = 1
    BY DEF RecordsAreTrue
  <2>1. /\ called[o] \in Nat /\ placed[o] \in Nat
        /\ activity[o] \in Nat /\ bets[o] \in Nat
    BY DEF OrderInv, TypeOK
  <2> QED
    BY <2>1 DEF OrderInv, RecordInv
<1> QED
  BY <1>1, OrderInvariant, PTL

\* get_trading_client and default_account_id resolve the same wallet in the
\* bot, and the picked wallet is the one that signs.
THEOREM WalletsAgree == Spec => []WalletAgreement
<1>1. OrderInv => WalletAgreement
  BY DEF OrderInv
<1> QED
  BY <1>1, OrderInvariant, PTL

\* confirm.on_decline: after the decline button of a prompt has been handled
\* the prompt never reaches the exchange.
THEOREM DeclinesAreFinal == Spec => DeclineIsFinal
<1>1. OrderInv /\ [Next]_vars => [\A i \in declined : called'[i] = called[i]]_vars
  <2> SUFFICES ASSUME OrderInv, Next, NEW i \in declined PROVE called'[i] = called[i]
    OBVIOUS
  <2>0. /\ called \in [Origins -> Nat] /\ i \in Intents /\ i \in Origins /\ i \notin Requests
        /\ bot.pc # "idle" => bot.i \in Origins
    BY OriginsAssumption DEF OrderInv, TypeOK, Origins
  <2>1. CASE ExecClob
    <3>1. bot.i # i
      BY <2>1 DEF OrderInv, IntentInv, BeforeCall, ExecClob
    <3> QED
      BY <2>0, <2>1, <3>1 DEF ExecClob, ClobCall
  <2>2. ASSUME NEW r \in Requests, BetClob(r) PROVE called'[i] = called[i]
    BY <2>0, <2>2 DEF BetClob, ClobCall, Origins
  <2>3. CASE UNCHANGED called
    BY <2>3
  <2>4. ExecClob \/ UNCHANGED called \/ \E r \in Requests : BetClob(r)
    BY DEF Next, PlaceBet, Execute, Tick, Connect, Disconnect, Request, OnConfirm, OnDecline,
           ExecClient, ExecResolve, ExecSubmit, ExecAudit, ExecLogOrder, ExecRecordActivity,
           ExecRecordNewsBet, BotRestart, BetValidate, BetClient, BetResolve, BetFailed,
           BetFlush, BetRecord, WebRestart, clobVars
  <2> QED
    BY <2>1, <2>2, <2>3, <2>4
<1> QED
  BY <1>1, OrderInvariant, PTL DEF Spec, DeclineIsFinal
=============================================================================
