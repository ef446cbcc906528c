----------------------------- MODULE OrderFlow -----------------------------
(***************************************************************************)
(* One user's real-money orders, from the tap to the database rows.        *)
(*                                                                         *)
(* Two processes place orders for the same user:                           *)
(*   - the bot (bot/handlers/confirm.py): an intent is stashed in the      *)
(*     in-memory user_data, confirmed by a button, executed by _execute.   *)
(*     PTB processes updates one at a time, so at most one handler runs;   *)
(*     a restart loses user_data, the buttons stay in the chat;            *)
(*   - the Mini App (webapp/routers/api.py, place_bet): requests run       *)
(*     concurrently, each on one database session that get_db commits at   *)
(*     the end of the request.                                             *)
(* Both resolve the wallet from the same accounts table, which only the    *)
(* bot changes (connect, disconnect).  Every await is a step boundary.     *)
(***************************************************************************)
EXTENDS Integers

CONSTANTS
    Intents,        \* ids drawn by secrets.token_hex (assumed distinct)
    NoIntent,
    Requests,       \* Mini App POST /bet requests of this user
    KindsUsed,      \* the kinds of order the user asks for
    MaxAccount,     \* bound: wallets connected over a behaviour
    TTL,            \* _TTL_SECONDS, in clock units
    MaxTime         \* bound: clock

ASSUME NoIntentAssumption == NoIntent \notin Intents
ASSUME OriginsAssumption == Intents \cap Requests = {}
ASSUME BoundsAssumption == /\ MaxAccount \in Nat
                           /\ TTL \in Nat
                           /\ MaxTime \in Nat

\* "market_buy"/"market_sell" are kind "market" with that side; "news" is the
\* market buy of a news call-to-action (source = "news").
Kinds == {"limit", "market_buy", "market_sell", "close", "cancel", "cancel_all", "news"}
ASSUME KindsAssumption == KindsUsed \subseteq Kinds

CancelKinds == {"cancel", "cancel_all"}

Origins == Intents \cup Requests
Account == 1 .. MaxAccount
NoAccount == 0
AccountOrNone == Account \cup {NoAccount}
Time == 0 .. MaxTime

\* What a CLOB call can come back with.  "lost": the exchange took the order
\* but the call raised (a timeout); "refused": it raised and took nothing;
\* "reject": it answered with success = False or an error field.
Answers == {"ok", "reject", "lost", "refused"}
Raised(ans) == ans \in {"lost", "refused"}

VARIABLES
    now,
    confirmTrades,  \* user_settings.confirm_trades
    accts,          \* accounts rows of the user (ids in creation order)
    lastAcct,
    active,         \* users.active_account_id
    used,           \* intents built so far
    pending,        \* user_data["pending_orders"]
    intent,         \* per intent: its kind, ts and explicit account_id
    bot,            \* the one handler in progress
    web,            \* per request: the place_bet coroutine
    called,         \* CLOB calls made for an origin
    placed,         \* orders the exchange accepted for it
    signer,         \* the wallet whose client made the call
    audit,          \* audit_log rows (committed)
    orders,         \* orders row (committed)
    activity,       \* record_bet + reward_for_bet transactions (committed)
    bets,           \* bets rows (committed)
    consent,        \* history: clock at the accepted confirm tap, or -1
    declined        \* history: intents whose decline button was handled

botVars == <<used, pending, intent, bot>>
acctVars == <<accts, lastAcct, active>>
clobVars == <<called, placed, signer>>
dbVars == <<audit, orders, activity, bets>>
userVars == <<consent, declined>>
vars == <<now, confirmTrades, acctVars, botVars, web, clobVars, dbVars, userVars>>

Idle == [pc |-> "idle", i |-> NoIntent, client |-> NoAccount, acct |-> NoAccount,
         ans |-> "ok"]
NoOrder == [status |-> "none", acct |-> NoAccount]

BotState == [pc : {"idle", "client", "resolve", "placing", "clob", "result",
                   "order", "stats", "bet"},
             i : Intents \cup {NoIntent},
             client : AccountOrNone, acct : AccountOrNone, ans : Answers]
WebState == [pc : {"new", "client", "resolve", "clob", "result", "record", "done"},
             client : AccountOrNone, acct : AccountOrNone, ans : Answers]
IntentState == [kind : Kinds, ts : Time, account_id : AccountOrNone]

TypeOK ==
    /\ now \in Time
    /\ confirmTrades \in BOOLEAN
    /\ accts \subseteq Account
    /\ lastAcct \in AccountOrNone
    /\ active \in AccountOrNone
    /\ used \subseteq Intents
    /\ pending \subseteq used
    /\ intent \in [Intents -> IntentState]
    /\ bot \in BotState /\ (bot.pc # "idle" => bot.i \in Intents)
    /\ web \in [Requests -> WebState]
    /\ called \in [Origins -> Nat]
    /\ placed \in [Origins -> Nat]
    /\ signer \in [Origins -> AccountOrNone]
    /\ audit \in [Origins -> SUBSET {"SUBMIT", "RESULT", "ERROR"}]
    /\ orders \in [Origins -> [status : {"none", "open", "rejected"}, acct : AccountOrNone]]
    /\ activity \in [Origins -> Nat]
    /\ bets \in [Origins -> Nat]
    /\ consent \in [Intents -> Time \cup {-1}]
    /\ declined \subseteq Intents

Init ==
    /\ now = 0
    /\ confirmTrades \in BOOLEAN
    /\ accts = {}
    /\ lastAcct = 0
    /\ active = NoAccount
    /\ used = {}
    /\ pending = {}
    /\ intent = [i \in Intents |-> [kind |-> "limit", ts |-> 0, account_id |-> NoAccount]]
    /\ bot = Idle
    /\ web = [r \in Requests |-> [pc |-> "new", client |-> NoAccount,
                                  acct |-> NoAccount, ans |-> "ok"]]
    /\ called = [o \in Origins |-> 0]
    /\ placed = [o \in Origins |-> 0]
    /\ signer = [o \in Origins |-> NoAccount]
    /\ audit = [o \in Origins |-> {}]
    /\ orders = [o \in Origins |-> NoOrder]
    /\ activity = [o \in Origins |-> 0]
    /\ bets = [o \in Origins |-> 0]
    /\ consent = [i \in Intents |-> -1]
    /\ declined = {}

----------------------------------------------------------------------------
(* Wallets: resolve_account, and the two handlers that change the table.   *)

OldestAccount == CHOOSE a \in accts : \A b \in accts : a <= b

\* resolve_account without an explicit id: the active account, else the first.
DefaultAccount ==
    IF active \in accts THEN active
    ELSE IF accts = {} THEN NoAccount ELSE OldestAccount

\* Mutant: the explicit account_id is ignored.
ResolveAccountMutant(chosen) == DefaultAccount

\* resolve_account: an explicit id must still exist.
ResolveAccount(chosen) ==
    IF chosen = NoAccount THEN DefaultAccount
    ELSE IF chosen \in accts THEN chosen ELSE NoAccount

\* A transaction of the Mini App that inserted rows referring to account a
\* holds a key-share lock on it until it commits.
Referenced(a) == \E r \in Requests : web[r].pc = "record" /\ web[r].acct = a

\* enter_key, success: upsert_account (a known wallet is updated in place, a
\* new one gets a new row) and set_active_account, one transaction.
Connect ==
    /\ bot.pc = "idle"
    /\ \/ \E a \in accts : /\ active' = a
                           /\ UNCHANGED <<accts, lastAcct>>
       \/ /\ lastAcct < MaxAccount
          /\ lastAcct' = lastAcct + 1
          /\ accts' = accts \cup {lastAcct + 1}
          /\ active' = lastAcct + 1
    /\ UNCHANGED <<now, confirmTrades, botVars, web, clobVars, dbVars, userVars>>

\* on_disconnect_confirmed: the row is deleted (orders cascade), the active
\* pointer is cleared whichever account was deleted.
Disconnect(a) ==
    /\ bot.pc = "idle"
    /\ a \in accts
    /\ ~ Referenced(a)
    /\ accts' = accts \ {a}
    /\ active' = NoAccount
    /\ orders' = [o \in Origins |-> IF orders[o].acct = a THEN NoOrder ELSE orders[o]]
    /\ UNCHANGED <<now, confirmTrades, lastAcct, botVars, web, clobVars,
                   audit, activity, bets, userVars>>

----------------------------------------------------------------------------
(* The bot: request, the two buttons, _execute.                            *)

\* Mutant: a news bet obeys the confirm_trades preference like any other buy.
AlwaysConfirmMutant(kind) == kind \in {"cancel_all", "close", "market_sell"}

AlwaysConfirm(kind) == kind \in {"cancel_all", "close", "market_sell", "news"}

\* request: stash the intent and ask, or execute at once.  Only a news bet
\* may carry the account_id of the wallet picker.
Request(i, kind, chosen) ==
    /\ bot.pc = "idle"
    /\ i \notin used
    /\ chosen # NoAccount => kind = "news" /\ chosen \in accts
    /\ used' = used \cup {i}
    /\ intent' = [intent EXCEPT ![i] = [kind |-> kind, ts |-> now, account_id |-> chosen]]
    /\ IF AlwaysConfirm(kind) \/ confirmTrades
       THEN pending' = pending \cup {i} /\ bot' = bot
       ELSE pending' = pending /\ bot' = [Idle EXCEPT !.pc = "client", !.i = i]
    /\ UNCHANGED <<now, confirmTrades, acctVars, web, clobVars, dbVars, userVars>>

\* Mutant: the intent is read without being removed.
PopIntentMutant(i) == pending

\* pending_orders.pop(intent_id, None)
PopIntent(i) == pending \ {i}

\* on_confirm: the intent is popped first; a missing or expired one only
\* changes the message.  Buttons outlive the intent, so any id may be tapped.
OnConfirm(i) ==
    /\ bot.pc = "idle"
    /\ i \in used
    /\ pending' = PopIntent(i)
    /\ IF i \in pending /\ now - intent[i].ts <= TTL
       THEN /\ bot' = [Idle EXCEPT !.pc = "client", !.i = i]
            /\ consent' = [consent EXCEPT ![i] = now]
       ELSE UNCHANGED <<bot, consent>>
    /\ UNCHANGED <<now, confirmTrades, acctVars, used, intent, web, clobVars, dbVars, declined>>

\* on_decline: pop and say so.
OnDecline(i) ==
    /\ bot.pc = "idle"
    /\ i \in used
    /\ pending' = PopIntent(i)
    /\ declined' = declined \cup {i}
    /\ UNCHANGED <<now, confirmTrades, acctVars, used, intent, bot, web, clobVars, dbVars, consent>>

BotGoto(pc) == bot' = [bot EXCEPT !.pc = pc]

\* _execute, get_trading_client: a client for the resolved wallet, or a
\* message (NoAccountConnected, TradingUnavailable, any other failure).
ExecClient ==
    /\ bot.pc = "client"
    /\ LET a == ResolveAccount(intent[bot.i].account_id) IN
       \/ a # NoAccount /\ bot' = [bot EXCEPT !.pc = "resolve", !.client = a]
       \/ bot' = Idle
    /\ UNCHANGED <<now, confirmTrades, acctVars, used, pending, intent, web,
                   clobVars, dbVars, userVars>>

\* _execute, default_account_id: read again, for the log rows; an explicit
\* id is returned as it is.
ExecResolve ==
    /\ bot.pc = "resolve"
    /\ LET chosen == intent[bot.i].account_id IN
       bot' = [bot EXCEPT !.pc = "placing",
                          !.acct = IF chosen # NoAccount THEN chosen ELSE DefaultAccount]
    /\ UNCHANGED <<now, confirmTrades, acctVars, used, pending, intent, web,
                   clobVars, dbVars, userVars>>

\* _execute, respond("placing") then _audit(*_SUBMIT): a Telegram error ends
\* the handler; the audit write may fail without stopping it.
ExecSubmit ==
    /\ bot.pc = "placing"
    /\ \/ bot' = Idle /\ UNCHANGED audit
       \/ /\ BotGoto("clob")
          /\ \/ audit' = [audit EXCEPT ![bot.i] = @ \cup {"SUBMIT"}]
             \/ UNCHANGED audit
    /\ UNCHANGED <<now, confirmTrades, acctVars, used, pending, intent, web,
                   clobVars, orders, activity, bets, userVars>>

\* The exchange's side of a call by wallet a for origin o.
ClobCall(o, a, kind, ans) ==
    /\ called' = [called EXCEPT ![o] = @ + 1]
    /\ placed' = [placed EXCEPT ![o] =
            IF kind \notin CancelKinds /\ ans \in {"ok", "lost"} THEN @ + 1 ELSE @]
    /\ signer' = [signer EXCEPT ![o] = a]

\* _execute, the order or cancel call in a worker thread.
ExecClob ==
    /\ bot.pc = "clob"
    /\ \E ans \in Answers :
         /\ ClobCall(bot.i, bot.client, intent[bot.i].kind, ans)
         /\ bot' = [bot EXCEPT !.pc = "result", !.ans = ans]
    /\ UNCHANGED <<now, confirmTrades, acctVars, used, pending, intent, web, dbVars, userVars>>

\* Mutant: any answer that did not raise counts as a success.
ResultOkMutant(ans) == ~ Raised(ans)

\* _result_ok: the answer reports neither success = False nor an error.
ResultOk(ans) == ans = "ok"

\* _execute, _audit of the outcome (best effort).  A cancel ends here.
ExecAudit ==
    /\ bot.pc = "result"
    /\ \/ audit' = [audit EXCEPT ![bot.i] =
                        @ \cup {IF Raised(bot.ans) THEN "ERROR" ELSE "RESULT"}]
       \/ UNCHANGED audit
    /\ IF intent[bot.i].kind \in CancelKinds THEN bot' = Idle ELSE BotGoto("order")
    /\ UNCHANGED <<now, confirmTrades, acctVars, used, pending, intent, web,
                   clobVars, orders, activity, bets, userVars>>

\* _log_order (best effort, skipped without an account), then on success on
\* to the statistics.
ExecLogOrder ==
    /\ bot.pc = "order"
    /\ LET ok == ResultOk(bot.ans) IN
       /\ \/ /\ bot.acct \in accts
             /\ orders' = [orders EXCEPT ![bot.i] =
                    [status |-> IF ok THEN "open" ELSE "rejected", acct |-> bot.acct]]
          \/ UNCHANGED orders
       /\ IF ok THEN BotGoto("stats") ELSE bot' = Idle
    /\ UNCHANGED <<now, confirmTrades, acctVars, used, pending, intent, web,
                   clobVars, audit, activity, bets, userVars>>

\* _record_activity: record_bet + reward_for_bet in one transaction (best effort).
ExecRecordActivity ==
    /\ bot.pc = "stats"
    /\ \/ activity' = [activity EXCEPT ![bot.i] = @ + 1]
       \/ UNCHANGED activity
    /\ IF intent[bot.i].kind = "news" THEN BotGoto("bet") ELSE bot' = Idle
    /\ UNCHANGED <<now, confirmTrades, acctVars, used, pending, intent, web,
                   clobVars, audit, orders, bets, userVars>>

\* _record_news_bet: create_bet in its own transaction (best effort).
ExecRecordNewsBet ==
    /\ bot.pc = "bet"
    /\ \/ bets' = [bets EXCEPT ![bot.i] = @ + 1]
       \/ UNCHANGED bets
    /\ bot' = Idle
    /\ UNCHANGED <<now, confirmTrades, acctVars, used, pending, intent, web,
                   clobVars, audit, orders, activity, userVars>>

\* The bot process dies and starts again: user_data and the handler are gone.
BotRestart ==
    /\ pending' = {}
    /\ bot' = Idle
    /\ UNCHANGED <<now, confirmTrades, acctVars, used, intent, web, clobVars, dbVars, userVars>>

----------------------------------------------------------------------------
(* The Mini App: place_bet.  Rows are buffered in the request's session    *)
(* and become visible only when it commits.                                *)

WebGoto(r, pc) == web' = [web EXCEPT ![r].pc = pc]

\* Body size, rate limit, payload checks, market re-fetch: pass or refuse.
BetValidate(r) ==
    /\ web[r].pc = "new"
    /\ WebGoto(r, "client") \/ WebGoto(r, "done")
    /\ UNCHANGED <<now, confirmTrades, acctVars, botVars, clobVars, dbVars, userVars>>

BetClient(r) ==
    /\ web[r].pc = "client"
    /\ \/ /\ DefaultAccount # NoAccount
          /\ web' = [web EXCEPT ![r].pc = "resolve", ![r].client = DefaultAccount]
       \/ WebGoto(r, "done")
    /\ UNCHANGED <<now, confirmTrades, acctVars, botVars, clobVars, dbVars, userVars>>

\* default_account_id once more, for the rows; ORDER_SUBMIT is buffered.
BetResolve(r) ==
    /\ web[r].pc = "resolve"
    /\ web' = [web EXCEPT ![r].pc = "clob", ![r].acct = DefaultAccount]
    /\ UNCHANGED <<now, confirmTrades, acctVars, botVars, clobVars, dbVars, userVars>>

BetClob(r) ==
    /\ web[r].pc = "clob"
    /\ \E ans \in Answers :
         /\ ClobCall(r, web[r].client, "market_buy", ans)
         /\ web' = [web EXCEPT ![r].pc = "result", ![r].ans = ans]
    /\ UNCHANGED <<now, confirmTrades, acctVars, botVars, dbVars, userVars>>

\* The buffered rows name web[r].acct, a foreign key.
ForeignKeyHolds(r) == web[r].acct \in accts \cup {NoAccount}

\* The call raised: audit ORDER_ERROR, commit, 502.  Rejected: audit
\* ORDER_RESULT, the rejected order row, commit, 502.  A failed flush (the
\* account is gone) rolls everything back.
BetFailed(r) ==
    /\ web[r].pc = "result"
    /\ ~ ResultOk(web[r].ans)
    /\ \/ /\ ForeignKeyHolds(r)
          /\ audit' = [audit EXCEPT ![r] =
                @ \cup {"SUBMIT", IF Raised(web[r].ans) THEN "ERROR" ELSE "RESULT"}]
          /\ orders' = IF Raised(web[r].ans) \/ web[r].acct = NoAccount THEN orders
                       ELSE [orders EXCEPT ![r] = [status |-> "rejected", acct |-> web[r].acct]]
       \/ UNCHANGED <<audit, orders>>
    /\ WebGoto(r, "done")
    /\ UNCHANGED <<now, confirmTrades, acctVars, botVars, clobVars, activity, bets, userVars>>

\* Success: audit ORDER_RESULT and log_order, flushed (not committed).
BetFlush(r) ==
    /\ web[r].pc = "result"
    /\ ResultOk(web[r].ans)
    /\ \/ ForeignKeyHolds(r) /\ WebGoto(r, "record")
       \/ WebGoto(r, "done")
    /\ UNCHANGED <<now, confirmTrades, acctVars, botVars, clobVars, dbVars, userVars>>

\* record_bet, reward_for_bet, create_bet and the commit of get_db.  A failed
\* flush is logged and swallowed, but the session it leaves cannot commit.
BetRecord(r) ==
    /\ web[r].pc = "record"
    /\ \/ /\ audit' = [audit EXCEPT ![r] = @ \cup {"SUBMIT", "RESULT"}]
          /\ orders' = IF web[r].acct = NoAccount THEN orders
                       ELSE [orders EXCEPT ![r] = [status |-> "open", acct |-> web[r].acct]]
          /\ activity' = [activity EXCEPT ![r] = @ + 1]
          /\ bets' = [bets EXCEPT ![r] = @ + 1]
       \/ UNCHANGED dbVars
    /\ WebGoto(r, "done")
    /\ UNCHANGED <<now, confirmTrades, acctVars, botVars, clobVars, userVars>>

\* The webapp process dies: the session's rows are rolled back.
WebRestart ==
    /\ web' = [r \in Requests |-> IF web[r].pc = "new" THEN web[r]
                                  ELSE [web[r] EXCEPT !.pc = "done"]]
    /\ UNCHANGED <<now, confirmTrades, acctVars, botVars, clobVars, dbVars, userVars>>

Tick ==
    /\ now < MaxTime
    /\ now' = now + 1
    /\ UNCHANGED <<confirmTrades, acctVars, botVars, web, clobVars, dbVars, userVars>>

Execute == \/ ExecClient \/ ExecResolve \/ ExecSubmit \/ ExecClob \/ ExecAudit
           \/ ExecLogOrder \/ ExecRecordActivity \/ ExecRecordNewsBet

PlaceBet(r) == \/ BetValidate(r) \/ BetClient(r) \/ BetResolve(r) \/ BetClob(r)
               \/ BetFailed(r) \/ BetFlush(r) \/ BetRecord(r)

Next ==
    \/ Tick
    \/ Connect
    \/ \E a \in Account : Disconnect(a)
    \/ \E i \in Intents :
         \/ \E kind \in KindsUsed, chosen \in AccountOrNone : Request(i, kind, chosen)
         \/ OnConfirm(i)
         \/ OnDecline(i)
    \/ Execute
    \/ BotRestart
    \/ \E r \in Requests : PlaceBet(r)
    \/ WebRestart

Spec == Init /\ [][Next]_vars

----------------------------------------------------------------------------
(* Properties.                                                             *)

\* One confirmation, or one Mini App request, makes at most one call to the
\* exchange, whatever taps are repeated and wherever a process restarts
\* (on_confirm pops the intent before it executes it; nothing retries).
AtMostOneCall == \A o \in Origins : called[o] <= 1

\* No call is made for an intent that closes, sells or comes from a public
\* channel, or whose user wants confirmations, unless the confirm button was
\* handled within the TTL of the prompt (confirm.request, on_confirm).
ConsentGiven ==
    \A i \in Intents :
        (/\ called[i] > 0
         /\ confirmTrades \/ intent[i].kind \in {"cancel_all", "close", "market_sell", "news"})
        => consent[i] \in intent[i].ts .. intent[i].ts + TTL

\* Once the decline button of an intent has been handled, no later tap on the
\* confirm button of the same prompt reaches the exchange.
DeclineIsFinal == [][\A i \in declined : called'[i] = called[i]]_vars

\* What the database says happened did happen, and is counted once: an open
\* order row, a counted bet or a settleable bet stands for exactly one order
\* the exchange accepted, a result row for a call that was made.
RecordsAreTrue ==
    \A o \in Origins :
        /\ orders[o].status = "open" \/ activity[o] > 0 \/ bets[o] > 0 => placed[o] = 1
        /\ activity[o] <= 1 /\ bets[o] <= 1
        /\ audit[o] \cap {"RESULT", "ERROR"} # {} => called[o] = 1

\* The bot signs with the wallet the user picked for a news bet, and logs
\* every order under the wallet that signed it (get_trading_client and
\* default_account_id resolve twice; updates are handled one at a time).
WalletAgreement ==
    \A i \in Intents :
        /\ called[i] > 0 /\ intent[i].account_id # NoAccount
             => signer[i] = intent[i].account_id
        /\ orders[i].status # "none" => orders[i].acct = signer[i]

----------------------------------------------------------------------------
(* The inductive invariant behind the safety properties: where an intent or *)
(* a request is in its life fixes what has been called and recorded for it. *)

BeforeCall == {"client", "resolve", "placing", "clob"}
AfterCall == {"result", "order", "stats", "bet"}
NeedsConsent(i) ==
    confirmTrades \/ intent[i].kind \in {"cancel_all", "close", "market_sell", "news"}

\* Nothing is recorded for an origin before its call, and never twice.
RecordInv ==
    \A o \in Origins :
        /\ called[o] <= 1 /\ placed[o] <= called[o]
        /\ activity[o] <= placed[o] /\ bets[o] <= placed[o]
        /\ orders[o].status = "open" => placed[o] = 1
        /\ orders[o].status # "none" => called[o] = 1
        /\ audit[o] \cap {"RESULT", "ERROR"} # {} => called[o] = 1

\* An intent that has not been used, or still waits for its button, or is on
\* its way to the exchange, has not been called; the one being executed is no
\* longer pending.
IntentInv ==
    /\ bot.pc # "idle" => bot.i \in used \ pending
    /\ \A i \in Intents : i \notin used \/ i \in pending => called[i] = 0
    /\ bot.pc \in BeforeCall => called[bot.i] = 0 /\ bot.i \notin declined
    /\ \A i \in declined : i \in used \ pending
    /\ \A i \in Intents : intent[i].ts <= now
    /\ \A i \in Intents :
         NeedsConsent(i) /\ (called[i] > 0 \/ (bot.pc # "idle" /\ bot.i = i))
         => consent[i] \in intent[i].ts .. intent[i].ts + TTL

\* What the handler knows after its call, and what it has still to write.
ResultInv ==
    /\ bot.pc \in AfterCall => called[bot.i] = 1
    /\ bot.pc \in {"order", "stats", "bet"} => intent[bot.i].kind \notin CancelKinds
    /\ bot.pc \in AfterCall /\ bot.ans = "ok" /\ intent[bot.i].kind \notin CancelKinds
         => placed[bot.i] = 1
    /\ bot.pc \in {"stats", "bet"} => bot.ans = "ok"
    /\ bot.pc \in {"result", "order", "stats"} => activity[bot.i] = 0
    /\ bot.pc \in AfterCall => bets[bot.i] = 0

\* The wallet cannot change under a running handler.
WalletInv ==
    /\ bot.pc \in {"resolve", "placing", "clob"} \cup AfterCall
         => bot.client # NoAccount /\ bot.client = ResolveAccount(intent[bot.i].account_id)
    /\ bot.pc \in {"placing", "clob"} \cup AfterCall => bot.acct = bot.client
    /\ bot.pc \in AfterCall => signer[bot.i] = bot.client

WebInv ==
    \A r \in Requests :
        /\ web[r].pc \in {"new"} \cup BeforeCall => called[r] = 0
        /\ web[r].pc \in {"result", "record"}
             => called[r] = 1 /\ activity[r] = 0 /\ bets[r] = 0
        /\ web[r].pc \in {"result", "record"} /\ web[r].ans = "ok" => placed[r] = 1
        /\ web[r].pc = "record" => web[r].ans = "ok"

\* The whole invariant: every conjunct is needed to carry the others through
\* the handlers, the restarts and the repeated taps.
OrderInv == /\ TypeOK /\ RecordInv /\ IntentInv /\ ResultInv
            /\ WalletInv /\ WalletAgreement /\ WebInv
=============================================================================
