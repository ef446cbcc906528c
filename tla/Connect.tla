------------------------------- MODULE Connect -------------------------------
(***************************************************************************)
(* The connect conversation of one user (bot/handlers/connect.py), what it *)
(* derives from a key (polymarket/auth.py), the account rows it leaves     *)
(* (db/repositories/accounts.py) and whether a trading client can be built *)
(* from a row (polymarket/client.py).  Buttons of earlier steps stay in    *)
(* the chat and are handled in whatever step the conversation is in.       *)
(***************************************************************************)
EXTENDS Integers, FiniteSets

CONSTANTS
    Keys,           \* private keys of the user
    Addresses,      \* wallet addresses
    Signer,         \* the address a key controls
    NoKey, NoAddress, NoActive,
    MaxAttempts     \* bound: conversations

ASSUME ConnectAssumption ==
    /\ Signer \in [Keys -> Addresses] /\ NoKey \notin Keys
    /\ NoAddress \notin Addresses /\ NoActive \notin Addresses /\ MaxAttempts \in Nat

VARIABLES
    conv,       \* the state of the conversation, "none" outside of it
    state,      \* user_data["connect"]
    keyboards,  \* the kinds of buttons in the chat
    accounts,       \* accounts of the user, by wallet address
    active,     \* users.active_account_id, as the address of the account
    attempts

connectVars == <<conv, state, keyboards, accounts, active, attempts>>

SigTypes == 0 .. 2
ProxyTypes == {1, 2}
Steps == {"type", "funder", "key", "retry"}

Blank == [sig |-> 0, funder |-> NoAddress, key |-> NoKey]
NotStored == [signer |-> NoAddress, sig |-> 0, funder |-> NoAddress]
Stored == {w \in Addresses : accounts[w] # NotStored}

ConnectInit == /\ conv = "none" /\ state = Blank /\ keyboards = {}
               /\ accounts = [w \in Addresses |-> NotStored]
               /\ active = NoActive /\ attempts = 0

-----------------------------------------------------------------------------
(* The steps.  Every message has a cancel button, most one to go back.      *)

\* A step ends with a message and its buttons.  If that raises, the conversation
\* stays in the step it was in, whether or not the message has arrived.
Says(next, buttons) ==
    \/ conv' = next /\ keyboards' = keyboards \cup buttons
    \/ conv' = conv /\ keyboards' \in {keyboards, keyboards \cup buttons}

StartConnect ==
    /\ attempts < MaxAttempts /\ attempts' = attempts + 1
    /\ state' = Blank /\ Says("type", {"ctype"})
    /\ UNCHANGED <<accounts, active>>

\* Mutant: a Safe is taken for an EOA.
NeedsFunderMutant(sig) == sig = 1

NeedsFunder(sig) == sig \in ProxyTypes

ChooseType(sig) ==
    /\ conv = "type" /\ "ctype" \in keyboards
    /\ state' = [Blank EXCEPT !.sig = sig]
    /\ Says(IF NeedsFunder(sig) THEN "funder" ELSE "key", {"cancel", "to_type"})
    /\ UNCHANGED <<accounts, active, attempts>>

\* A text that is no address is asked for again.
EnterFunder(w) ==
    /\ conv = "funder"
    /\ state' = [state EXCEPT !.funder = w]
    /\ Says("key", {"cancel", "to_funder"})
    /\ UNCHANGED <<accounts, active, attempts>>

\* Mutant: the transient state survives a cancelled conversation.
ClearConnectMutant == state

ClearConnect == Blank

ConnNav(button) ==
    /\ conv # "none" /\ button \in keyboards
    /\ \/ button = "cancel" /\ state' = ClearConnect /\ Says("none", {})
       \/ button = "to_type" /\ state' = Blank /\ Says("type", {"ctype"})
       \/ button = "to_funder" /\ state' = state /\ Says("funder", {"cancel", "to_type"})
    /\ UNCHANGED <<accounts, active, attempts>>

\* /cancel and the timeout of the conversation.
Leave ==
    /\ conv # "none"
    /\ state' = ClearConnect /\ Says("none", {})
    /\ UNCHANGED <<accounts, active, attempts>>

-----------------------------------------------------------------------------
(* The key.                                                                 *)

\* The account address: the funder if there is one, else the signer.
ResolvedWallet(k, funder) == IF funder # NoAddress THEN funder ELSE Signer[k]

\* What validate_and_derive returns and upsert_account stores.
RowOf(k) == [signer |-> Signer[k], sig |-> state.sig, funder |-> state.funder]

AtKey == conv \in {"key", "retry"}
NavKeyboard == {"cancel", IF state.funder # NoAddress THEN "to_funder" ELSE "to_type"}

\* No key, or the message cannot be deleted and telling so fails.
EnterBadKey ==
    /\ AtKey
    /\ conv' \in {"key", conv}
    /\ keyboards' \in {keyboards, keyboards \cup NavKeyboard}
    /\ UNCHANGED <<state, accounts, active, attempts>>

\* The key is held while "validating" is announced; if that raises, it stays.
EnterKeyRaises(k) ==
    /\ AtKey
    /\ state' = [state EXCEPT !.key = k]
    /\ UNCHANGED <<conv, keyboards, accounts, active, attempts>>

\* Validation or the transaction fails; telling so may raise.
EnterKeyFails(k) ==
    /\ AtKey
    /\ conv' \in {"retry", conv} /\ state' = [state EXCEPT !.key = NoKey]
    /\ keyboards' \in {keyboards, keyboards \cup NavKeyboard}
    /\ UNCHANGED <<accounts, active, attempts>>

\* The middleware could not tell the user: nothing is stored.
EnterKeyNoUser(k) ==
    /\ AtKey
    /\ conv' \in {"none", conv} /\ state' = [state EXCEPT !.key = NoKey]
    /\ UNCHANGED <<keyboards, accounts, active, attempts>>

\* The account is stored and made the active one; telling so may raise, and
\* then the conversation stays where it is.
EnterKey(k) ==
    LET w == ResolvedWallet(k, state.funder)
    IN /\ AtKey
       /\ accounts' = [accounts EXCEPT ![w] = RowOf(k)]
       /\ active' = w
       /\ conv' \in {"none", conv} /\ state' = [state EXCEPT !.key = NoKey]
       /\ UNCHANGED <<keyboards, attempts>>

\* Both taps of /disconnect: any wallet, and the active pointer goes.
Disconnect(w) ==
    /\ w \in Stored
    /\ accounts' = [accounts EXCEPT ![w] = NotStored]
    /\ active' = NoActive
    /\ UNCHANGED <<conv, state, keyboards, attempts>>

\* The process dies: conversations are not persisted.
ConvRestart ==
    /\ conv # "none"
    /\ conv' = "none" /\ state' = Blank
    /\ UNCHANGED <<keyboards, accounts, active, attempts>>

ConnectNext ==
    \/ StartConnect \/ Leave \/ ConvRestart \/ EnterBadKey
    \/ \E sig \in SigTypes : ChooseType(sig)
    \/ \E w \in Addresses : EnterFunder(w) \/ Disconnect(w)
    \/ \E button \in {"cancel", "to_type", "to_funder"} : ConnNav(button)
    \/ \E k \in Keys : EnterKeyRaises(k) \/ EnterKeyFails(k) \/ EnterKeyNoUser(k) \/ EnterKey(k)

ConnectSpec == ConnectInit /\ [][ConnectNext]_connectVars

-----------------------------------------------------------------------------
(* Properties                                                               *)

\* Polymarket.from_creds: the key of the row must control the address of the
\* row, else WalletMismatchError.
ClientBuilds(w) == accounts[w].signer = w

\* The types, and: the active account is connected, a step that asks for the
\* key of a proxy has its funder, and only the key steps hold a key.
ConnectInv ==
    /\ conv \in Steps \cup {"none"}
    /\ state \in [sig : SigTypes, funder : Addresses \cup {NoAddress}, key : Keys \cup {NoKey}]
    /\ accounts \in [Addresses -> [signer : Addresses \cup {NoAddress}, sig : SigTypes,
                               funder : Addresses \cup {NoAddress}]]
    /\ active \in Stored \cup {NoActive}
    /\ state.sig \in ProxyTypes /\ AtKey => state.funder # NoAddress

\* However the buttons of earlier steps are used, a proxy or Safe account is
\* stored with the funder it was given and under its address, an account
\* without a funder under the address its key controls, and then a trading
\* client can be built for it (_PROXY_TYPES, conn_nav, validate_and_derive).
RowsAreConsistent ==
    \A w \in Stored :
        /\ accounts[w].sig \in ProxyTypes => accounts[w].funder # NoAddress
        /\ accounts[w].funder # NoAddress => accounts[w].funder = w
        /\ accounts[w].funder = NoAddress => ClientBuilds(w)

\* A key that enter_key leaves in user_data, where the announcement of the
\* validation raises (connect.py:224), goes with the next key, with a step back
\* to the type, or at the latest when the conversation ends, by whatever exit.
KeyEndsWithConversation == conv = "none" => state.key = NoKey
=============================================================================
