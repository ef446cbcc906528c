----------------------------- MODULE OrderDesk -----------------------------
(***************************************************************************)
(* The trading screens and commands of the bot: what a user may look at    *)
(* (bot/handlers/inquiry.py), the lists whose buttons sell a position or   *)
(* cancel an order (positions_ui.py, inquiry.py), the commands with typed  *)
(* arguments (trading.py), and the menu that leads to them (start.py).     *)
(* Each of them ends in a screen or in an intent handed to confirm.py,     *)
(* which OrderFlow describes.  Buttons carry an index into a stash, kept   *)
(* in memory and replaced by the next list.  Sizes are in 10^-6 shares,    *)
(* balances in atomic units.                                               *)
(***************************************************************************)
EXTENDS Integers, Sequences, FiniteSets, SequencesExt

CONSTANTS
    Listings,       \* the lists of positions that Polymarket may answer with
    OrderLists,     \* the lists of open orders
    Cap,            \* _MANAGE_CAP
    Balances,       \* the balances that Polymarket may answer with
    Dollar,         \* atomic units of a dollar: 10^6
    MaxLists        \* bound: lists that replace a stash

None == "none"
Percentages == {25, 50, 75, 100}
Tokens == {row.token : row \in UNION {Range(l) : l \in Listings}} \ {None}

ASSUME DeskAssumption ==
    /\ \A l \in Listings : l \in Seq(Range(l)) /\ \A row \in Range(l) : row.size \in Nat
    /\ \A l \in OrderLists : l \in Seq(Range(l))
    /\ Balances \subseteq Nat /\ Cap \in Nat \ {0} /\ Dollar \in Nat \ {0} /\ MaxLists \in Nat

VARIABLES
    account,        \* the default account: none, one that can only be read, one that signs
    pos_tokens,     \* user_data: the rows behind the buttons of positions
    open_orders,    \* user_data: the ids behind the buttons of orders
    behind,         \* the number of the list behind each stash
    messages,       \* the lists in the chat, with the index each button carries
    last            \* what the last update ended in: a screen, or an intent
                    \* handed to confirm.request and the button it came from

deskVars == <<account, pos_tokens, open_orders, behind, messages, last>>
stashes == <<pos_tokens, open_orders, behind, messages>>

NoTap == [line |-> 0]

DeskInit ==
    /\ account = None /\ pos_tokens = <<>> /\ open_orders = <<>> /\ messages = {}
    /\ behind = [positions |-> 0, orders |-> 0]
    /\ last = [reply |-> None]

Screen(r) == last' = [reply |-> r]
Request(i, tap) == last' = [reply |-> "confirm", intent |-> i, tap |-> tap]

-----------------------------------------------------------------------------
(* Looking.                                                                 *)

\* Reading needs an account, signing one that can sign; either may fail.
Refusals(client) ==
    CASE account = None -> {"no_account"}
      [] account = "view" /\ client = "trading" -> {"unavailable"}
      [] OTHER -> {"error"}

CanUse(client) == account = "signs" \/ (account = "view" /\ client = "readonly")

View(client, screens) ==
    /\ \E r \in Refusals(client) \cup (IF CanUse(client) THEN screens ELSE {}) : Screen(r)
    /\ UNCHANGED <<account, stashes>>

Portfolio == View("readonly", {"shown"})
Positions == View("readonly", {"empty", "shown"})
Trades == View("readonly", {"empty", "shown"})
ActivityLog == View("readonly", {"empty", "shown"})
RenderPrice == View("readonly", {"shown"})
RenderBook == View("readonly", {"empty", "shown"})

\* Divided when it looks like atomic units, taken for dollars otherwise; the
\* result in atomic units again.
ParseAtomicUsdc(raw) == IF raw > Dollar THEN raw ELSE raw * Dollar

ShowBalance ==
    /\ CanUse("trading")
    /\ \E raw \in Balances : last' = [reply |-> "balance", shown |-> ParseAtomicUsdc(raw)]
    /\ UNCHANGED <<account, stashes>>

Balance == ShowBalance \/ View("trading", {})

\* The tiles that only show something.
Tile ==
    /\ Screen("shown")
    /\ UNCHANGED <<account, stashes>>

\* menu:refresh falls back to a dashboard without a balance.
RefreshDashboard == ShowBalance \/ Tile

-----------------------------------------------------------------------------
(* Positions: a list of rows, each with buttons 25 %, 50 %, 75 %, close.    *)

Usable(row) == row.token # None /\ row.size > 0

\* The k-th of a set of places.
Place(S, k) == CHOOSE i \in S : Cardinality({j \in S : j < i}) = k - 1

\* The rows that get buttons.
Shown(list) ==
    LET rows == {i \in DOMAIN list : Usable(list[i])}
        count == Cardinality(rows)
    IN [k \in 1..(IF count < Cap THEN count ELSE Cap) |-> list[Place(rows, k)]]

\* Mutant: a button carries the place of its row in the answer.
ListButtonsMutant(list) ==
    LET rows == Shown(list)
    IN [k \in 1..Len(rows) |-> CHOOSE i \in 1..Len(list) : list[i] = rows[k]]

\* A button carries the number of rows before its own.
ListButtons(list) == [k \in 1..Len(Shown(list)) |-> k]

\* The stash is replaced first; the screen may then fail.
Manage ==
    \/ View("readonly", {"empty"})
    \/ \E list \in Listings, sent \in BOOLEAN :
          /\ CanUse("readonly") /\ behind.positions + behind.orders < MaxLists /\ Shown(list) # <<>>
          /\ pos_tokens' = Shown(list) /\ behind' = [behind EXCEPT !.positions = @ + 1]
          /\ Screen(IF sent THEN "shown" ELSE "error")
          /\ messages' = messages \cup
                (IF sent THEN {[kind |-> "positions", no |-> behind'.positions, lines |-> Shown(list),
                                buttons |-> ListButtons(list)]} ELSE {})
          /\ UNCHANGED <<account, open_orders>>

\* from_stash, and what is answered when the index is not there.
Tap(stash, m, k, pct, Asked(_)) ==
    /\ IF m.buttons[k] \in DOMAIN stash
       THEN Request(Asked(stash[m.buttons[k]]), [message |-> m, line |-> k, pct |-> pct])
       ELSE Screen("expired")
    /\ UNCHANGED <<account, stashes>>

\* Mutant: rounded up to whole shares.
PartMutant(size, pct) == ((size * pct + 99999999) \div 100000000) * 1000000

\* round(size * pct / 100, 6), half to even left open.
Part(size, pct) == (size * pct + 50) \div 100

Sale(row, pct) ==
    IF pct >= 100 THEN [kind |-> "close", token |-> row.token, amount |-> row.size]
                  ELSE [kind |-> "market", token |-> row.token, amount |-> Part(row.size, pct)]

\* on_position_action: any button of any list still in the chat.
OnPositionAction(m, k, pct) ==
    m.kind = "positions" /\ Tap(pos_tokens, m, k, pct, LAMBDA row : Sale(row, pct))

-----------------------------------------------------------------------------
(* Open orders: a list with a button for each, and one that cancels all.    *)

\* A command sends a new list, a button edits the message it is on.
Orders(edited) ==
    \/ View("trading", {"empty"})
    \/ \E list \in OrderLists, sent \in BOOLEAN :
          /\ CanUse("trading") /\ behind.positions + behind.orders < MaxLists /\ list # <<>>
          /\ open_orders' = list /\ behind' = [behind EXCEPT !.orders = @ + 1]
          /\ Screen(IF sent THEN "shown" ELSE "error")
          /\ messages' = IF sent THEN (messages \ edited) \cup
                              {[kind |-> "orders", no |-> behind'.orders, lines |-> list,
                                buttons |-> [k \in 1..Len(list) |-> k]]}
                         ELSE messages
          /\ UNCHANGED <<account, pos_tokens>>

Cancellation(id) == [kind |-> "cancel", order_id |-> id]

\* on_order_cancel.
OnOrderCancel(m, k) ==
    m.kind = "orders" /\ Tap(open_orders, m, k, 100, Cancellation)

CancelAll ==
    /\ Request([kind |-> "cancel_all"], NoTap)
    /\ UNCHANGED <<account, stashes>>

-----------------------------------------------------------------------------
(* Typed commands.  A number is known by its place among the limits; nan    *)
(* compares false with everything.                                          *)

Numbers == {"text", "nan", "inf", "negative", "zero", "fraction", "half", "thousand", "more"}
NotPositive == {"negative", "zero"}

\* What is not a number, or is out of bounds, is answered with an error.
Refuse == Screen("refused") /\ UNCHANGED <<account, stashes>>

\* /buy and /sell: the price is a probability, the size is not <= 0.
Limit(side, price, size) ==
    /\ price \in {"fraction", "half"} /\ size \notin {"text"} \cup NotPositive
    /\ Request([kind |-> "limit", side |-> side, price |-> price, size |-> size], NoTap)
    /\ UNCHANGED <<account, stashes>>

\* /marketbuy and /marketsell.
Market(side, amount) ==
    /\ amount \notin {"text", "nan", "inf"} \cup NotPositive
    /\ side = "buy" => amount \in {"half", "thousand"}
    /\ Request([kind |-> "market", side |-> side, size |-> amount], NoTap)
    /\ UNCHANGED <<account, stashes>>

\* The first row of that token decides, whatever its size.
FirstOf(list, token) == SelectInSeq(list, LAMBDA row : row.token = token)

\* /close <token>: from a list of its own.
Close(token) ==
    \/ View("readonly", {})
    \/ \E list \in Listings :
          LET at == FirstOf(list, token) IN
          /\ CanUse("readonly")
          /\ IF at = 0 \/ list[at].size = 0 THEN Screen("empty")
                                            ELSE Request(Sale(list[at], 100), NoTap)
          /\ UNCHANGED <<account, stashes>>

\* /cancel <id>.
CancelCommand(id) == Request(Cancellation(id), NoTap) /\ UNCHANGED <<account, stashes>>

Ids == UNION {Range(l) : l \in OrderLists}

\* A command without its arguments is answered with its usage; /close and
\* /marketsell with the list of positions.
Commands ==
    \/ Tile \/ Manage \/ Orders({}) \/ CancelAll \/ Refuse
    \/ \E side \in {"buy", "sell"}, n \in Numbers : Market(side, n) \/ \E p \in Numbers : Limit(side, p, n)
    \/ \E t \in Tokens : Close(t)
    \/ \E id \in Ids : CancelCommand(id)

OnInq == Portfolio \/ Positions \/ Balance \/ Trades \/ ActivityLog \/ \E m \in messages : Orders({m})

OnMenu == RefreshDashboard \/ Tile

Taps == \E m \in messages : \E k \in 1..Len(m.lines) :
           OnOrderCancel(m, k) \/ \E pct \in Percentages : OnPositionAction(m, k, pct)

\* Another account becomes the default one; the stashes stay.
SwitchAccount(a) ==
    /\ a # account /\ account' = a /\ last' = [reply |-> None]
    /\ UNCHANGED stashes

\* The memory of the bot is lost, the messages are not.
DeskRestart ==
    /\ pos_tokens' = <<>> /\ open_orders' = <<>> /\ last' = [reply |-> None]
    /\ UNCHANGED <<account, behind, messages>>

DeskNext ==
    \/ Commands \/ OnInq \/ OnMenu \/ Taps \/ RenderPrice \/ RenderBook \/ DeskRestart
    \/ \E a \in {None, "view", "signs"} : SwitchAccount(a)

DeskSpec == DeskInit /\ [][DeskNext]_deskVars

-----------------------------------------------------------------------------

Tapped(kind) == last.reply = "confirm" /\ last.tap # NoTap /\ last.tap.message.kind = kind
Line == last.tap.message.lines[last.tap.line]
OfTheNewest == last.tap.message.no = behind[last.tap.message.kind]

\* The shape of the state; what a button sells, be its list old or new, is one
\* row that Polymarket answered with, never more than it held, and all of it
\* only when asked to close.
DeskInv ==
    /\ account \in {None, "view", "signs"} /\ \A k \in DOMAIN behind : behind[k] \in 0..MaxLists
    /\ \A m \in messages : m.no \in 1..behind[m.kind] /\ DOMAIN m.buttons = DOMAIN m.lines
    /\ Tapped("positions") =>
          \E l \in Listings : \E row \in Range(l) :
             /\ row.token = last.intent.token /\ last.intent.amount <= row.size
             /\ (last.intent.kind = "close" <=> last.tap.pct = 100)

\* A button of the newest list acts on the line it stands next to, rows without
\* a token or a size notwithstanding: its order, or its position and the part
\* of it that the button names to half of a millionth.
TapsMeanTheirLine ==
    /\ Tapped("orders") /\ OfTheNewest => last.intent.order_id = Line
    /\ Tapped("positions") /\ OfTheNewest =>
          /\ last.intent.token = Line.token
          /\ 100 * last.intent.amount - Line.size * last.tap.pct \in -50..50
=============================================================================
