------------------------------ MODULE BetFunnel ------------------------------
(***************************************************************************)
(* From a market to a confirmation prompt, for one user of the bot: the    *)
(* buttons of market lists (bot/handlers/discover.py), the bet links of    *)
(* channel posts (start.py), the intents they leave in the database for a  *)
(* user without a wallet and the resumption after connecting (connect.py,  *)
(* db/repositories/pending_intents.py).  Messages outlive the bot process, *)
(* user_data does not.  Updates of a user are handled one after another;   *)
(* the cleanup job runs between the awaits of a handler.                   *)
(***************************************************************************)
EXTENDS Integers, Sequences, FiniteSets

CONSTANTS
    Markets,
    Lists,          \* the lists of markets that Polymarket may return
    Panels,         \* the markets opened by their id (/market, posts without bets)
    Links,          \* the bet buttons of channel posts, one per outcome
    Outcome,        \* per link: the market and the side it bets on
    Accounts,       \* wallets the user may connect
    NoMarket, NoLink, NoAccount,
    Ttl,            \* news_intent_ttl_hours, in ticks of the clock
    MaxGen,         \* bound: lists and pickers shown by the first process, one
                    \* fewer by each later one
    MaxPrompts,     \* bound: prompts that wait for an answer
    MaxRestarts     \* bound: restarts of the bot

Sides == {"yes", "no"}

\* Of the constants; also assumed where the module is instantiated.
BetFunnelAssumption ==
    /\ Lists \subseteq Seq(Markets) /\ Panels \subseteq Markets /\ NoMarket \notin Markets
    /\ Outcome \in [Links -> Markets \X Sides] /\ NoLink \notin Links
    /\ NoAccount \notin Accounts
    /\ {Ttl, MaxGen, MaxPrompts, MaxRestarts} \subseteq Nat

ASSUME FunnelConstants == BetFunnelAssumption

VARIABLES
    epoch,      \* how often the bot was restarted
    data,       \* context.user_data of the user
    sent,       \* the buttons in the chat and what their messages showed
    prompts,    \* confirmation prompts of this process, not yet answered
    accts,      \* the user's connected wallets
    intents,    \* pending_intents: one row per link, which is its key
    offered,    \* links whose intent was shown as a picker or a prompt
    resuming    \* the resumption after connecting: its phase and its link

vars == <<epoch, data, sent, prompts, accts, intents, offered, resuming>>

NoBet == [gen |-> 0, link |-> NoLink, pid |-> NoLink, account |-> NoAccount]
Fresh == [gen |-> 0, mkts |-> <<>>, bet |-> NoBet, awaiting |-> {}, late |-> FALSE, armed |-> FALSE]
Idle == [pc |-> "idle", link |-> NoLink]
NoRow == [status |-> "none", id |-> 0, left |-> 0]

Init == /\ epoch = 0 /\ data = Fresh
        /\ sent = {} /\ prompts = {} /\ accts = {}
        /\ intents = [l \in Links |-> NoRow]
        /\ offered = {} /\ resuming = Idle

-----------------------------------------------------------------------------
(* Buttons: the callback data is gen and idx (and account for the wallet    *)
(* picker); market and link are what the message showed.                    *)

Button(kind, gen, idx, market, link, account) ==
    [kind |-> kind, epoch |-> epoch, gen |-> gen, idx |-> idx,
     market |-> market, link |-> link, account |-> account]

\* Mutant: the list is taken without comparing the generation.
ResolveMutant(d, gen, idx) == IF idx \in DOMAIN d.mkts THEN d.mkts[idx] ELSE NoMarket

Resolve(d, gen, idx) ==
    IF d.gen = gen /\ idx \in DOMAIN d.mkts THEN d.mkts[idx] ELSE NoMarket

\* A new generation of the list.
NewList(mkts) == [data EXCEPT !.gen = @ + 1, !.mkts = mkts]

ShowMarkets(mkts) ==
    /\ resuming = Idle /\ data.gen < MaxGen - epoch
    /\ data' = NewList(mkts)
    /\ sent' = sent \cup {Button("list", data.gen + 1, i, mkts[i], NoLink, NoAccount) : i \in DOMAIN mkts}
    /\ UNCHANGED <<epoch, prompts, accts, intents, offered, resuming>>

\* /market and the post of an item without bet buttons: the panel at once.
ShowMarketById(m) ==
    /\ resuming = Idle /\ data.gen < MaxGen - epoch
    /\ data' = NewList(<<m>>)
    /\ sent' = sent \cup {Button("amounts", data.gen + 1, 1, m, NoLink, NoAccount)}
    /\ UNCHANGED <<epoch, prompts, accts, intents, offered, resuming>>

\* A market of a list is opened and a side chosen: the message is edited and
\* shows the amounts under the title of the market the buttons resolve to.
OpenMarket(b) ==
    LET m == Resolve(data, b.gen, b.idx)
    IN /\ resuming = Idle /\ b \in sent /\ b.kind \in {"list", "amounts"}
       /\ m # NoMarket
       /\ sent' = sent \cup {[b EXCEPT !.kind = "amounts", !.market = m]}
       /\ UNCHANGED <<epoch, data, prompts, accts, intents, offered, resuming>>

-----------------------------------------------------------------------------
(* The prompt.                                                              *)

\* Mutant: any bet in the stash makes it a news bet.
IsNewsMutant(d, gen) == d.bet.gen > 0

IsNews(d, gen) == d.bet.gen = gen

\* The prompt a tap on button b leads to.  news: it carries the item, the
\* intent and the wallet of the funnel.
Prompt(d, b, side) ==
    LET bet == IF IsNews(d, b.gen) THEN d.bet ELSE NoBet
    IN [button |-> b, market |-> Resolve(d, b.gen, b.idx), side |-> side,
        link |-> bet.link, pid |-> bet.pid, account |-> bet.account]

\* A news bet looks its market up again, which may be closed by now.
MayPlace(d, b, placed) == IF placed THEN Resolve(d, b.gen, b.idx) # NoMarket
                          ELSE Resolve(d, b.gen, b.idx) = NoMarket \/ IsNews(d, b.gen)

PlaceBetAmount(d, b, side, placed) ==
    /\ MayPlace(d, b, placed)
    /\ placed => Cardinality(prompts) < MaxPrompts
    /\ data' = d
    /\ prompts' = IF placed THEN prompts \cup {Prompt(d, b, side)} ELSE prompts

OnBuyAmount(b, side) ==
    /\ resuming = Idle /\ b \in sent /\ b.kind = "amounts"
    /\ \E placed \in BOOLEAN : PlaceBetAmount(data, b, side, placed)
    /\ UNCHANGED <<epoch, sent, accts, intents, offered, resuming>>

\* The next text message is to be the amount.
OnBuyCustom(b, side) ==
    /\ resuming = Idle /\ b \in sent /\ b.kind = "amounts"
    /\ Resolve(data, b.gen, b.idx) # NoMarket
    /\ data' = [data EXCEPT !.awaiting = {<<b, side>>}, !.late = FALSE]
    /\ UNCHANGED <<epoch, sent, prompts, accts, intents, offered, resuming>>

\* More than _CUSTOM_TTL seconds pass.
CustomLate ==
    /\ data.awaiting # {} /\ ~data.late
    /\ data' = [data EXCEPT !.late = TRUE]
    /\ UNCHANGED <<epoch, sent, prompts, accts, intents, offered, resuming>>

\* A text message: the capture is dropped first, whatever the text is.
OnCustomAmount(valid) ==
    LET d == [data EXCEPT !.awaiting = {}, !.late = FALSE]
    IN /\ resuming = Idle
       /\ \E t \in data.awaiting :
             \/ /\ data.late \/ ~valid
                /\ data' = d /\ prompts' = prompts
             \/ /\ ~data.late /\ valid
                /\ \E placed \in BOOLEAN : PlaceBetAmount(d, t[1], t[2], placed)
       /\ UNCHANGED <<epoch, sent, accts, intents, offered, resuming>>

-----------------------------------------------------------------------------
(* The funnel of a news bet.                                                *)

\* Mutant: a wallet picked for an earlier bet is kept.
EnterBetMutant(l, pid) ==
    [NewList(<<Outcome[l][1]>>) EXCEPT
        !.awaiting = {}, !.late = FALSE,
        !.bet = [gen |-> data.gen + 1, link |-> l, pid |-> pid, account |-> data.bet.account]]

EnterBet(l, pid) ==
    [NewList(<<Outcome[l][1]>>) EXCEPT
        !.awaiting = {}, !.late = FALSE,
        !.bet = [gen |-> data.gen + 1, link |-> l, pid |-> pid, account |-> NoAccount]]

\* With several wallets a picker is shown, else the prompt; listing them may
\* fail.  shown: whether either was.
ShowMarketForBet(l, pid, shown) ==
    \/ /\ ~shown \* closed or unavailable
       /\ UNCHANGED <<data, sent, prompts>>
    \/ LET d == EnterBet(l, pid)
           button(a) == Button("picker", d.gen, 1, Outcome[l][1], l, a)
       IN /\ data.gen < MaxGen - epoch
          /\ \E listed \in {accts, {}} :
                \/ /\ Cardinality(listed) > 1 /\ shown
                   /\ data' = d /\ prompts' = prompts
                   /\ sent' = sent \cup {button(a) : a \in listed}
                \/ /\ Cardinality(listed) <= 1
                   /\ PlaceBetAmount(d, button(NoAccount), Outcome[l][2], shown)
                   /\ sent' = sent

\* The tap of a link by a user who has a wallet.
OpenNewsBet(l) ==
    /\ resuming = Idle /\ accts # {}
    /\ \E shown \in BOOLEAN : ShowMarketForBet(l, NoLink, shown)
    /\ UNCHANGED <<epoch, accts, intents, offered, resuming>>

Rows == {l \in Links : intents[l].status # "none"}

UpsertIntent(l) ==
    LET id == IF l \in Rows THEN intents[l].id ELSE Cardinality(Rows) + 1
    IN [intents EXCEPT ![l] = [status |-> "pending", id |-> id, left |-> Ttl]]

\* The tap of a link by a user who has none: the intent is stored, which may
\* fail, and the resumption is armed in either case.
DeferNewsBet(l) ==
    /\ resuming = Idle /\ accts = {}
    /\ \/ intents' = UpsertIntent(l) /\ offered' = offered \ {l}
       \/ UNCHANGED <<intents, offered>>
    /\ data' = [data EXCEPT !.armed = TRUE]
    /\ UNCHANGED <<epoch, sent, prompts, accts, resuming>>

\* A wallet is picked; it must still be connected.
OnBetAccount(b) ==
    LET d == [data EXCEPT !.bet.account = b.account]
    IN /\ resuming = Idle /\ b \in sent /\ b.kind = "picker"
       /\ IsNews(data, b.gen) /\ Resolve(data, b.gen, 1) # NoMarket
       /\ b.account \in accts
       /\ \E placed \in BOOLEAN : PlaceBetAmount(d, b, Outcome[data.bet.link][2], placed)
       /\ UNCHANGED <<epoch, sent, accts, intents, offered, resuming>>

-----------------------------------------------------------------------------
(* Connecting, and the bet resumed by it.                                   *)

BeginConnect ==
    /\ resuming = Idle
    /\ data' = [data EXCEPT !.awaiting = {}, !.late = FALSE]
    /\ UNCHANGED <<epoch, sent, prompts, accts, intents, offered, resuming>>

LivePending == {l \in Links : intents[l].status = "pending" /\ intents[l].left > 0}
LatestPending == CHOOSE l \in LivePending : \A k \in LivePending : intents[k].id <= intents[l].id

Connected(a) ==
    /\ resuming = Idle
    /\ accts' = accts \cup {a}
    /\ data' = [data EXCEPT !.armed = FALSE]
    /\ resuming' = IF data.armed /\ LivePending # {}
                   THEN [pc |-> "show", link |-> LatestPending] ELSE Idle
    /\ UNCHANGED <<epoch, sent, prompts, intents, offered>>

\* Mutant: the intent is marked even if nothing was shown.
AfterShowMutant(shown) == [resuming EXCEPT !.pc = "mark"]

AfterShow(shown) == IF shown THEN [resuming EXCEPT !.pc = "mark"] ELSE Idle

ResumeShow ==
    /\ resuming.pc = "show"
    /\ \E shown \in BOOLEAN :
          /\ ShowMarketForBet(resuming.link, resuming.link, shown)
          /\ offered' = IF shown THEN offered \cup {resuming.link} ELSE offered
          /\ resuming' = AfterShow(shown)
    /\ UNCHANGED <<epoch, accts, intents>>

ResumeMark ==
    /\ resuming.pc = "mark"
    /\ intents' = [intents EXCEPT ![resuming.link].status = "resumed"]
    /\ resuming' = Idle
    /\ UNCHANGED <<epoch, data, sent, prompts, accts, offered>>

Disconnected(a) ==
    /\ resuming = Idle /\ a \in accts
    /\ accts' = accts \ {a}
    /\ UNCHANGED <<epoch, data, sent, prompts, intents, offered, resuming>>

\* A prompt is answered (OrderFlow has the whole of it).
Answer(p, placed) ==
    /\ resuming = Idle /\ p \in prompts
    /\ placed => accts # {}
    /\ prompts' = prompts \ {p}
    /\ intents' = IF placed /\ p.pid # NoLink
                  THEN [intents EXCEPT ![p.pid].status = "fulfilled"] ELSE intents
    /\ UNCHANGED <<epoch, data, sent, accts, offered, resuming>>

-----------------------------------------------------------------------------
(* Time and restarts.                                                       *)

Tick ==
    /\ \E l \in Links : intents[l].left > 0
    /\ intents' = [l \in Links |-> [intents[l] EXCEPT !.left = IF @ > 0 THEN @ - 1 ELSE 0]]
    /\ UNCHANGED <<epoch, data, sent, prompts, accts, offered, resuming>>

\* Mutant: only intents that were never resumed are reaped.
StaleMutant(l) == intents[l].status = "pending" /\ intents[l].left = 0

Stale(l) == intents[l].status \in {"pending", "resumed"} /\ intents[l].left = 0

\* news_intents_cleanup_job, hourly.
ExpireStale ==
    /\ \E l \in Links : Stale(l)
    /\ intents' = [l \in Links |-> IF Stale(l) THEN [intents[l] EXCEPT !.status = "expired"] ELSE intents[l]]
    /\ UNCHANGED <<epoch, data, sent, prompts, accts, offered, resuming>>

Restart ==
    /\ epoch < MaxRestarts
    /\ epoch' = epoch + 1
    /\ data' = Fresh /\ prompts' = {} /\ resuming' = Idle
    /\ UNCHANGED <<sent, accts, intents, offered>>

Next ==
    \/ \E mkts \in Lists : ShowMarkets(mkts)
    \/ \E m \in Panels : ShowMarketById(m)
    \/ \E b \in sent : OpenMarket(b) \/ OnBetAccount(b)
    \/ \E b \in sent, side \in Sides : OnBuyAmount(b, side) \/ OnBuyCustom(b, side)
    \/ CustomLate
    \/ \E valid \in BOOLEAN : OnCustomAmount(valid)
    \/ \E l \in Links : OpenNewsBet(l) \/ DeferNewsBet(l)
    \/ BeginConnect
    \/ \E a \in Accounts : Connected(a) \/ Disconnected(a)
    \/ ResumeShow \/ ResumeMark
    \/ \E p \in prompts, placed \in BOOLEAN : Answer(p, placed)
    \/ Tick \/ ExpireStale \/ Restart

\* The job queue runs the cleanup every hour.
Fairness == WF_vars(ExpireStale)

Spec == Init /\ [][Next]_vars /\ Fairness

-----------------------------------------------------------------------------
(* Properties                                                               *)

IntentStatus == {"none", "pending", "resumed", "fulfilled", "expired"}
Buttons == [kind : {"list", "amounts", "picker"}, epoch : Nat, gen : Nat \ {0}, idx : Nat, market : Markets,
            link : Links \cup {NoLink}, account : Accounts \cup {NoAccount}]
StashedBets == [gen : Nat, link : Links \cup {NoLink}, pid : Links \cup {NoLink}, account : Accounts \cup {NoAccount}]

\* The types; a text message that is awaited is of an amounts button.
FunnelTypes ==
    /\ epoch \in 0 .. MaxRestarts /\ sent \subseteq Buttons
    /\ data \in [gen : 0 .. MaxGen, mkts : Seq(Markets), bet : StashedBets, awaiting : SUBSET (Buttons \X Sides),
                late : BOOLEAN, armed : BOOLEAN]
    /\ data.awaiting \subseteq {b \in sent : b.kind = "amounts"} \X Sides /\ Cardinality(data.awaiting) <= 1
    /\ accts \subseteq Accounts /\ offered \subseteq Links
    /\ intents \in [Links -> [status : IntentStatus, id : Nat, left : Nat]]

\* A button of this process is of a list no newer than user_data's; if of that
\* list, its line has the market shown; only pickers are of a bet, and theirs is
\* the one user_data has for the generation.
ButtonInv(d, b) ==
    /\ b.gen <= d.gen
    /\ b.gen = d.gen /\ b.idx \in DOMAIN d.mkts => d.mkts[b.idx] = b.market
    /\ b.kind # "picker" => b.gen # d.bet.gen /\ b.link = NoLink /\ b.account = NoAccount
    /\ b.kind = "picker" => b.link \in Links /\ b.market = Outcome[b.link][1]
    /\ b.kind = "picker" /\ b.gen = d.bet.gen => b.link = d.bet.link

ChatInv ==
    /\ data.bet.gen <= data.gen
    /\ \A b \in sent : b.epoch <= epoch /\ (b.epoch = epoch => ButtonInv(data, b))

\* The intents are numbered without gaps, so that the newest row is well defined;
\* bets, prompts and resumptions name rows that exist, and one that is to be
\* marked was shown.
IntentsInv ==
    /\ IsFiniteSet(Rows) /\ {intents[l].id : l \in Rows} = 1 .. Cardinality(Rows)
    /\ {data.bet.pid} \cup {p.pid : p \in prompts} \subseteq Rows \cup {NoLink}
    /\ resuming.pc # "idle" => resuming.link \in Rows
    /\ resuming.pc = "mark" => resuming.link \in offered

FunnelInv == FunnelTypes /\ ChatInv /\ IntentsInv

\* A prompt is for the market, the news item and the wallet that the message
\* with the tapped button showed, however many lists, funnels and wallet
\* changes came between, if the bot was not restarted since (the guard of
\* _resolve and of the news bet's generation).
TapsMeanWhatWasShown ==
    \A p \in prompts : p.button.epoch = epoch =>
        /\ p.market = p.button.market
        /\ p.link = p.button.link
        /\ p.account = p.button.account

\* A news bet is for the outcome of its link: the market and the side.
NewsBetsKeepTheirOutcome ==
    \A p \in prompts : p.link # NoLink /\ p.button.epoch = epoch =>
        <<p.market, p.side>> = Outcome[p.link]

\* Both: a tap means what its message showed, whatever came between, as long as
\* the bot runs.
ButtonsKeepTheirMeaning == TapsMeanWhatWasShown /\ NewsBetsKeepTheirOutcome

\* The docstring of discover.py: "the generation guard guarantees a Buy can
\* never resolve against a stale list (which would mean betting on the wrong
\* market)".
BuyNeverResolvesStale == \A p \in prompts : p.market = p.button.market

\* An intent is marked resumed only after its picker or prompt was shown, so
\* that it is not orphaned (_resume_news_bet).
ResumedWereShown == \A l \in Links : intents[l].status = "resumed" => l \in offered

\* No intent stays pending or resumed past its time to live.
Overdue(l) == intents[l].left = 0 /\ intents[l].status \in {"pending", "resumed"}
StaleIntentsEnd == \A l \in Links : Overdue(l) ~> ~Overdue(l)
=============================================================================
