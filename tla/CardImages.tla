----------------------------- MODULE CardImages -----------------------------
(***************************************************************************)
(* Generated images and texts and what they may cost: the Mini App fills   *)
(* in the images of its categories and the welcome banner when it starts   *)
(* (webapp/sync.py, core/gemini.py), the bot has news texts written        *)
(* (core/claude_text.py), both charge one ledger, and administrators       *)
(* upload, drop and hide images meanwhile (dashboard/repo.py).  The banner *)
(* is the member Welcome of Cards.                                         *)
(***************************************************************************)
EXTENDS Integers, Sequences, FiniteSets

CONSTANTS
    Deck,           \* the categories of Polymarket, in the order images are made
    Welcome,        \* the welcome banner
    ImageCost,      \* settings.gemini_image_cost_usd
    TextCosts,      \* what the provider may report for one text
    Budgets,        \* the weekly image budgets an administrator sets
    Providers,      \* who may write the texts: settings.news_text_provider
    TextBudget,     \* the weekly text budget, 0 for none
    Week,           \* seven days, in ticks
    Attempts,       \* how often _call_gemini_image tries
    MaxCardClock, MaxTexts, MaxCardActs, MaxCrashes, MaxPaid  \* bounds

Categories == {Deck[i] : i \in 1..Len(Deck)}
Cards == Categories \cup {Welcome}

Unset == "none"

ASSUME CardsAssumption ==
    /\ Deck \in Seq(Categories) /\ \A i, j \in DOMAIN Deck : Deck[i] = Deck[j] => i = j
    /\ Welcome \notin Categories /\ Unset \notin Cards
    /\ ImageCost \in Nat \ {0} /\ TextCosts \subseteq Nat
    /\ Budgets \subseteq Nat /\ Budgets # {}
    /\ Providers \subseteq {"claude", "gemini"} /\ Attempts \in Nat \ {0}
    /\ {TextBudget, Week, MaxCardClock, MaxTexts, MaxCardActs, MaxCrashes, MaxPaid} \subseteq Nat

VARIABLES
    cardNow, cardActs, crashes,
    budget,         \* app_config: the weekly image budget
    usage,          \* gemini_usage: per kind, what was charged in the week from each time on
    cardRows,       \* categories, and the banner's path
    files,          \* the cached files of a card, by extension
    todo,           \* the snapshot of the batch: the categories that are left
    pc, card, made, \* the background task of the Mini App; the file it has written
    attempt,        \* of the call to Google
    uploading,      \* uploads whose file is written and whose row is not
    texts,          \* how many texts were asked for
    \* history
    topBudget,      \* the highest budget so far
    paid,           \* images that Google made
    recorded        \* image rows of the ledger, those at no cost included

admin == <<cardActs, budget, uploading, topBudget>>
task == <<todo, pc, card, made, attempt, paid, recorded, crashes>>
store == <<usage, cardRows, files>>
cardsVars == <<cardNow, texts, admin, task, store>>

Exts == {"png", "jpg"}
Kinds == {"image", "text"}
CardRow == [status : {Unset, "ready", "failed"}, path : {Unset} \cup Exts, hidden : BOOLEAN]
NewCard == [status |-> Unset, path |-> Unset, hidden |-> FALSE]

CardsInit ==
    /\ cardNow = 0 /\ cardActs = 0 /\ crashes = 0 /\ budget \in Budgets /\ topBudget = budget
    /\ usage = [k \in Kinds |-> [t \in 0..MaxCardClock |-> 0]]
    /\ cardRows = [c \in Cards |-> NewCard] /\ files = [c \in Cards |-> {}]
    /\ todo = {} /\ pc = "down" /\ card = Unset /\ made = Unset /\ attempt = 0
    /\ uploading = {} /\ texts = 0 /\ paid = 0 /\ recorded = 0

-----------------------------------------------------------------------------
(* The ledger.                                                              *)

\* Mutant: the start of the window is left out.
SpentMutant(kind) == usage[kind][IF cardNow < Week THEN 0 ELSE cardNow - Week + 1]

\* weekly_image_spend, weekly_text_spend: a rolling window, which ends now.
Spent(kind) == usage[kind][IF cardNow < Week THEN 0 ELSE cardNow - Week]

\* weekly_spend, which the batch asks: of every kind.
SpentAtAll == Spent("image") + Spent("text")

\* A row of the ledger counts in every week it falls into.
Charge(kind, cost) ==
    usage' = [usage EXCEPT ![kind] = [s \in 0..MaxCardClock |->
                 IF s <= cardNow /\ cardNow <= s + Week THEN @[s] + cost ELSE @[s]]]

\* Mutant: the next image is not counted.
AffordableMutant == Spent("image") <= budget

\* generate_image: the next image must fit.
Affordable == Spent("image") + ImageCost <= budget

-----------------------------------------------------------------------------
(* The background task of the Mini App, once per start of the process.      *)

\* needing_images: visible, and none or failed.
Needed(c) == ~cardRows[c].hidden /\ cardRows[c].status \in {Unset, "failed"}

\* sync_categories; then the snapshot of the ids.
StartTask ==
    /\ pc = "down" /\ pc' = "batch" /\ todo' = {c \in Categories : Needed(c)}
    /\ UNCHANGED <<cardNow, texts, admin, store, card, made, attempt, paid, recorded, crashes>>

\* generate_pending_images stops at the budget; the banner is next.
StopBatch ==
    /\ pc = "batch" /\ todo # {} /\ SpentAtAll + ImageCost > budget
    /\ todo' = {}
    /\ UNCHANGED <<cardNow, texts, admin, store, pc, card, made, attempt, paid, recorded, crashes>>

Call(c) == pc' = "call" /\ card' = c /\ attempt' = 1

\* generate_category_image for the next id: its row is written, and so locked,
\* until the answer of Google is stored.  The budget of images is asked as well,
\* which is implied here.
BeginCard ==
    /\ pc = "batch" /\ SpentAtAll + ImageCost <= budget
    /\ \E i \in DOMAIN Deck :
          /\ Deck[i] \in todo /\ \A j \in 1..i - 1 : Deck[j] \notin todo
          /\ Call(Deck[i]) /\ todo' = todo \ {Deck[i]}
    /\ UNCHANGED <<cardNow, texts, admin, store, made, paid, recorded, crashes>>

\* generate_welcome_image, unless there is a file.
BeginWelcome ==
    /\ pc = "batch" /\ todo = {} /\ files[Welcome] = {} /\ Affordable
    /\ Call(Welcome)
    /\ UNCHANGED <<cardNow, texts, admin, store, todo, made, paid, recorded, crashes>>

SkipWelcome ==
    /\ pc = "batch" /\ todo = {} /\ (files[Welcome] # {} \/ ~Affordable)
    /\ pc' = "idle"
    /\ UNCHANGED <<cardNow, texts, admin, store, todo, card, made, attempt, paid, recorded, crashes>>

\* The image is there: its file is written before anything is committed.
Generated(x) ==
    /\ pc = "call" /\ pc' = "store" /\ made' = x /\ paid' = paid + 1
    /\ files' = [files EXCEPT ![card] = @ \cup {x}]
    /\ UNCHANGED <<cardNow, texts, admin, usage, cardRows, todo, card, attempt, recorded, crashes>>

\* Mutant: no end to the attempts.
RetriesMutant == attempt' = 1

Retries == attempt' = attempt + 1

\* A transport error, the image made or not: tried again.
Retry(image) ==
    /\ pc = "call" /\ attempt < Attempts /\ paid <= MaxPaid
    /\ Retries /\ paid' = paid + image
    /\ UNCHANGED <<cardNow, texts, admin, store, todo, pc, card, made, recorded, crashes>>

Ended == pc' = (IF card = Welcome THEN "idle" ELSE "batch") /\ card' = Unset /\ made' = Unset /\ attempt' = 0

\* Mutant: only what succeeds is recorded.
LedgerMutant(cost) == Charge("image", cost) /\ recorded' = recorded + (IF cost = 0 THEN 0 ELSE 1)

\* gemini_usage.record.
Ledger(cost) == Charge("image", cost) /\ recorded' = recorded + 1

\* One transaction: the charge, and the path with status ready.
Store ==
    /\ pc = "store" /\ Ended /\ Ledger(ImageCost)
    /\ cardRows' = [cardRows EXCEPT ![card].status = "ready", ![card].path = made]
    /\ UNCHANGED <<cardNow, texts, admin, files, todo, paid, crashes>>

\* No image, or the last attempt failed: recorded at no cost; the banner has no
\* status.
Refused(image) ==
    /\ pc = "call" /\ (image = 1 => attempt = Attempts)
    /\ Ended /\ Ledger(0) /\ paid' = paid + image
    /\ cardRows' = [cardRows EXCEPT ![card].status = IF card = Welcome THEN @ ELSE "failed"]
    /\ UNCHANGED <<cardNow, texts, admin, files, todo, crashes>>

\* The process stops: its transaction is rolled back, what it wrote to disk stays.
CardsCrash ==
    /\ crashes < MaxCrashes /\ pc # "down"
    /\ crashes' = crashes + 1 /\ pc' = "down" /\ card' = Unset /\ made' = Unset /\ attempt' = 0 /\ todo' = {}
    /\ UNCHANGED <<cardNow, texts, admin, store, paid, recorded>>

-----------------------------------------------------------------------------
(* The administrators.  A row being written by the task waits.              *)

CardAct == cardActs < MaxCardActs /\ cardActs' = cardActs + 1
Unlocked(c) == c = Welcome \/ card # c

\* curate_category "hide" and "unhide".
Hide(c) ==
    /\ CardAct /\ c # Welcome /\ Unlocked(c)
    /\ cardRows' = [cardRows EXCEPT ![c].hidden = ~@]
    /\ UNCHANGED <<cardNow, texts, task, usage, files, budget, uploading, topBudget>>

\* The file that welcome_image_file finds first is removed.
WithoutShown ==
    [files EXCEPT ![Welcome] = IF "png" \in @ THEN @ \ {"png"} ELSE {}]

\* curate_category "regen", update_category with regenerate: the row only.  For
\* the banner (set_welcome_prompt) the file goes as well.
Regenerate(c) ==
    /\ CardAct /\ Unlocked(c)
    /\ cardRows' = [cardRows EXCEPT ![c].status = Unset, ![c].path = Unset]
    /\ files' = IF c = Welcome THEN WithoutShown ELSE files
    /\ UNCHANGED <<cardNow, texts, task, usage, budget, uploading, topBudget>>

\* save_category_image, save_welcome_image: the file first, under its png name.
UploadFile(c) ==
    /\ CardAct /\ c \notin uploading
    /\ files' = [(IF c = Welcome THEN WithoutShown ELSE files) EXCEPT ![c] = @ \cup {"png"}]
    /\ uploading' = uploading \cup {c}
    /\ UNCHANGED <<cardNow, texts, task, usage, cardRows, budget, topBudget>>

\* Mutant: the extension that was there is kept.
UploadedMutant(c) == [cardRows EXCEPT ![c].status = "ready", ![c].path = IF @ = Unset THEN "jpg" ELSE @]

Uploaded(c) == [cardRows EXCEPT ![c].status = "ready", ![c].path = "png"]

UploadCommit(c) ==
    /\ c \in uploading /\ Unlocked(c)
    /\ uploading' = uploading \ {c} /\ cardRows' = Uploaded(c)
    /\ UNCHANGED <<cardNow, texts, task, usage, files, cardActs, budget, topBudget>>

\* set_gemini_budget.
SetBudget(b) ==
    /\ CardAct /\ b # budget /\ budget' = b
    /\ topBudget' = IF b > topBudget THEN b ELSE topBudget
    /\ UNCHANGED <<cardNow, texts, task, store, uploading>>

-----------------------------------------------------------------------------
(* The texts of the bot: generate_json (Claude) stops once the budget is    *)
(* spent, generate_text (Gemini) when the next text would not fit.          *)

TextAllowed(provider, cost) ==
    \/ TextBudget = 0
    \/ provider = "claude" /\ Spent("text") < TextBudget
    \/ provider = "gemini" /\ Spent("text") + cost <= TextBudget

WriteText(provider, cost) ==
    /\ texts < MaxTexts /\ texts' = texts + 1
    /\ TextAllowed(provider, cost)
    /\ Charge("text", cost)
    /\ UNCHANGED <<cardNow, admin, task, cardRows, files>>

CardTick ==
    /\ cardNow < MaxCardClock /\ cardNow' = cardNow + 1
    /\ UNCHANGED <<texts, admin, task, store>>

CardsNext ==
    \/ StartTask \/ StopBatch \/ BeginCard \/ BeginWelcome \/ SkipWelcome \/ Store \/ CardsCrash \/ CardTick
    \/ \E x \in Exts : Generated(x)
    \/ \E image \in {0, 1} : Retry(image) \/ Refused(image)
    \/ \E c \in Cards : Hide(c) \/ Regenerate(c) \/ UploadFile(c) \/ UploadCommit(c)
    \/ \E b \in Budgets : SetBudget(b)
    \/ \E p \in Providers, cost \in TextCosts : WriteText(p, cost)

CardsSpec == CardsInit /\ [][CardsNext]_cardsVars

-----------------------------------------------------------------------------

CardsTyped ==
    /\ cardNow \in 0..MaxCardClock /\ cardActs \in 0..MaxCardActs /\ crashes \in 0..MaxCrashes
    /\ budget \in Budgets /\ topBudget \in Budgets /\ cardRows \in [Cards -> CardRow]
    /\ files \in [Cards -> SUBSET Exts]
    /\ usage \in [Kinds -> [0..MaxCardClock -> Nat]] /\ paid \in Nat /\ recorded \in Nat
    /\ todo \subseteq Categories
    /\ pc \in {"down", "batch", "call", "store", "idle"}
    /\ card \in Cards \cup {Unset} /\ made \in Exts \cup {Unset}
    /\ (pc \in {"call", "store"} <=> card # Unset) /\ (pc = "store" <=> made # Unset)
    /\ uploading \subseteq Cards /\ texts \in 0..MaxTexts /\ attempt \in 0..Attempts

\* What was charged since a later time was charged since an earlier one too,
\* while the week of that one lasts.
WeeksNest ==
    \A k \in Kinds : \A s, t \in 0..MaxCardClock :
        s <= t /\ cardNow <= s + Week => usage[k][t] <= usage[k][s]

\* An image under way still fits into every week it may be charged in.
ImageFits ==
    /\ budget <= topBudget
    /\ pc \in {"call", "store"} => \A t \in 0..MaxCardClock :
          cardNow <= t + Week => usage["image"][t] + ImageCost <= topBudget

\* Of each row of the ledger, each crash and the call under way: what it may
\* have cost at Google.
CallsAreCounted ==
    /\ pc = "call" => attempt > 0
    /\ paid <= Attempts * (recorded + crashes)
                + (CASE pc = "call" -> attempt - 1 [] pc = "store" -> Attempts [] OTHER -> 0)

\* A category that shows an image has the file of that image, whoever wrote it
\* last (the files of categories are never removed); and so will have one that
\* is about to.
FilesAreThere ==
    /\ \A c \in Categories : cardRows[c].path # Unset => cardRows[c].path \in files[c]
    /\ pc = "store" /\ card \in Categories => made \in files[card]
    /\ \A c \in uploading \cap Categories : "png" \in files[c]

CardsInv == CardsTyped /\ WeeksNest /\ ImageFits /\ CallsAreCounted /\ FilesAreThere

\* Whatever administrators do to the budget between two images, no week's images
\* cost more than the highest budget that was set; and texts overrun their own
\* budget by less than one text.
SpendIsBounded ==
    /\ \A s \in 0..MaxCardClock : usage["image"][s] <= topBudget
    /\ TextBudget > 0 => \A s \in 0..MaxCardClock, c \in TextCosts :
          (\A d \in TextCosts : d <= c) => usage["text"][s] < TextBudget + (IF c = 0 THEN 1 ELSE c)

\* Google bills no more than three images for each row of the ledger, for the
\* call under way and for each crash: retries after lost answers, failures and
\* rolled back transactions included.
EveryCallIsRecorded ==
    paid <= Attempts * (recorded + crashes + (IF pc \in {"call", "store"} THEN 1 ELSE 0))

\* The images of any week cost at most the highest budget that was set, and
\* every call Google billed is within what the ledger, the call under way and
\* crashes account for.
SpendIsBoundedAndRecorded == SpendIsBounded /\ EveryCallIsRecorded
=============================================================================
