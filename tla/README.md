# Formal models of PolyHolyMarket_bot

TLA+ models of the Polymarket Telegram bot, its Mini App and its news channel,
model-checked with TLC on small instances, with theorems proved by TLAPS for
every value of the constants. Source paths are relative to `src/`.

    tlc -workers 2 -config MCOrderFlow.cfg MCOrderFlow.tla
    tlapm OrderFlow_proofs.tla

## 1. Inventory

### Processes

* **bot** (`bot/main.py`): python-telegram-bot polling. Updates are handled one
  at a time, so at most one handler runs; `user_data` lives in memory and is
  lost by a restart, while the buttons stay in the chats. The JobQueue runs
  `settlement_job`, `broadcast_job`, and the crawl, auto-approve, render,
  publish, realtime and digest jobs, one instance of each. Jobs and handlers
  interleave at every `await`.
* **webapp** (`webapp/`): FastAPI behind the Mini App. Requests run
  concurrently, each on one session that `deps.get_db` commits when the request
  ends; `sync.py` refreshes the categories and makes their images in the background.
* **dashboard** (`dashboard/`): a FastAPI admin site that curates news, manages
  users and flags, and queues commands for the bot.
* **database**: Postgres at READ COMMITTED, shared by the three; the rows, keys
  and locks are their only interaction (the dashboard never calls the bot).
* External: the CLOB (orders), Gamma and Data APIs (markets, positions),
  Telegram, the LLMs. They are modelled by the answers the code tells apart.

### Components

| Component | State | Operations | What is hard | Correct when |
|---|---|---|---|---|
| Order confirmation, execution (`bot/handlers/confirm.py`) | `user_data["pending_orders"]`, prompt buttons, audit/order/stats/bet rows | `request`, `on_confirm`, `on_decline`, `_execute` | double taps, restarts, stale prompts, lost answers, four transactions per order | one call per confirmation, only with consent, rows tell the truth |
| Mini App bet (`webapp/routers/api.py`) | one session per request | `place_bet` | concurrent with the bot and itself; a failed flush loses the session | as above |
| Accounts (`db/repositories/accounts.py`, `bot/handlers/connect.py`) | `accounts`, `users.active_account_id`, the conversation's transient state | connect conversation, back and cancel buttons, disconnect, `resolve_account` | buttons of earlier steps, the wallet changes between prompt and order | a row fits its type, no key survives the conversation, the wallet meant signs |
| AccountManager (`polymarket/account_manager.py`) | per-process cache: TTL, LRU, locks | `get_trading_client`, `invalidate` | invalidated in one process only, concurrent builds | one build at a time, stale for at most the TTL, no lock left taken |
| Statistics (`db/repositories/stats.py`) | `user_stats` rows | `record_bet`, `record_settlement` | read-modify-write from two processes, first row, midnight | nothing lost, streak = run of days |
| Points, referrals (`db/repositories/rewards.py`) | `points_ledger`, `referral_edges` | `reward_for_bet`, `_maybe_unlock`, `_propagate`, `attribute_referral` | two bets unlock or earn the bonus together; cycles | paid exactly once, along unlocked edges |
| Settlement (`bot/jobs.py`) | `bets.status`, counters | `settlement_job` | crash between read, booking and message; batch limits | booked once and as settled, told once, eventually |
| Crawler (`bot/news/crawler.py`, `bot/news/jobs.py`) | `news_sources`, `news_items` | poll, vet, redirect, fetch, store | names that change between check and connection, one bad feed or link | public addresses only, one item per story, every source is polled |
| Matching (`bot/news/cta.py`, `render.py`) | an item's outcomes | relevance, shortlist, judge, outcomes | names that collide, repeated markets, re-rendering | the bet is about the story and stays what the button showed |
| News pipeline (`bot/news/jobs.py`, `render.py`, `publisher.py`, repositories, dashboard) | `news_items.status`, `news_channel_posts` claims | crawl, approve, curate, render, claim, send, finalize | crash or lost answer around the send; admin and job write one row | once in the channel, as far as answers tell; a posted button keeps its market |
| DM delivery (`bot/news/jobs.py`) | `user_news_prefs`, `news_delivered` | realtime and digest jobs, `/news` buttons | send-then-mark, preferences read once per run, two jobs on one ledger | recorded only if sent, repeated only for a cause, relevant items arrive |
| Broadcasts (`bot/jobs.py`, dashboard) | `commands` | form, batch, send, mark | crash after a batch was sent, overlapping forms | nothing lost or marked unsent, in order, the queue empties |
| News bet funnel (`bot/handlers/discover.py`, `start.py`, `connect.py`) | stashed list and generation, news bet, `pending_intents` | lists, panels, typed amounts, links, picker, resume, expiry | old buttons, a new list or wallet in between, restart | a tap means what its message showed, an intent is resumed or expires |
| Screens and commands (`bot/handlers/inquiry.py`, `positions_ui.py`, `trading.py`) | the stashes behind position and order buttons | list, sell a part, close, cancel, typed orders | index against skipped rows, old lists | a button acts on its line |
| Update preprocessing (`bot/middleware.py`, `access_gate.py`, `core/ratelimit.py`) | windows, cached status and grant | limit, sync, block, gate, codes | cached flags against the dashboard's writes, refusals that cannot be sent | blocks and gates take effect in time, floods are bounded, a failure lets through its own update at most |
| Budgets (`core/gemini.py`, `claude_text.py`, `webapp/sync.py`, dashboard) | `gemini_usage`, card files, `categories.image_*` | batch, call, retry, charge, upload, regenerate | check, minutes of calling, charge; administrators meanwhile | spend within the budget, calls recorded, a shown image has its file |
| Dashboard (`dashboard/`) | session cookies, forms, `audit_log`, `admins` | login, logout, pages, routes, bootstrap | forms from before a logout, a commit that fails after the audit row | old forms are dead, a change and its audit row live together |
| Order arithmetic (`polymarket/client.py`) | none | `place_capped_buy` and others | clamps and floors of floats | not modelled |
| Sensitivity, voice, core services, front end | none | parsing, rendering | no protocol | not modelled |

`PROJECT.json` lists the components with their files and status, and the
hazards, each at the line where it bites with the properties that cover it.

## 2. Modules

| Module | Models |
|---|---|
| `OrderFlow` | one user's orders from tap or request to the rows, in both processes, with wallet changes |
| `Activity` | the transaction that records a bet: statistics, streak, unlocking, points, propagation |
| `Settlement` | the settlement job against bets being placed and markets closing |
| `NewsPublish` | a news item from crawl to channel, with the admin and three jobs |
| `NewsChannel` | abstract: an item appears in the channel once, and again only after posts that looked failed |
| `Delivery` | the realtime and digest jobs against users changing their preferences |
| `Broadcast` | the dashboard's broadcast forms and the bot's broadcast job |
| `BetFunnel` | from a list, a panel or a post's link to the prompt, with wallets, resumption and restarts |
| `Connect` | the connect conversation, its buttons and the row it stores |
| `ClientCache` | the cached clients of bot and Mini App against credentials that change |
| `Access` | the rate limit, the cached status and the invite gate before every update |
| `OrderDesk` | the screens and typed commands, and the buttons under positions and orders |
| `Crawler` | the crawl cycle, its requests and the administration of sources |
| `NewsCta` | which bets a post offers, and what its buttons mean later |
| `CardImages` | images and texts against their budgets, and the image files |
| `Dashboard` | sessions, forms, audited writes, login limit, first administrator |
| `*_proofs` | the theorems: about `OrderFlow`, `NewsPublish` and `Activity` in modules of these names, `Settlement` and `Broadcast` (`Jobs_proofs`), `Connect`, `ClientCache` and the composition `MCProgress` (`Accounts_proofs`), `Dashboard`, `Access` and `CardImages` (`Entry_proofs`), `Crawler` and `Delivery` (`News_proofs`), `BetFunnel`, `NewsCta` and `OrderDesk` (`Buttons_proofs`) |
| `MC*` | the small instances and their `.cfg`; `MCJobs`, `MCProgress`, `MCSafety` compose several modules |

**How they fit together.** Three modules meet at an order: `BetFunnel` and
`OrderDesk` make the intent that `OrderFlow` confirms and executes, `Activity`
is the transaction that records it, `Settlement` books it. On the news
side, `Crawler` stores what `NewsPublish` takes to the channel with the bets
that `NewsCta` finds, `BetFunnel` takes the tap of their links, `Delivery`
sends the items to users. `Connect` writes the rows `OrderFlow` resolves and
`ClientCache` builds clients from. `NewsPublish` is the composition of
the jobs, the dashboard and the channel, and implements `NewsChannel`.

The interfaces between the other modules are narrow - a row or an intent that
one creates and another only reads - so the run modules `MCJobs`, `MCProgress`
and `MCSafety` compose them by exclusive choice: a variable `part` is
chosen at the start and only the module it names moves. They EXTEND modules
whose properties section 5 proves, so that run and theorem state one and the
same definition; `MCSafety` has one INSTANCE beside, a second funnel (`Panel`),
`MCJobs` two, of `Delivery` and `BetFunnel`. This keeps the state
space the sum, not the product, of theirs; it shows each
module's properties and claims nothing of an interleaving of two modules that do not
share state. Interleavings that matter (the two processes in `OrderFlow`,
`Activity` and `ClientCache`, dashboard and jobs in `NewsPublish`,
`Broadcast`, `CardImages`, `Crawler` and `Access`, the conversation and the funnel in
`BetFunnel`) are inside one module.

### OrderFlow

`Request` is `confirm.request` with a command's intent: the intent is stashed
and prompted for, or goes straight to `_execute` when the user wants no
confirmations and the kind does not force one (`AlwaysConfirm`). `OnConfirm`
pops the intent and checks its age, `OnDecline` pops it. `_execute` is cut at
each await: `ExecClient` (the client), `ExecResolve` (the account id for the
rows), `ExecSubmit` (the progress message and the audit row), `ExecClob` (the
call), then one transaction each for the audited outcome, the order row, the
statistics and the bet. A call is accepted, rejected, refused (it
raised, nothing happened) or **lost** (it raised although the exchange took the
order). `BotRestart` empties `user_data` and kills the running handler; the
prompts stay, and their buttons can be tapped for ever. `confirmTrades` is
arbitrary and does not change during a behaviour.
`PlaceBet` and the `Bet...` actions are the Mini App's endpoint with its
single session: nothing it wrote exists before the final commit, and a foreign
key that has gone (the wallet was disconnected meanwhile) loses it all.
`ResolveAccount` is `resolve_account`: the explicit id, else the active
account, else the oldest. A tap on a button that finds nothing to do changes
nothing and is a stutter.

### Activity

One record `tx[t]` per recording: its place in the transaction, its in-memory
row and the ledger rows it has not committed. `rowLock` is the row lock on `user_stats`:
`SELECT ... FOR UPDATE` takes it if there is a row; if not, both transactions
insert and the unique key decides at
flush, where the loser waits for the winner and fails. The savepoints around
the streak bonus and the ledger inserts absorb a duplicate. The walk up the referral
chain reads one edge per step, against committed data; `Share` is what a layer pays,
`SignupRows` what an unlock pays. The session of a Mini App
request is older than its lock and may hold an old `referred_by` (`me`).
A recording may die at any step. `NextDay` may fall inside a transaction, which then
commits a bet of the day before. `CountersInv` and `LockInv` relate the copy in
memory to the committed row, `WalkInv` the walk to what it has paid.

### Settlement

`StartRun` reads the markets of open bets, `Resolve` asks for one outside any
transaction, `SettleBatch` is the booking transaction with one savepoint per
bet (any subset may fail), `Notify` sends after the commit. `PlaceBet` and
`SettleMarket` are the rest of the world. `OpenBets` takes the oldest bets
still open, as the query does, before anything is known of their markets.
`bonus` counts calls of `reward_for_win`; its propagation to referrers is the
`Activity` walk and is not repeated here.

### NewsPublish and NewsChannel

`status` is `news_items.status`, `claim` the row in `news_channel_posts`
(none, claimed without a message id, posted), `posts` what the channel really
shows, `cta` the market of the item's buttons. `Crawl`, `SelectBacklog` +
`AutoApprove` (ids read in one query, written by a later one), `Curate` (the
dashboard's form, with any status at any time), `RenderStep` (list once, render
one by one), `PublishStep` (reconcile a claim found in the table, or claim and
commit, send, finalize). A send succeeds, fails, or fails having posted: `_send_card`
answers None to any `TelegramError`, a timeout among them, and the claim is then released.
`lost` counts these posts. The bot may die at any step. `NewsChannel` is one action: an item whose
posts so far were all lost is posted; `posts` and `lost` are the refinement mapping.
So `_publish_one`'s "reconciled, never re-sent" (`bot/news/jobs.py:156`) and "posted at most once per channel
per language" (`db/models.py:645`) hold of crashes, re-runs and curation, and not of a post
whose answer was lost: that one is sent again, once for each such answer. `rejected` is
history: what the admin rejected and neither the admin nor `AutoApprove` has approved
since. (`AutoApprove` may itself overwrite a rejection that came after its query, a
race of moments; finding 3 is about the minutes of `render_job`.)

### Delivery

`_deliver` once per channel: `StartRun` reads the users of the mode and their
preferences in one session, `Gather` the items for the next user, `Send` is the
Telegram call, `TurnOff` its Forbidden branch, `Mark` the transaction that
writes the ledger and the day of the digest. The two jobs and the
`/news` buttons interleave between them. `dms` and `digests` count what
the user was shown, which no table knows; `switches` counts mode changes.
`Claims` and `DigestClaims` count what the two jobs may still send a user before
anything else goes wrong: the accounts that the proof keeps.
Published items are sent to the channel by `NewsPublish`; here they only appear.
The hour is the users' common local hour and midnight its wrap. Which items are
relevant to whom is a constant, since it only chooses items.

### Broadcast

A command is a pair of a form and a user. A form's `requested_at` is the time
its transaction begins (`FormBegin`), its rows exist when it commits
(`FormCommit`), so forms of two admins may become visible out of order.
`Start` takes the oldest rows, rows of one form in any order, `Send` one message,
`Mark` all outcomes together. `tries` and `sent` count requests to Telegram and
messages shown.

### BetFunnel

A message's buttons carry a generation and an index; the bot keeps one stash
of markets per user with the generation it belongs to. `sent` holds all buttons ever sent
(they can be tapped for ever) with what their message showed, which the code
does not know. `ShowMarkets`, `ShowMarketById` and
`EnterBet` make a new generation; `Resolve` is the guard; `Prompt` is the
intent `_place_bet_amount` hands to `confirm.request`, a news bet only if its
generation is that of the tapped button. A market that is looked up again may be closed
(`placed`). `OnBuyCustom` arms the capture of the next text
message, which lists, funnels and a new conversation drop or overtake.
`OpenNewsBet` and `DeferNewsBet` are the two branches of a tapped link;
`Connected` pops the armed flag and takes the newest pending row, `ResumeShow`
and `ResumeMark` are separated by the awaits of `_resume_news_bet`. `Answer`
stands for `OrderFlow`. `Restart` loses `user_data` and the prompts and keeps
messages and rows.

### Connect

`conv` is the state of the ConversationHandler, `state` the transient dict
with type, funder and key, `keyboards` the kinds of navigation buttons that are
in the chat. `EnterKey` and its four failures are the exits of
`enter_key`; in each of them telling the user may raise, which leaves the
conversation where it was; so it does at every other step (`Says`), after the step has
changed what it changes. `EnterKeyRaises` is the announcement of the validation that
cannot be sent: it comes after the key was put into `state` and before the `try`, so the key
stays there; `KeyEndsWithConversation` bounds for how long (finding 7). The row is `upsert_account` with what
`validate_and_derive` returns: the funder, if any, is the account's address.
`/connect` in a conversation starts it again.

### ClientCache

One bot cache, whose handlers are sequential, and the ordered Mini App cache with
its requests: `Resolve`, then under the account's lock `Hit`, or `Miss`, `Load`
(decrypt) and `Build`, `Fail` at either. `version` counts changes of the stored
credentials and `replaced` when each ended, so that `staleness` is the greatest
age of credentials served. A tick is larger than a build. `Ttl` counts ticks.

### Access

`Update` is one update through `preprocess`: `Flood`, else `LetIn` and one of
`Blocked`, `PassCached`, `PassGate`, `AskCode`, `TryCode`; `users` are the
rows, `cache` what `context.user_data` says of them. The Mini App and the dashboard change rows and
the gate meanwhile. A refused event is not appended to the window.

Any of these may fail half-way, and preprocess is not the last to see the update then: a
refusal raises `ApplicationHandlerStop` after its reply, so where the reply raises something
else first, or a query or a commit does, `_on_error` logs it and the handlers of group 0 run.
The actions named `...Fails` are these ends, one per place where an exception can leave
`preprocess`; `Handled` and `Stopped` say who sees the update. What was cached stays
cached: a grant (cached before its answer and its commit) or the id of a new row may be rolled back
under the cache (`lost`; ids come from a sequence and are not drawn again, so such an id names no row). `failed`
counts the failures per user, `pastLock` and `pastLimit` the updates handled that a lock of a full synchronisation
interval, or the rate limit, should have kept away. The properties compare them: a failure lets
its own update through (finding 6) and none that follows.

### OrderDesk

Every command ends in one screen, refusal, or intent (`last`). `Manage` and
`Orders` fill a stash and show a list whose buttons carry indexes;
`OnPositionAction` and `OnOrderCancel` are a tap on any button of any list
still in the chat. `Shown` skips the rows that cannot be sold and stops at the
cap; `Place` is the k-th of those left. Numbers that users type are represented by where they stand
against the limits, nan and inf included.

### Crawler

A GET is `Poll` or `NextArticle` (vet the name, pin an address), then a `Forbidden` (asked
again), a `Redirect` (vetted and pinned again) or an end. `contacted` are
the addresses a socket was opened to; `Rebind` changes what a name resolves to
at any moment. `Unsafe`, `FeedFails` and `BadLink` end a source's turn with an
error, an article that fails is skipped. `StoreArticles` is the
transaction with its two duplicate checks.

### NewsCta

Texts are sets of words. `Relevance` has the guard of `_event_relevance`: an event
with which the headline shares nothing but candidates' names counts nothing. `Matching` is
what passes, `Shortlist` the best of it in the stable ranking; the judge picks any of the
shortlist, none, or is not available, and then the first is taken. `ByPrice` is the ranking of outcomes, the
k-th being the one with k - 1 before it.
`Render` resolves once (`Unresolved`), `Post` sends the buttons, `GammaMoves`
changes prices, closes markets and reorders events in between.

### CardImages

`usage[kind][s]` is the ledger's total of that kind for the week that begins at `s`: a row is charged
to every week it falls into, and `Spent` reads the week that ends now. The background task takes a snapshot of the
categories (`StartTask`), then for each checks the budget, calls Google (`Retry`, at most three
times), writes the file (`Generated`) and commits charge and path
(`Store`). Administrators hide, regenerate and upload at any step, except
that a row being written waits. `paid` counts what Google bills, which a crash or a
lost answer hides from the ledger (`MaxPaid` bounds it). The batch asks `weekly_spend`, of every
kind, and the banner `weekly_image_spend`: so texts may stop the batch of images
although `gemini_usage.py` keeps two budgets apart; `BeginCard` and
`BeginWelcome` differ accordingly.

### Dashboard

A form carries the CSRF token of its session; the cookie is the session.
`Route` checks role and token, writes with its audit row, and the commit after it may fail. `late`
records that a form older than a logout was accepted. Two processes bootstrap
the first administrator. The routes are three kinds: audited, not audited, and
audited for superadmins.

## 3. What the runs show

| Run | Question | Bounds |
|---|---|---|
| `order_flow` | one call per confirmation, with consent, by the right wallet, truthful rows | 1 prompt with unlimited taps, 1 request, 3 kinds (one plain, one cancel, one forced), 2 wallets in a behaviour, a prompt that expires after one tick |
| `news_publish` | once but for lost answers, market buttons, no market no post, approved items get there | 2 items, batches of 1, 1 fault (a crash, a failed render or save, a failed send with or without a post), 2 admin actions |
| `jobs` | booking, counters, messages, pay-out; messages and broadcasts neither lost nor marked unsent, in order and to the end; intents resumed truly or expired | settlement: 3 bets, 2 users, 2 markets, 2 faults, batches that hold everything; messages: a realtime user with quiet hours and a daily one, 2 items, a day of 2 hours, 1 fault; broadcasts: 2 forms, 2 users, batches of 3, 1 block, 1 fault; funnel: 2 links, 1 wallet, 1 restart |
| `progress` | referral points follow edges, every recording, request and probe ends, stale clients are bounded, public addresses only | recording: 2 users who may refer each other, 3 bets, unlock at the 1st; clients: 2 accounts, 2 requests, a cache of 1, a TTL of 1 in 2 ticks, 2 changes; crawl: 2 sources with the same 2 articles, 1 redirect, 1 admin action, 1 crash |
| `safety` | what no sequence of steps may break in ten instances of nine modules | funnel: a list of 2 markets and a link, or a panel, a link and 2 wallets; accounts: 1 key, 2 addresses, 2 conversations; desk: lists of up to 5 rows, 2 lists shown; gate: a newcomer and a member, 2 updates and 1 code per window, 3 instants, 1 restart, 1 failure of preprocess; cards: 1 category and the banner, 2 attempts, 1 admin action, 1 text, 1 crash; matching: 4 pools, 3 headlines, 1 change; dashboard: 1 browser, 2 admins, 2 forms, 3 posts, 1 restart; recording: 3 bets of one user over 3 days, two of them alike (symmetry), unlock at the 2nd; messages as in `jobs` with 1 change of preferences |
| `recording_blocks` | finding 1 | 3 bets of one user on one day |
| `settlement_batch` | finding 2 | batches of 1 |
| `news_rejected` | finding 3 | batches of 2, no faults |
| `dm_at_most_once` | finding 4 | two users, two items, no faults |
| `stale_buttons` | finding 5 | two lists of up to two markets, 1 restart |
| `gate_open` | finding 6 | the gate of `safety` |
| `key_retained` | finding 7 | 1 key, 2 addresses, 2 conversations |

The bounds are enough for each case to occur: two taps on one prompt, a tap
after expiry and after a restart, the second wallet connected or the first
removed under an order, an overlap of two transactions on one row, a gap in a
streak (three days), a fault in every step of a run
and a complete run after it, an admin's action inside every step of a
rendering, a button two generations old, a picked wallet followed by
another bet, a code after the limit of codes, a budget lowered while an image
is made, a name rebound between check and connection and again at the
redirect, one lock wanted by two requests and an eviction by the other account. Two items are needed because the jobs work
on lists. Instances of one module in `jobs`, `progress` and `safety` differ where a
liveness property needs small graphs (no change of preferences in `jobs`) and
a safety property needs the case (it is in `safety`). The theorems of
section 5 do not depend on these numbers.

**Fairness.** Specifications without fairness are used for safety.
`FairActivity` (in `Activity`) is weak fairness of each recording: a query of a live
connection returns, and a lock is released by its holder's commit or death.
`FairSpec` of `Settlement` and of `NewsPublish` is weak fairness of the
steps of each job: the JobQueue restarts it for ever and a run goes on (for
publishing: the channel is configured, the bot an admin of it). The same
holds for `broadcast_job`, `crawl_job` (`CrawlFairness`; each request has a timeout) and
the hourly expiry of intents. `CacheFairness` is weak for a build, which returns or raises, and
strong for taking the lock, because `asyncio.Lock` wakes its waiters in turn.
For `Delivery` there is, beside time passing and runs going on, that a run
starts in every hour that comes round as long as its job is wanted
(`Ticks`, `Wanted`): the jobs are started every 2 and 10 minutes and a run
takes less than an hour; weak fairness would allow a job that only ever starts
in quiet hours. In the composed runs one weak fairness condition covers steps of
several parts; since `part` never changes, it is that of each part. Nothing is fair
about users, admins, markets or faults; faults are bounded, so liveness says
"once faults stop". An item that always fails to render would starve
others in a batch of ten; this is a listed hazard, excluded by that bound.

**Deadlock** is checked in `order_flow`. In the others a part really may
stop: every bet recorded and no day left, nothing to settle, to publish, to
broadcast, or every bounded act done.

## 4. Findings

1. `recording_blocks` - `webapp/routers/api.py:226` promises "stats/bet
   recording must never block a trade result". Two first bets of a user
   in flight both insert `user_stats`; the loser's flush fails, the handler swallows
   the error, and `get_db` cannot commit the session any more: the audit, order
   and bet rows of an accepted order are gone.
2. `settlement_batch` - `bot/jobs.py:77` promises to "Resolve open bets whose
   markets have settled". The batch limit is applied to open bets before
   their resolution is known, so that many old bets on unsettled markets hide
   newer bets on settled ones for ever.
3. `news_rejected` - `bot/news/jobs.py:197` publishes "ready (admin-approved +
   rendered)" items. `render_job` lists its items once; one that the admin rejects
   after that and before its turn is rendered, set to ready and claimed for the channel.
4. `dm_at_most_once` - `db/models.py:631` "guarantees an item is DM'd to a user at
   most once (across both realtime and digest channels)". The ledger is written
   after the send. A user on the list of a digest run who changes to
   realtime is listed by the realtime job too; both read the ledger before
   either writes it, and both send. The second commit violates the primary key
   and ends its run. (A crash between send and commit repeats a message
   too; `RepetitionsHaveACause` bounds both.)
5. `stale_buttons` - `bot/handlers/discover.py:9` says "the generation guard
   guarantees a Buy can never resolve against a stale list (which would mean
   betting on the wrong market)". Generations are counted in
   `user_data`, which is not persisted: after a restart they start at 1 again, and a
   button of the old generation 1 passes the guard against the new list of generation 1. Within the
   life of a process the guard does what it says (`TapsMeanWhatWasShown`). The
   prompt still names the market, so the user may notice.
6. `gate_open` - `bot/access_gate.py:10` says "locked users are blocked from every handler
   except code entry". The prompt is sent before `ApplicationHandlerStop` is raised; if
   sending it raises (`bot/middleware.py:136`), the error is logged and the locked user's
   update is handled. The same holds of the replies to floods, blocked users and codes. `LocksTakeEffect`
   and `FloodsAreBounded` show that this is all: one such update per failure.
7. `key_retained` - `bot/handlers/connect.py:6` says the key is in `user_data` "for the brief
   window between normalization and the call into `auth.validate_and_derive` (popped right
   after, and in every exit path via `_clear_connect`)". The message sent in that window
   (line 224) stands before the `try` whose `finally` drops the key: if it raises, the key stays, and
   `KeyEndsWithConversation` shows that it goes at the latest when the conversation ends.

Two disagreements that no run is spent on, since reading the lines is enough: a proxy or Safe
account is stored under its funder with the signer's key (`polymarket/auth.py:92`), and `from_creds`
(`polymarket/client.py:57`) refuses a client whose key does not derive the stored address, although
`locales/en.json:38` ends connecting with "You can now view positions and trade."; and the balance
screens divide only numbers above 1e6 by 1e6 (`ParseAtomicUsdc`), so a balance of a dollar or less, in the
"atomic units, 6 decimals" of `polymarket/client.py:238`, appears a million times larger.

## 5. What is proved

**OrderFlow** (`OrderFlow_proofs`): `OrdersOnce`, `OrdersConsented`,
`OrdersRecordedTruly`, `WalletsAgree`, `DeclinesAreFinal` for any sets of
intents and requests, any kinds, any number of wallets, any TTL. All follow
from `OrderInvariant`. "At most one call" is not inductive: one must know that an
intent that is pending, unused or on its way was not called
(`IntentInv`), that the handler's position tells what was called, placed and
recorded (`ResultInv`, `RecordInv`, and `WebInv` for requests), and that the wallet
cannot change under a running handler because updates are sequential
(`WalletInv`). `DefaultResolves` rests on the existence of a least account id,
proved from the well-foundedness of the naturals.

**NewsPublish** (`NewsPublish_proofs`): `ChannelRefinement` (the pipeline
implements `NewsChannel`), `ChannelInvariant`, `PostsRemembered`, for any items, markets, batches and
bounds, with any number of lost answers. The argument is the claim: while a send is under way
its item is claimed and was posted by lost sends only (`SendInv`), a claim is
taken only if there is none, and it is released only when the send has not been
answered with a message id; everything else that may happen to the item leaves
`claim`, `posts` and `lost` alone. For `BetlessNeverPosted` and `ButtonsKeepTheirMarket`
`MarketInv` adds that a listed or sent item has its
market, because a market once resolved is never taken away.

**Settlement** (`Jobs_proofs`): `SettleInvariant`,
`BetsBookedAsSettled`, `CountersAgree`, `BettorsToldOnce`, for any users, finite
set of bets, markets, limits and number of faults. The inductive invariant says that
what a run has read is final, that it notifies only bets it booked, and that a
bet is open as long as nobody was told of it. The counters are
cardinalities: a batch adds a set disjoint from those booked before
(`DisjointBets`).

**Broadcast** (`Jobs_proofs`): `BroadcastInvariant`, `RepetitionsArePaid`,
`MessagesKeepOrder`, for any forms, users, batch limits and faults. That messages
stay in order is not inductive: one must know that a run leaves out no pending row
older than one it holds (`HeldAreOldest`, from the query's order and limit), and that
a pending row outside the run was tried only as often as there were faults
(`TriesInv`). Rows that were committed behind a younger form (`Overtaken`) are the
exception that the property names.

**Activity** (`Activity_proofs`): `ActivityInvariant`, `BetsCountOnce`,
`PointsFollowUnlocked`, for any users, finite set of bets, days, thresholds,
points and rates that do not increase. The invariant is the isolation that the row
lock buys: a transaction past its read owns the row and its copy is
the committed row plus its own bet (`LockInv`), the committed last day is that of
the user's latest bet (`CountersInv`), what a transaction will add to the ledger
is its bet, at most the day's only streak bonus, and the signup rows of an edge that is
still pending (`EntriesInv`, `EdgesInv`), and the walk is at someone who has earned
(`WalkInv`). That last part needs the rates: a share
that rounds to zero pays nobody, and the chain of paid inviters stays without a gap only because every
later share is then zero too. Each lemma about a commit (`TotalsStep`,
`UnlockStep`, `BonusStep`, `StreakStep`) adds one bet to what the committed rows
say; every other step leaves them alone (`QuietSteps`). Streaks are proved in an explicit form
(`IsStreak`, `IsLongest`: a run of this length exists and none is longer), whose step
is a case each for the same day, the next day and a gap.

**Connect** (`Accounts_proofs`): `ConnectInvariant`, `AccountsFitTheirType`,
`KeysAreForgotten`, for any keys, addresses and attempts. The
step that stores an account is safe because a conversation that asks for the key of a proxy
has its funder, whatever buttons led there (`ConnectInv`).

**ClientCache** (`Accounts_proofs`): `CacheInvariant`, `AccountsAreBuiltOnce`,
`CredentialsAreCurrent`, for any accounts, requests, TTL and cache size.
A lock is held by exactly the request that builds (`CacheInv`); what was cached or
loaded was current at that time, or was replaced no earlier (`StalenessInv`), so that
the TTL bounds the age of what is served.

**Dashboard** (`Entry_proofs`): `DashInvariant`, `LogoutsKillForms`. A form carries the
token of a session that ended with a logout; tokens are never used again
(`FormsAreYoung`).

**Access** (`Entry_proofs`): `AccessInvariant`, `LocksAreFelt`, `FloodsAreHeld`,
for any users, codes, limits, windows, interval and failures of `preprocess`. A cached status, grant or id
that differs from the row was true when cached and the row was changed since, or its transaction was rolled back
no earlier than that (`CachedInv`); hence nobody passes from the cache after an interval, and `pastLock` grows only together with
`failed`. A limiter keeps the latest accepted events, and what it forgot the window has passed
(`LimitersInv`); hence no `max + 1` events in a window. That a limiter has a
first event to keep rests on the well-foundedness of the naturals (`LeastExists`), in place of an
induction.

**Crawler** (`News_proofs`): `CrawlInvariant`, `ContactsArePublic`, for any hosts,
addresses, feeds and redirect limits: the address pinned for a fetch is one that vetting let
through, and it does not follow the name when that is rebound.

**BetFunnel** (`Buttons_proofs`): `FunnelInvariant`, `TapsMeanWhatTheyShowed`,
`ResumptionsAreShown`, for any markets, lists, links, accounts and restarts. The
inductive part (`ChatInv`) is about every button ever sent in this life of the process: its
generation is not later than the current one, and if it is the current one the stash
has at its index the market the message showed; a picker's generation is that of its link.
`IntentsInv` numbers the rows without gaps, so that the newest is well defined.

**Delivery** (`News_proofs`): `DeliveryInvariant`, `DeliveriesWereSent`, `DmsComeOnce`, for any
users, preferences, relevant items, hours, caps and faults. "No message more than causes for
it" is not inductive: what was sent must be counted together with what may be sent yet.
`ClaimsAreBacked` says that for each user and item

    dms + Claims("realtime") + Claims("digest")  <=  1 + faults + switches

where `Claims` of a job is 1 while it has the user on its list or the user's mode leads
to it and the item is not recorded, 2 while it is about to send it in a message of which the
other job has recorded something meanwhile (`Doomed`: the commit will be refused, so the
item may come again), and 0 once it is recorded, unless it is about to be sent. A send moves one unit from `Claims` to `dms`, a
commit spends the claims of both jobs, a fault or a change of mode adds at most one to each side.
The digest of the day is counted in the same way; there the other job matters only by
refusing the commit, which takes a change of mode (`Interferes`). `RunInv` keeps a run's user off the
rest of its list. This is where the docstring of finding 4 fails, and by how much.

**NewsCta** (`Buttons_proofs`): `ItemBetsAreStable`, `ItemBetsAreAboutTheStory`, for any finite headlines,
any pools of events, caps and overlaps. An event is only found if its relevance is
positive, and the greatest of finitely many relevances is reached by a market or the title
(`LargestExists`, `RelevanceIsReached`), which has the words. That the bets are distinct is a
fact about ranks: in a finite set with a strict order there is exactly one element with k - 1
before it (`Ranks`, from the well-foundedness of the naturals in place of an induction), and the
repeated candidates were dropped before (`OutcomesAreDistinct`).

**OrderDesk** (`Buttons_proofs`): `SalesAreOfPositions`, `TapsActOnTheirLine`, for any lists of
positions and orders and any cap. The invariant (`StashesOk`) is about every list in the chat: it is numbered
no later than the last of its kind, and the newest of its kind shows exactly what is stashed, or the
stash was lost. The k-th row with buttons exists by `Ranks`; that the part sold is the button's percentage to half
of a unit is integer arithmetic (`PartIsRounded`).

**CardImages** (`Entry_proofs`): `CardsInvariantHolds`, `SpendingIsBounded`, for any deck, costs,
budgets, attempts and length of the week. Minutes pass between the check of the budget and the charge, so the
invariant is that an image under way fits every week it may be charged in (`ImageFits`), which the check
gives for the present week and `WeeksNest` for those that began later; no other image
is made meanwhile, and the highest budget set bounds them all. What Google bills is counted by row, crash and the call
under way (`CallsAreCounted`).

**The parts of `progress`** (`Accounts_proofs`): `PartsKeepTheirInvariants`. A step of the composition is a step of
one part and a stutter of the others (`PartsMoveAlone`), so each keeps its invariant.

The assumptions are the `ASSUME`s of the modules, which TLC evaluates in every
run: distinct ids, bounds that are naturals, outcomes distinct from "void" and
"unsettled", for `Activity` finitely many bets and non-increasing rates.

**Only model-checked**, with the reason:

* All liveness (`EveryRecordingEnds`, `ServicesGoOn`, `SettledMarketsPayOut`,
  `ApprovedIsPublished`, `RealtimeArrives`, `BroadcastsEnd`, `StaleIntentsEnd`):
  the prover handles neither fairness nor ENABLED.
* `JobsInv` and `SafetyInv` are conjunctions "in this part, this module's invariant". The
  theorems prove each conjunct for the module's own specification, for all constants; that the
  composition keeps the conjunctions is left to TLC, because they also speak of
  instances with other constants (`Panel`, `Dms`, `Funnel`), to which the prover
  would need every theorem restated.

## 6. Not modelled

* The components marked so in the table above and in `PROJECT.json`.
* Amounts and prices of orders: an order is its kind, a bet a point value. The clamps and
  floors of `place_capped_buy` are floating-point arithmetic, which TLA+ integers
  do not represent; the shares sold by a position button are (`Part`, to half a unit).
* Encryption of stored keys, and the deletion of the message that carried one:
  no property here reads either.
* The wording of texts: sensitivity lists, voice, translations, captions.
* The allowlist of users, the Mini App's `initData`: fixed guards before everything modelled.
* Intent ids: assumed distinct (`secrets.token_hex`).
* A stream of news without end: the newest items go first, so an unlimited
  stream of relevant ones could starve an older one for a realtime user;
  `RealtimeArrives` is about finitely many.
* Failures of the database at the claim, which look like a skipped item or a crash.
* The statuses "translating" and "rendering" of an item are never committed.
* The configuration switches of the pipeline other than `RequireMarket`.

## 7. Plan

1. A composition of `BetFunnel` with the end of `OrderFlow`, so that an intent is
   followed from the tap of a link to its fulfilment in one behaviour, with the
   invariants of both as lemmas.
2. A run of `NewsPublish` with items that never render, and a liveness property of
   those behind them.
3. The arithmetic of a capped buy on decimals, against exact rationals over
   bounded inputs.
4. What a wallet is asked to sign in `OrderFlow`, from the size that a button of
   `OrderDesk` names.
