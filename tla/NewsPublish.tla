---------------------------- MODULE NewsPublish ----------------------------
(***************************************************************************)
(* The news pipeline from a crawled item to the channel post:              *)
(*   - crawl_job inserts fresh items and, in a later transaction, approves *)
(*     some of them by itself;                                             *)
(*   - the admin curates any item from the dashboard, a process of its own *)
(*     (dashboard/repo.py curate_news_item, unconditional status writes);  *)
(*   - render_job lists renderable items, then renders them one by one,    *)
(*     each in a transaction that keeps the item's row locked;             *)
(*   - publish_job lists ready items, then for each: commits a claim, sends*)
(*     to Telegram outside any transaction, and finalizes.                 *)
(* The jobs interleave with each other (each has one instance) and with    *)
(* the dashboard; the bot may die anywhere.                                *)
(* "translating" and "rendering" are never committed, so never seen.       *)
(***************************************************************************)
EXTENDS Integers, FiniteSets

CONSTANTS
    Items,          \* numbers: a smaller one has the higher score
    Markets,        \* markets an item's headline may resolve to
    NoMarket,
    NoItem,
    BatchSize,      \* the jobs' limit=10
    RequireMarket,  \* news_require_market
    MaxFaults,      \* bound: crashes and failures
    MaxActs         \* bound: admin actions

ASSUME ItemsAssumption == Items \subseteq Nat /\ NoItem \notin Items
ASSUME MarketsAssumption == NoMarket \notin Markets
ASSUME SwitchesAssumption == RequireMarket \in BOOLEAN
ASSUME BoundsAssumption == BatchSize \in Nat /\ MaxFaults \in Nat /\ MaxActs \in Nat

VARIABLES
    status,         \* news_items.status
    cta,            \* news_items.cta_market_id
    claim,          \* news_channel_posts: no row, a claim, or a message_id
    posts,          \* the channel: how often the item was posted
    lost,           \* history: its posts that were reported as failed sends
    fresh,          \* crawl_job: items created in this cycle
    approve,        \* crawl_job: backlog items read, about to be approved
    render,         \* render_job: item_ids still to do, the one in progress
    publish,        \* publish_job: ready_ids still to do, current one, send result
    rejected,       \* history: items rejected by the admin and not approved since
    acts, faults

jobVars == <<fresh, approve, render, publish>>
itemVars == <<status, cta, claim>>
channelVars == <<posts, lost>>
vars == <<itemVars, channelVars, jobVars, rejected, acts, faults>>

RenderIdle == [todo |-> {}, cur |-> NoItem]
PublishIdle == [pc |-> "idle", todo |-> {}, cur |-> NoItem]

TypeOK ==
    /\ status \in [Items -> {"none", "backlog", "approved", "ready", "sent", "rejected"}]
    /\ cta \in [Items -> Markets \cup {NoMarket}]
    /\ claim \in [Items -> {"none", "claimed", "posted"}]
    /\ posts \in [Items -> Nat]
    /\ lost \in [Items -> Nat]
    /\ fresh \subseteq Items
    /\ approve \subseteq Items
    /\ render \in [todo : SUBSET Items, cur : Items \cup {NoItem}]
    /\ publish \in [pc : {"idle", "next", "send", "ok", "none"}, todo : SUBSET Items,
                    cur : Items \cup {NoItem}]
    /\ publish.pc \in {"send", "ok", "none"} => publish.cur \in Items
    /\ rejected \subseteq Items
    /\ acts \in 0 .. MaxActs
    /\ faults \in 0 .. MaxFaults

Init ==
    /\ status = [i \in Items |-> "none"]
    /\ cta = [i \in Items |-> NoMarket]
    /\ claim = [i \in Items |-> "none"]
    /\ posts = [i \in Items |-> 0]
    /\ lost = [i \in Items |-> 0]
    /\ fresh = {}
    /\ approve = {}
    /\ render = RenderIdle
    /\ publish = PublishIdle
    /\ rejected = {}
    /\ acts = 0 /\ faults = 0

Fault == faults < MaxFaults /\ faults' = faults + 1

\* The jobs take the first BatchSize items of S, by score, one after the other.
IsFirst(i, S) == i \in S /\ \A j \in S : i <= j
Batch(S) == {i \in S : Cardinality({j \in S : j < i}) < BatchSize}

\* A render transaction holds the row from its first flush to its end.
Unlocked(i) == render.cur # i

----------------------------------------------------------------------------
(* crawl_job *)

\* A new article (neither its URL nor its title hash is known yet).
Crawl(i) ==
    /\ status[i] = "none"
    /\ approve = {}
    /\ status' = [status EXCEPT ![i] = "backlog"]
    /\ fresh' = fresh \cup {i}
    /\ UNCHANGED <<cta, claim, channelVars, approve, render, publish, rejected, acts, faults>>

\* approve_ids and auto_approve_ids read: trending matches or top scores,
\* among the items of this cycle that are (still) in the backlog.
SelectBacklog ==
    /\ fresh # {}
    /\ approve' \in SUBSET {i \in fresh : status[i] = "backlog"}
    /\ fresh' = {}
    /\ UNCHANGED <<itemVars, channelVars, render, publish, rejected, acts, faults>>

\* ... and write: an UPDATE by id, whatever the status has become.
AutoApprove ==
    /\ approve # {}
    /\ \A i \in approve : Unlocked(i)
    /\ status' = [i \in Items |-> IF i \in approve THEN "approved" ELSE status[i]]
    /\ approve' = {}
    /\ rejected' = rejected \ approve
    /\ UNCHANGED <<cta, claim, channelVars, fresh, render, publish, acts, faults>>

----------------------------------------------------------------------------
(* The dashboard: curate_news_item, on any item in any status.             *)

CurateStatus == [approve |-> "approved", rerender |-> "approved", regen_image |-> "approved",
                 reject |-> "rejected", unapprove |-> "backlog"]

Curate(i, action) ==
    /\ acts < MaxActs
    /\ status[i] # "none"
    /\ Unlocked(i)
    /\ acts' = acts + 1
    /\ status' = [status EXCEPT ![i] = CurateStatus[action]]
    /\ rejected' = IF action = "reject" THEN rejected \cup {i} ELSE rejected \ {i}
    /\ UNCHANGED <<cta, claim, channelVars, jobVars, faults>>

----------------------------------------------------------------------------
(* render_job *)

\* Mutant: an item whose market is known counts as rendered.
RenderableMutant == {i \in Items : status[i] = "approved" /\ cta[i] = NoMarket}

Renderable == {i \in Items : status[i] = "approved"}

\* needing_render: the ids are read once, at the start of the run.
RenderList ==
    /\ render = RenderIdle
    /\ LET ids == Batch(Renderable) IN
       ids # {} /\ render' = [RenderIdle EXCEPT !.todo = ids]
    /\ UNCHANGED <<itemVars, channelVars, fresh, approve, publish, rejected, acts, faults>>

\* The next id: a new session, session.get, status = "translating" flushed by
\* the first query.  The status is not looked at again.
RenderBegin(i) ==
    /\ render.cur = NoItem
    /\ IsFirst(i, render.todo)
    /\ render' = [todo |-> render.todo \ {i}, cur |-> i]
    /\ UNCHANGED <<itemVars, channelVars, fresh, approve, publish, rejected, acts, faults>>

\* Mutant: every render resolves the market again.
CtaOpenMutant(i) == TRUE

\* "Resolve the bet CTA ONCE and keep it stable": cta_resolved_at is unset.
CtaOpen(i) == cta[i] = NoMarket

\* render_item ends: the market is resolved if it is not yet, the item is
\* ready; or it raises, and its transaction is rolled back.
RenderEnd ==
    LET i == render.cur IN
    /\ i # NoItem
    /\ render' = [render EXCEPT !.cur = NoItem]
    /\ \/ /\ status' = [status EXCEPT ![i] = "ready"]
          /\ IF CtaOpen(i)
             THEN \E m \in Markets \cup {NoMarket} : cta' = [cta EXCEPT ![i] = m]
             ELSE UNCHANGED cta
          /\ UNCHANGED faults
       \/ UNCHANGED <<status, cta>> /\ Fault
    /\ UNCHANGED <<claim, channelVars, fresh, approve, publish, rejected, acts>>

----------------------------------------------------------------------------
(* publish_job *)

\* Mutant: betless items are not withheld.
PublishableMutant == {i \in Items : status[i] = "ready"}

\* ready_to_publish
Publishable == {i \in Items : status[i] = "ready" /\ (RequireMarket => cta[i] # NoMarket)}

\* The run starts (a channel is configured and the bot is its admin).
PublishList ==
    /\ publish.pc = "idle"
    /\ Batch(Publishable) # {}
    /\ publish' = [PublishIdle EXCEPT !.pc = "next", !.todo = Batch(Publishable)]
    /\ UNCHANGED <<itemVars, channelVars, fresh, approve, render, rejected, acts, faults>>

\* Mutant: an existing row does not stop the send.
ClaimedMutant(i) == FALSE

\* channel_post: a row of a prior run exists.
Claimed(i) == claim[i] # "none"

\* Mutant: "already claimed" ends the item's turn and nothing else.
ReconcileMutant(i) == UNCHANGED status

\* The row of a prior run settles the matter: the item is sent.
Reconcile(i) == status' = [status EXCEPT ![i] = "sent"]

\* _publish_one, the claim: skip an item that is no longer ready, reconcile
\* one that has a row, else insert and commit the row.
PublishClaim(i) ==
    /\ publish.pc = "next"
    /\ IsFirst(i, publish.todo)
    /\ \/ /\ status[i] # "ready"
          /\ publish' = [publish EXCEPT !.todo = @ \ {i}]
          /\ UNCHANGED <<status, claim>>
       \/ /\ status[i] = "ready" /\ Claimed(i) /\ Unlocked(i)
          /\ Reconcile(i)
          /\ publish' = [publish EXCEPT !.todo = @ \ {i}]
          /\ UNCHANGED claim
       \/ /\ status[i] = "ready" /\ ~ Claimed(i)
          /\ claim' = [claim EXCEPT ![i] = "claimed"]
          /\ publish' = [pc |-> "send", todo |-> publish.todo \ {i}, cur |-> i]
          /\ UNCHANGED status
    /\ UNCHANGED <<cta, channelVars, fresh, approve, render, rejected, acts, faults>>

\* post_item_to_channel: posted; a Telegram error (None), with nothing posted
\* or, when it is the answer that is lost, with the post made; or any other
\* exception, which ends the item's turn with its claim in place.
PublishSend ==
    LET i == publish.cur
        posted == posts' = [posts EXCEPT ![i] = @ + 1]
    IN /\ publish.pc = "send"
       /\ \/ /\ posted
             /\ publish' = [publish EXCEPT !.pc = "ok"]
             /\ UNCHANGED <<lost, faults>>
          \/ /\ Fault
             /\ \/ UNCHANGED channelVars
                \/ posted /\ lost' = [lost EXCEPT ![i] = @ + 1]
             /\ publish' = [publish EXCEPT !.pc = "none"]
          \/ /\ Fault
             /\ UNCHANGED channelVars
             /\ publish' = [publish EXCEPT !.pc = "next", !.cur = NoItem]
       /\ UNCHANGED <<itemVars, fresh, approve, render, rejected, acts>>

\* Mutant: the claim is released whatever the send returned.
FinalClaimMutant(pc) == "none"

\* A failed send (None) releases the claim, a post fills in its message_id.
FinalClaim(pc) == IF pc = "none" THEN "none" ELSE "posted"

\* _publish_one, the finalization: the claim is released after a failure, else
\* the item is sent, whatever its status has become meanwhile; a database
\* failure leaves the claim.
PublishFinalize ==
    LET i == publish.cur IN
    /\ publish.pc \in {"ok", "none"}
    /\ \/ /\ publish.pc = "none"
          /\ claim' = [claim EXCEPT ![i] = FinalClaim("none")]
          /\ UNCHANGED <<status, faults>>
       \/ /\ publish.pc = "ok" /\ Unlocked(i)
          /\ claim' = [claim EXCEPT ![i] = FinalClaim("ok")]
          /\ status' = [status EXCEPT ![i] = "sent"]
          /\ UNCHANGED faults
       \/ Fault /\ UNCHANGED <<status, claim>>
    /\ publish' = [publish EXCEPT !.pc = "next", !.cur = NoItem]
    /\ UNCHANGED <<cta, channelVars, fresh, approve, render, rejected, acts>>

PublishEnd ==
    /\ publish.pc = "next"
    /\ publish.todo = {}
    /\ publish' = PublishIdle
    /\ UNCHANGED <<itemVars, channelVars, fresh, approve, render, rejected, acts, faults>>

\* The bot dies and starts again: what its jobs held in memory is gone, a
\* render transaction is rolled back, a claim stays.
Crash ==
    /\ Fault
    /\ fresh' = {}
    /\ approve' = {}
    /\ render' = RenderIdle
    /\ publish' = PublishIdle
    /\ UNCHANGED <<itemVars, channelVars, rejected, acts>>

RenderStep == RenderList \/ (\E i \in Items : RenderBegin(i)) \/ RenderEnd
PublishStep == PublishList \/ (\E i \in Items : PublishClaim(i)) \/ PublishSend
               \/ PublishFinalize \/ PublishEnd

Next ==
    \/ \E i \in Items : Crawl(i)
    \/ SelectBacklog
    \/ AutoApprove
    \/ \E i \in Items, action \in DOMAIN CurateStatus : Curate(i, action)
    \/ RenderStep
    \/ PublishStep
    \/ Crash

Spec == Init /\ [][Next]_vars

\* The scheduler keeps running both jobs; nothing is assumed of the admin, the
\* feeds or the faults.
FairSpec == Spec /\ WF_vars(RenderStep) /\ WF_vars(PublishStep)

----------------------------------------------------------------------------
(* Properties.                                                             *)

\* The pipeline (claim, commit, send, finalize) implements what the channel
\* can promise: whatever crashes, failures, re-renderings and curation, an item
\* posted and known to be is not posted again; only a send that Telegram
\* carried out and the bot took for failed is followed by another one.
Channel == INSTANCE NewsChannel WITH Items <- Items, posts <- posts, lost <- lost
AtMostOncePerChannel == Channel!Spec

\* A post has a row of its own, without which the next run would post it
\* again, unless its send was taken for failed; so has an item that is "sent".
PostsAreRemembered ==
    \A i \in Items : posts[i] > lost[i] \/ status[i] = "sent" => claim[i] # "none"

\* The inductive form of both: while a send is under way its item is claimed,
\* and posted as often as its failed sends were carried out, until it succeeds.
SendInv ==
    publish.pc \in {"send", "ok", "none"} =>
        /\ claim[publish.cur] = "claimed"
        /\ status[publish.cur] # "sent"
        /\ publish.pc \in {"send", "none"} => posts[publish.cur] = lost[publish.cur]
ChannelInv ==
    /\ TypeOK
    /\ SendInv
    /\ PostsAreRemembered
    /\ \A i \in Items : posts[i] \in lost[i] .. 1 + lost[i]

\* In the bet-relevant mode nothing is posted without its market, and the
\* market behind a posted button never changes (re-rendering included).
BetlessWithheld == \A i \in Items : RequireMarket /\ posts[i] > 0 => cta[i] # NoMarket
PostedButtonsKeepTheirMarket ==
    [][\A i \in Items : posts[i] > 0 /\ cta[i] # NoMarket => cta'[i] = cta[i]]_vars

\* Its inductive form: publish_job lists no item without a market, and a market
\* once resolved is never taken away.
MarketInv ==
    /\ BetlessWithheld
    /\ RequireMarket =>
         /\ \A i \in publish.todo : cta[i] # NoMarket
         /\ publish.pc \in {"send", "ok", "none"} => cta[publish.cur] # NoMarket

\* An approved item is rendered, and a publishable one posted or reconciled,
\* unless the admin takes it back.
ApprovedIsPublished ==
    \A i \in Items :
        /\ status[i] = "approved" ~> status[i] # "approved"
        /\ (i \in Publishable) ~> (i \notin Publishable)

\* "Post ready (admin-approved + rendered) items" (jobs.py): an item that the
\* admin rejected, and nobody approved since, is not claimed for the channel.
RejectedIsNotPublished ==
    [][\A i \in Items : claim[i] = "none" /\ claim'[i] = "claimed" => i \notin rejected]_vars
=============================================================================
