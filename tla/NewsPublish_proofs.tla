------------------------- MODULE NewsPublish_proofs -------------------------
(***************************************************************************)
(* For any items, markets, batch size and bounds: the news channel shows   *)
(* an item again only after posts of it that were taken for failed sends,  *)
(* and a posted button keeps its market.                                   *)
(***************************************************************************)
EXTENDS NewsPublish, TLAPS

\* A batch is taken from its set, whatever the limit.
LEMMA BatchSubset == ASSUME NEW S PROVE Batch(S) \subseteq S
  BY DEF Batch

\* A counted fault stays within its bound.
LEMMA FaultType ==
  ASSUME faults \in 0 .. MaxFaults, Fault
  PROVE  faults' \in 0 .. MaxFaults
  BY BoundsAssumption DEF Fault

\* The initial state has the right types.
LEMMA InitType == Init => TypeOK
  BY BoundsAssumption DEF Init, TypeOK, RenderIdle, PublishIdle

\* Types: the jobs hold items, and a send under way has one.
LEMMA TypeStep == TypeOK /\ [Next]_vars => TypeOK'
<1> SUFFICES ASSUME TypeOK, [Next]_vars PROVE TypeOK'
    OBVIOUS
<1> USE BoundsAssumption DEF channelVars
<1>1. CASE UNCHANGED vars
      BY <1>1 DEF TypeOK, vars, itemVars, jobVars
<1>2. ASSUME NEW i \in Items, Crawl(i) PROVE TypeOK'
      BY <1>2 DEF TypeOK, Crawl
<1>3. CASE SelectBacklog
      BY <1>3 DEF TypeOK, SelectBacklog, itemVars
<1>4. CASE AutoApprove
      BY <1>4 DEF TypeOK, AutoApprove
<1>5. ASSUME NEW i \in Items, NEW action \in DOMAIN CurateStatus, Curate(i, action)
      PROVE  TypeOK'
  <2>1. CurateStatus[action] \in {"approved", "rejected", "backlog"}
        BY <1>5 DEF CurateStatus
  <2>2. acts' \in 0 .. MaxActs
        BY <1>5 DEF TypeOK, Curate
  <2>3. QED BY <1>5, <2>1, <2>2 DEF TypeOK, Curate, jobVars
<1>6. CASE RenderList
  <2>1. PICK ids \in SUBSET Items : render' = [RenderIdle EXCEPT !.todo = ids]
        BY <1>6, BatchSubset DEF RenderList, Renderable
  <2>2. QED BY <1>6, <2>1 DEF TypeOK, RenderList, RenderIdle, itemVars
<1>7. ASSUME NEW i \in Items, RenderBegin(i) PROVE TypeOK'
      BY <1>7 DEF TypeOK, RenderBegin, itemVars
<1>8. CASE RenderEnd
  <2>1. render.cur \in Items
        BY <1>8 DEF TypeOK, RenderEnd
  <2>2. status' \in [Items -> {"none", "backlog", "approved", "ready", "sent", "rejected"}]
        BY <1>8, <2>1 DEF TypeOK, RenderEnd
  <2>3. cta' \in [Items -> Markets \cup {NoMarket}]
        BY <1>8, <2>1 DEF TypeOK, RenderEnd
  <2>4. faults' \in 0 .. MaxFaults
        BY <1>8, FaultType DEF TypeOK, RenderEnd
  <2>5. QED BY <1>8, <2>2, <2>3, <2>4 DEF TypeOK, RenderEnd
<1>9. CASE PublishList
  <2>1. PICK ids \in SUBSET Items : publish' = [PublishIdle EXCEPT !.pc = "next", !.todo = ids]
        BY <1>9, BatchSubset DEF PublishList, Publishable
  <2>2. QED BY <1>9, <2>1 DEF TypeOK, PublishList, PublishIdle, itemVars
<1>10. ASSUME NEW i \in Items, PublishClaim(i) PROVE TypeOK'
      BY <1>10 DEF TypeOK, PublishClaim, Reconcile
<1>11. CASE PublishSend
  <2>1. publish.cur \in Items
        BY <1>11 DEF TypeOK, PublishSend
  <2>2. posts' \in [Items -> Nat] /\ lost' \in [Items -> Nat]
        BY <1>11, <2>1 DEF TypeOK, PublishSend
  <2>3. faults' \in 0 .. MaxFaults
        BY <1>11, FaultType DEF TypeOK, PublishSend
  <2>4. publish' \in [pc : {"idle", "next", "send", "ok", "none"}, todo : SUBSET Items,
                      cur : Items \cup {NoItem}]
        /\ (publish'.pc \in {"send", "ok", "none"} => publish'.cur \in Items)
        BY <1>11, <2>1 DEF TypeOK, PublishSend
  <2>5. QED BY <1>11, <2>2, <2>3, <2>4 DEF TypeOK, PublishSend, itemVars
<1>12. CASE PublishFinalize
  <2>1. publish.cur \in Items
        BY <1>12 DEF TypeOK, PublishFinalize
  <2>2. FinalClaim("none") \in {"none", "posted"} /\ FinalClaim("ok") \in {"none", "posted"}
        BY DEF FinalClaim
  <2>3. claim' \in [Items -> {"none", "claimed", "posted"}]
        BY <1>12, <2>1, <2>2 DEF TypeOK, PublishFinalize
  <2>4. status' \in [Items -> {"none", "backlog", "approved", "ready", "sent", "rejected"}]
        BY <1>12, <2>1 DEF TypeOK, PublishFinalize
  <2>5. faults' \in 0 .. MaxFaults
        BY <1>12, FaultType DEF TypeOK, PublishFinalize
  <2>6. QED BY <1>12, <2>3, <2>4, <2>5 DEF TypeOK, PublishFinalize
<1>13. CASE PublishEnd
      BY <1>13 DEF TypeOK, PublishEnd, PublishIdle, itemVars
<1>14. CASE Crash
      BY <1>14, FaultType DEF TypeOK, Crash, RenderIdle, PublishIdle, itemVars
<1>15. QED
      BY <1>1, <1>2, <1>3, <1>4, <1>5, <1>6, <1>7, <1>8, <1>9, <1>10, <1>11, <1>12, <1>13, <1>14
      DEF Next, RenderStep, PublishStep
----------------------------------------------------------------------------
(* The claim protocol.                                                     *)

OnePost == \A i \in Items : posts[i] \in lost[i] .. 1 + lost[i]

LEMMA InitChannel == Init => ChannelInv
<1> SUFFICES ASSUME Init PROVE ChannelInv
    OBVIOUS
<1>1. TypeOK
      BY InitType
<1>2. QED
      BY <1>1 DEF Init, ChannelInv, SendInv, PostsAreRemembered, PublishIdle

\* A step that leaves the claims, the channel and the publisher alone, and
\* makes nothing sent, keeps the protocol's invariant.
LEMMA ElsewhereStep ==
  ASSUME ChannelInv, TypeOK',
         UNCHANGED <<claim, channelVars>>,
         UNCHANGED publish \/ publish'.pc \in {"idle", "next"},
         \A i \in Items : status'[i] = "sent" => status[i] = "sent"
  PROVE  ChannelInv'
<1>1. SendInv'
      BY DEF ChannelInv, SendInv, TypeOK, channelVars
<1>2. PostsAreRemembered'
      BY DEF ChannelInv, PostsAreRemembered, channelVars
<1>3. QED
      BY <1>1, <1>2 DEF ChannelInv, channelVars

\* Every step keeps it.
LEMMA ChannelStep == ChannelInv /\ [Next]_vars => ChannelInv'
<1> SUFFICES ASSUME ChannelInv, [Next]_vars PROVE ChannelInv'
    OBVIOUS
<1>0. TypeOK /\ TypeOK'
      BY TypeStep DEF ChannelInv
<1>1. CASE UNCHANGED vars
      BY <1>0, <1>1, ElsewhereStep DEF vars, itemVars, jobVars
<1>2. ASSUME NEW i \in Items, Crawl(i) PROVE ChannelInv'
      BY <1>0, <1>2, ElsewhereStep DEF TypeOK, Crawl
<1>3. CASE SelectBacklog
      BY <1>0, <1>3, ElsewhereStep DEF SelectBacklog, itemVars
<1>4. CASE AutoApprove
      BY <1>0, <1>4, ElsewhereStep DEF AutoApprove
<1>5. ASSUME NEW i \in Items, NEW action \in DOMAIN CurateStatus, Curate(i, action)
      PROVE  ChannelInv'
  <2>1. CurateStatus[action] # "sent"
        BY DEF CurateStatus
  <2>2. QED BY <1>0, <1>5, <2>1, ElsewhereStep DEF TypeOK, Curate, jobVars
<1>6. CASE RenderList
      BY <1>0, <1>6, ElsewhereStep DEF RenderList, itemVars
<1>7. ASSUME NEW i \in Items, RenderBegin(i) PROVE ChannelInv'
      BY <1>0, <1>7, ElsewhereStep DEF RenderBegin, itemVars
<1>8. CASE RenderEnd
  <2>1. \A i \in Items : status'[i] = "sent" => status[i] = "sent"
        BY <1>0, <1>8 DEF TypeOK, RenderEnd
  <2>2. QED BY <1>0, <1>8, <2>1, ElsewhereStep DEF RenderEnd
<1>9. CASE PublishList
      BY <1>0, <1>9, ElsewhereStep DEF PublishList, PublishIdle, itemVars
<1>10. ASSUME NEW i \in Items, PublishClaim(i) PROVE ChannelInv'
  <2>1. CASE status[i] # "ready" /\ UNCHANGED <<status, claim>>
             /\ publish' = [publish EXCEPT !.todo = @ \ {i}]
        BY <1>0, <1>10, <2>1, ElsewhereStep DEF PublishClaim, TypeOK
  <2>2. CASE Claimed(i) /\ Reconcile(i) /\ UNCHANGED claim
             /\ publish' = [publish EXCEPT !.todo = @ \ {i}]
    <3>1. SendInv'
          BY <1>0, <1>10, <2>2 DEF PublishClaim, SendInv, TypeOK, channelVars
    <3>2. PostsAreRemembered'
          BY <1>0, <1>10, <2>2
          DEF PublishClaim, PostsAreRemembered, ChannelInv, TypeOK, Claimed, Reconcile, channelVars
    <3>3. QED BY <1>0, <1>10, <3>1, <3>2 DEF ChannelInv, PublishClaim, channelVars
  <2>3. CASE status[i] = "ready" /\ ~ Claimed(i) /\ UNCHANGED status
             /\ claim' = [claim EXCEPT ![i] = "claimed"]
             /\ publish' = [pc |-> "send", todo |-> publish.todo \ {i}, cur |-> i]
    <3>1. posts[i] = lost[i]
          BY <1>0, <2>3 DEF ChannelInv, PostsAreRemembered, Claimed, TypeOK
    <3>2. SendInv'
          BY <1>0, <1>10, <2>3, <3>1 DEF PublishClaim, SendInv, TypeOK, channelVars
    <3>3. PostsAreRemembered'
          BY <1>0, <1>10, <2>3 DEF PublishClaim, PostsAreRemembered, ChannelInv, TypeOK, channelVars
    <3>4. QED BY <1>0, <1>10, <3>2, <3>3 DEF ChannelInv, PublishClaim, channelVars
  <2>4. QED BY <1>10, <2>1, <2>2, <2>3 DEF PublishClaim
<1>11. CASE PublishSend
  <2>1. publish.pc = "send" /\ publish.cur \in Items
        BY <1>0, <1>11 DEF TypeOK, PublishSend
  <2>2. /\ claim[publish.cur] = "claimed" /\ status[publish.cur] # "sent"
        /\ posts[publish.cur] = lost[publish.cur]
        BY <2>1 DEF ChannelInv, SendInv
  <2>3. CASE /\ posts' = [posts EXCEPT ![publish.cur] = @ + 1] /\ UNCHANGED lost
             /\ publish' = [publish EXCEPT !.pc = "ok"]
    <3>1. OnePost'
          BY <1>0, <2>1, <2>2, <2>3 DEF OnePost, ChannelInv, TypeOK
    <3>2. PostsAreRemembered'
          BY <1>0, <1>11, <2>1, <2>2, <2>3
          DEF PublishSend, PostsAreRemembered, ChannelInv, TypeOK, itemVars
    <3>3. SendInv'
          BY <1>0, <1>11, <2>1, <2>2, <2>3 DEF PublishSend, SendInv, TypeOK, itemVars
    <3>4. QED BY <1>0, <3>1, <3>2, <3>3 DEF ChannelInv, OnePost
  <2>4. CASE /\ posts' = [posts EXCEPT ![publish.cur] = @ + 1]
             /\ lost' = [lost EXCEPT ![publish.cur] = @ + 1]
             /\ publish' = [publish EXCEPT !.pc = "none"]
    <3>1. \A i \in Items : /\ posts'[i] > lost'[i] => posts[i] > lost[i]
                          /\ posts'[i] \in lost'[i] .. 1 + lost'[i]
          BY <1>0, <2>1, <2>4 DEF ChannelInv, TypeOK
    <3>2. PostsAreRemembered'
          BY <1>11, <3>1 DEF PublishSend, PostsAreRemembered, ChannelInv, itemVars
    <3>3. SendInv'
          BY <1>0, <1>11, <2>1, <2>2, <2>4 DEF PublishSend, SendInv, TypeOK, itemVars
    <3>4. QED BY <1>0, <3>1, <3>2, <3>3 DEF ChannelInv
  <2>5. CASE UNCHANGED channelVars
             /\ \/ publish' = [publish EXCEPT !.pc = "none"]
                \/ publish' = [publish EXCEPT !.pc = "next", !.cur = NoItem]
    <3>1. SendInv'
          BY <1>0, <1>11, <2>1, <2>2, <2>5
          DEF PublishSend, SendInv, TypeOK, itemVars, channelVars
    <3>2. PostsAreRemembered'
          BY <1>11, <2>5 DEF PublishSend, PostsAreRemembered, ChannelInv, itemVars, channelVars
    <3>3. QED BY <1>0, <2>5, <3>1, <3>2 DEF ChannelInv, channelVars
  <2>6. QED BY <1>11, <2>3, <2>4, <2>5 DEF PublishSend
<1>12. CASE PublishFinalize
  <2>1. publish.cur \in Items
        BY <1>0, <1>12 DEF TypeOK, PublishFinalize
  <2>2. /\ publish.pc = "none" => posts[publish.cur] = lost[publish.cur]
        /\ status[publish.cur] # "sent"
        BY <1>12 DEF ChannelInv, SendInv, PublishFinalize
  <2>3. SendInv'
        BY <1>0, <1>12 DEF PublishFinalize, SendInv, TypeOK, channelVars
  <2>4. PostsAreRemembered'
    <3>1. CASE publish.pc = "none" /\ UNCHANGED status
               /\ claim' = [claim EXCEPT ![publish.cur] = FinalClaim("none")]
          BY <1>0, <1>12, <2>1, <2>2, <3>1
          DEF PublishFinalize, PostsAreRemembered, ChannelInv, TypeOK, channelVars
    <3>2. CASE /\ claim' = [claim EXCEPT ![publish.cur] = FinalClaim("ok")]
               /\ status' = [status EXCEPT ![publish.cur] = "sent"]
          BY <1>0, <1>12, <2>1, <3>2
          DEF PublishFinalize, PostsAreRemembered, ChannelInv, TypeOK, FinalClaim, channelVars
    <3>3. CASE UNCHANGED <<status, claim>>
          BY <1>12, <3>3 DEF PublishFinalize, PostsAreRemembered, ChannelInv, channelVars
    <3>4. QED BY <1>12, <3>1, <3>2, <3>3 DEF PublishFinalize
  <2>5. QED BY <1>0, <1>12, <2>3, <2>4 DEF ChannelInv, PublishFinalize, channelVars
<1>13. CASE PublishEnd
      BY <1>0, <1>13, ElsewhereStep DEF PublishEnd, PublishIdle, itemVars
<1>14. CASE Crash
      BY <1>0, <1>14, ElsewhereStep DEF Crash, PublishIdle, itemVars
<1>15. QED
      BY <1>1, <1>2, <1>3, <1>4, <1>5, <1>6, <1>7, <1>8, <1>9, <1>10, <1>11, <1>12, <1>13, <1>14
      DEF Next, RenderStep, PublishStep

\* The claim protocol's invariant, types included (_publish_one: claim,
\* commit, send, finalize; crashes, failures and lost answers anywhere).
THEOREM ChannelInvariant == Spec => []ChannelInv
<1>1. Init => ChannelInv
      BY InitChannel
<1>2. ChannelInv /\ [Next]_vars => ChannelInv'
      BY ChannelStep
<1>3. QED
      BY <1>1, <1>2, PTL DEF Spec

\* An item in the channel, but for the posts that were taken for failed sends,
\* has its row in news_channel_posts, so that no later run posts it again; so
\* has every item that is "sent" (_publish_one).
THEOREM PostsRemembered == Spec => []PostsAreRemembered
<1>1. ChannelInv => PostsAreRemembered
      BY DEF ChannelInv
<1>2. QED
      BY <1>1, ChannelInvariant, PTL

\* The pipeline implements the channel's promise: an item is posted when it has
\* been posted before by failed sends only (_publish_one, post_item_to_channel).
THEOREM ChannelRefinement == Spec => AtMostOncePerChannel
<1>1. Init => Channel!Init
      BY DEF Init, Channel!Init
<1>2. ASSUME ChannelInv, [Next]_vars
      PROVE  [Channel!Next]_(Channel!channel)
  <2>0. TypeOK
        BY <1>2 DEF ChannelInv
  <2>1. CASE PublishSend
    <3>1. publish.pc = "send" /\ publish.cur \in Items
          BY <2>0, <2>1 DEF TypeOK, PublishSend
    <3>2. posts[publish.cur] = lost[publish.cur]
          BY <1>2, <3>1 DEF ChannelInv, SendInv
    <3>3. \/ UNCHANGED channelVars
          \/ /\ posts' = [posts EXCEPT ![publish.cur] = @ + 1]
             /\ lost' \in {lost, [lost EXCEPT ![publish.cur] = @ + 1]}
          BY <2>1 DEF PublishSend
    <3>4. QED BY <3>1, <3>2, <3>3 DEF Channel!Next, Channel!Post, Channel!channel, channelVars
  <2>2. CASE ~ PublishSend
    <3>1. UNCHANGED channelVars
          BY <1>2, <2>2
          DEF Next, RenderStep, PublishStep, vars, itemVars, channelVars, jobVars, Crawl,
              SelectBacklog, AutoApprove, Curate, RenderList, RenderBegin, RenderEnd,
              PublishList, PublishClaim, PublishFinalize, PublishEnd, Crash
    <3>2. QED BY <3>1 DEF channelVars, Channel!channel
  <2>3. QED BY <2>1, <2>2
<1>3. QED
      BY <1>1, <1>2, ChannelInvariant, PTL DEF Spec, Channel!Spec, AtMostOncePerChannel

----------------------------------------------------------------------------
(* The market behind the buttons.                                          *)

\* A step that starts nothing in the publisher and takes no market away.
LEMMA MarketElsewhere ==
  ASSUME MarketInv, TypeOK, TypeOK', UNCHANGED posts,
         publish'.todo \subseteq publish.todo,
         \/ publish'.pc \in {"idle", "next"}
         \/ publish'.pc \in {"send", "ok", "none"} /\ publish'.cur = publish.cur
              /\ publish.pc \in {"send", "ok", "none"}
         \/ publish'.pc \in {"send", "ok", "none"} /\ publish'.cur \in publish.todo,
         \A i \in Items : cta[i] # NoMarket => cta'[i] # NoMarket
  PROVE  MarketInv'
<1>1. publish.todo \subseteq Items /\ publish'.todo \subseteq Items
      BY DEF TypeOK
<1>2. BetlessWithheld'
      BY DEF MarketInv, BetlessWithheld
<1>3. CASE RequireMarket
  <2>1. \A i \in publish'.todo : cta'[i] # NoMarket
        BY <1>1, <1>3 DEF MarketInv
  <2>2. publish'.pc \in {"send", "ok", "none"} => cta'[publish'.cur] # NoMarket
        BY <1>1, <1>3 DEF MarketInv, TypeOK
  <2>3. QED BY <1>2, <2>1, <2>2 DEF MarketInv
<1>4. QED
      BY <1>2, <1>3 DEF MarketInv

\* Every step keeps what is to be published bet-relevant.
LEMMA MarketStep == TypeOK /\ MarketInv /\ [Next]_vars => MarketInv'
<1> SUFFICES ASSUME TypeOK, MarketInv, [Next]_vars PROVE MarketInv'
    OBVIOUS
<1> USE DEF channelVars
<1>0. TypeOK'
      BY TypeStep
<1> DEFINE Quiet == UNCHANGED <<posts, publish>>
           Kept == \A i \in Items : cta[i] # NoMarket => cta'[i] # NoMarket
<1>1. ASSUME Quiet, Kept PROVE MarketInv'
      BY <1>0, <1>1 DEF TypeOK, MarketInv, BetlessWithheld
<1>2. CASE RenderEnd
  <2>1. Kept
        BY <1>2 DEF TypeOK, RenderEnd, CtaOpen
  <2>2. Quiet
        BY <1>2 DEF RenderEnd
  <2>3. QED BY <1>1, <2>1, <2>2
<1>3. CASE PublishList
  <2>1. PICK ids \in SUBSET Publishable :
             publish' = [PublishIdle EXCEPT !.pc = "next", !.todo = ids]
        BY <1>3, BatchSubset DEF PublishList
  <2>2. publish'.pc = "next" /\ publish'.todo = ids
        BY <2>1 DEF PublishIdle
  <2>3. RequireMarket => \A i \in ids : cta'[i] # NoMarket
        BY <1>3, <2>1 DEF Publishable, PublishList, itemVars
  <2>4. BetlessWithheld'
        BY <1>3 DEF MarketInv, BetlessWithheld, PublishList, itemVars
  <2>5. QED BY <2>2, <2>3, <2>4 DEF MarketInv
<1>4. ASSUME NEW i \in Items, PublishClaim(i) PROVE MarketInv'
      BY <1>0, <1>4, MarketElsewhere DEF TypeOK, PublishClaim, IsFirst
<1>5. CASE PublishSend
  <2>1. publish.pc = "send" /\ publish.cur \in Items /\ UNCHANGED cta
        BY <1>5 DEF TypeOK, PublishSend, itemVars
  <2>2. RequireMarket => cta[publish.cur] # NoMarket
        BY <2>1 DEF MarketInv
  <2>3. posts' = posts \/ posts' = [posts EXCEPT ![publish.cur] = @ + 1]
        BY <1>5 DEF PublishSend
  <2>4. BetlessWithheld'
        BY <2>1, <2>2, <2>3 DEF TypeOK, MarketInv, BetlessWithheld
  <2>5. publish'.todo = publish.todo /\ (publish'.pc \in {"ok", "none"} => publish'.cur = publish.cur)
        /\ publish'.pc \in {"ok", "none", "next"}
        BY <1>5 DEF TypeOK, PublishSend
  <2>6. QED BY <2>1, <2>2, <2>4, <2>5 DEF MarketInv
<1>6. CASE PublishFinalize
      BY <1>0, <1>6, MarketElsewhere DEF TypeOK, PublishFinalize
<1>7. CASE PublishEnd
      BY <1>0, <1>7, MarketElsewhere DEF TypeOK, PublishEnd, PublishIdle, itemVars
<1>8. CASE Crash
      BY <1>0, <1>8, MarketElsewhere DEF TypeOK, Crash, PublishIdle, itemVars
<1>9. CASE UNCHANGED vars \/ SelectBacklog \/ AutoApprove \/ RenderList
           \/ (\E i \in Items : Crawl(i) \/ RenderBegin(i))
           \/ (\E i \in Items, action \in DOMAIN CurateStatus : Curate(i, action))
  <2>1. UNCHANGED <<posts, publish, cta>>
        BY <1>9 DEF vars, itemVars, jobVars, SelectBacklog, AutoApprove, RenderList, Crawl,
                    RenderBegin, Curate
  <2>2. QED BY <1>1, <2>1
<1>10. QED
      BY <1>2, <1>3, <1>4, <1>5, <1>6, <1>7, <1>8, <1>9 DEF Next, RenderStep, PublishStep

\* In the bet-relevant mode no item is posted without its market
\* (ready_to_publish withholds it, render_item never clears the market).
THEOREM BetlessNeverPosted == Spec => []BetlessWithheld
<1>1. Init => TypeOK /\ MarketInv
  <2> SUFFICES ASSUME Init PROVE MarketInv
      BY InitType
  <2>1. QED BY DEF Init, MarketInv, BetlessWithheld, PublishIdle
<1>2. TypeOK /\ MarketInv /\ [Next]_vars => (TypeOK /\ MarketInv)'
      BY TypeStep, MarketStep
<1>3. MarketInv => BetlessWithheld
      BY DEF MarketInv
<1>4. QED
      BY <1>1, <1>2, <1>3, PTL DEF Spec

\* A re-rendering never changes the market behind a posted button
\* (render_item resolves the market only while it is unresolved).
THEOREM ButtonsKeepTheirMarket == Spec => PostedButtonsKeepTheirMarket
<1>1. Init => TypeOK
      BY InitType
<1>2. TypeOK /\ [Next]_vars => TypeOK'
      BY TypeStep
<1>3. ASSUME TypeOK, [Next]_vars
      PROVE  [\A i \in Items : posts[i] > 0 /\ cta[i] # NoMarket => cta'[i] = cta[i]]_vars
  <2>1. CASE RenderEnd
        BY <1>3, <2>1 DEF TypeOK, RenderEnd, CtaOpen
  <2>2. CASE ~ RenderEnd
    <3>1. UNCHANGED cta
          BY <1>3, <2>2
          DEF Next, RenderStep, PublishStep, vars, itemVars, jobVars, Crawl, SelectBacklog,
              AutoApprove, Curate, RenderList, RenderBegin, PublishList,
              PublishClaim, PublishSend, PublishFinalize, PublishEnd, Crash
    <3>2. QED BY <3>1
  <2>3. QED BY <2>1, <2>2
<1>4. QED
      BY <1>1, <1>2, <1>3, PTL DEF Spec, PostedButtonsKeepTheirMarket
=============================================================================
