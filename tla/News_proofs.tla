---------------------------- MODULE News_proofs -----------------------------
(***************************************************************************)
(* Proofs about how news comes in (Crawler), for any sources, articles,    *)
(* names and addresses, and about how it goes out to readers (Delivery),   *)
(* for any readers, bounds and hours.  An address is connected to only as  *)
(* the pinned one of a request, and is there only if it was vetted; a      *)
(* story that is stored twice would have been known when the second        *)
(* article was looked at.  A message of news that is sent twice has its    *)
(* cause in the log: every message is backed by the claims that each run   *)
(* still holds, by what is marked, or by a crash or a failed release.      *)
(***************************************************************************)
EXTENDS Crawler, Delivery, WellFoundedInduction, SequenceTheorems, TLAPS

\* Of some sources that are left there is one with the least id.
LEMMA FirstSource ==
  ASSUME todo \subseteq Sources, todo # {}
  PROVE  Min(todo) \in todo
<1>1. todo \subseteq Nat
      BY CrawlerAssumption
<1>2. PICK s \in todo : \A t \in todo : ~ (<<t, s>> \in OpToRel(<, Nat))
      BY <1>1, NatLessThanWellFounded, WFMin, Zenon
<1>3. \A m, n \in Nat : m < n => <<m, n>> \in OpToRel(<, Nat)
      BY Zenon DEF OpToRel
<1>4. \A t \in todo : ~ (t < s)
      BY <1>1, <1>2, <1>3
<1>5. \A t \in todo : s <= t
      BY <1>1, <1>4
<1>6. QED BY <1>2, <1>5 DEF Min

\* A vetted address is public.
LEMMA VettedIsPublic == ASSUME NEW h \in Hosts PROVE Vetted(h) \subseteq Public
  BY DEF Vetted

\* A request that is made is pinned to a public address.
LEMMA GetIsPublic ==
  ASSUME NEW h \in Hosts, NEW after, Get(h, after)
  PROVE  fetch'.ip \in Public /\ crawlPc' = after
  BY VettedIsPublic DEF Get

\* What is stored are articles of the batch.
LEMMA NewArticlesAreArticles ==
  ASSUME CrawlInv
  PROVE  NewArticles \subseteq Articles
<1>1. got \in Seq(Articles)
      BY DEF CrawlInv
<1>2. \A i \in DOMAIN got : got[i] \in Articles
      BY <1>1, LenProperties
<1>3. QED BY <1>2 DEF NewArticles

\* No two articles stored are one story.
LEMMA StoriesStayApart ==
  ASSUME CrawlInv, NEW a \in items \cup NewArticles, NEW b \in items \cup NewArticles,
         Title[a] = Title[b]
  PROVE  a = b
<1> DEFINE Before(i) == items \cup {got[j] : j \in 1 .. i - 1}
<1>1. DOMAIN got = 1 .. Len(got) /\ Len(got) \in Nat
      BY LenProperties DEF CrawlInv
<1>2. ASSUME NEW c \in NewArticles
      PROVE  \E i \in DOMAIN got : c = got[i] /\ \A d \in Before(i) : d # c /\ Title[d] # Title[c]
      BY DEF NewArticles, Known
<1>3. CASE a \in items /\ b \in items
      BY <1>3 DEF CrawlInv
<1>4. CASE a \in items /\ b \in NewArticles
      BY <1>2, <1>4
<1>5. CASE a \in NewArticles /\ b \in items
      BY <1>2, <1>5
<1>6. CASE a \in NewArticles /\ b \in NewArticles
  <2>1. PICK i \in DOMAIN got : a = got[i] /\ \A d \in Before(i) : Title[d] # Title[a]
        BY <1>2, <1>6
  <2>2. PICK j \in DOMAIN got : b = got[j] /\ \A d \in Before(j) : Title[d] # Title[b]
        BY <1>2, <1>6
  <2>3. ~(i < j)
    <3> SUFFICES ASSUME i < j PROVE FALSE
        OBVIOUS
    <3>1. i \in 1 .. j - 1
          BY <1>1
    <3>2. a \in Before(j)
          BY <2>1, <3>1
    <3>3. QED BY <2>2, <3>2
  <2>4. ~(j < i)
    <3> SUFFICES ASSUME j < i PROVE FALSE
        OBVIOUS
    <3>1. j \in 1 .. i - 1
          BY <1>1
    <3>2. b \in Before(i)
          BY <2>2, <3>1
    <3>3. QED BY <2>1, <3>2
  <2>5. i = j
        BY <1>1, <2>3, <2>4
  <2>6. QED BY <2>1, <2>2, <2>5
<1>7. QED BY <1>3, <1>4, <1>5, <1>6

LEMMA InitCrawl == CrawlInit => CrawlInv
<1> SUFFICES ASSUME CrawlInit PROVE CrawlInv
    OBVIOUS
<1>1. dns \in [Hosts -> Resolutions]
  <2>1. \A p \in Public : {p} \in SUBSET (Public \cup Private) /\ {p} # {}
        OBVIOUS
  <2>2. {{p} : p \in Public} \subseteq Resolutions
        BY <2>1 DEF Resolutions
  <2>3. QED BY <2>2 DEF CrawlInit
<1>2. {entries, got} \subseteq Seq(Articles)
      BY EmptySeq DEF CrawlInit
<1>3. source \notin Sources /\ fetch.ip \notin Public
      BY CrawlerAssumption DEF CrawlInit, None, NoFetch
<1>4. sources \in [Sources -> [row : BOOLEAN, enabled : BOOLEAN, status : Status]]
  <2> DEFINE Row == [row : BOOLEAN, enabled : BOOLEAN, status : Status]
  <2>1. NoSource \in Row /\ NewSource \in Row
        BY DEF NoSource, NewSource, Status
  <2>2. QED BY <2>1 DEF CrawlInit
<1>5. QED BY <1>1, <1>2, <1>3, <1>4 DEF CrawlInit, CrawlInv

\* The rows of the sources stay rows, whatever status is written.
LEMMA MarkedType ==
  ASSUME CrawlInv, NEW status \in Status, Marked(status)
  PROVE  sources' \in [Sources -> [row : BOOLEAN, enabled : BOOLEAN, status : Status]]
  BY DEF CrawlInv, Marked

\* Every step keeps the invariant.
LEMMA CrawlStep == CrawlInv /\ [CrawlNext]_crawlVars => CrawlInv'
<1> SUFFICES ASSUME CrawlInv, [CrawlNext]_crawlVars PROVE CrawlInv'
    OBVIOUS
<1>0. /\ None \notin Sources /\ NoFetch.ip \notin Public
      /\ "error" \in Status /\ "ok" \in Status /\ "pending" \in Status /\ "never" \in Status
      BY CrawlerAssumption DEF None, NoFetch, Status
<1>e. <<>> \in Seq(Articles)
      BY EmptySeq
<1> DEFINE SourcesType == sources \in [Sources -> [row : BOOLEAN, enabled : BOOLEAN, status : Status]]
<1>1. CASE UNCHANGED crawlVars
      BY <1>1 DEF crawlVars, adminVars, jobVars, CrawlInv
<1>2. CASE StartCrawl
      BY <1>2 DEF StartCrawl, adminVars, CrawlInv
<1>3. CASE EndCrawl
      BY <1>3 DEF EndCrawl, adminVars, CrawlInv
<1>4. CASE Forbidden
  <2>1. fetch'.ip = fetch.ip
        BY <1>4 DEF Forbidden
  <2>2. QED BY <1>4, <2>1 DEF Forbidden, adminVars, CrawlInv
<1>5. CASE Unsafe
  <2>1. CASE source = None /\ crawlPc = "next"
    <3>1. SourcesType'
      <4>1. PICK s \in Sources : sources' = [sources EXCEPT ![s].status = IF sources[s].row THEN "error" ELSE @]
            BY <1>5, <2>1, FirstSource DEF Unsafe, CrawlInv
      <4>2. QED BY <1>0, <4>1 DEF CrawlInv
    <3>2. QED BY <1>0, <1>5, <2>1, <3>1 DEF Unsafe, Failed, GoOn, CrawlInv
  <2>2. CASE ~(source = None /\ crawlPc = "next")
    <3>1. Failed /\ UNCHANGED <<dns, items, acts, todo, entries, got, crashes>>
          BY <1>5, <2>2 DEF Unsafe
    <3>2. SourcesType'
          BY <1>0, <3>1, MarkedType DEF Failed
    <3>3. QED BY <1>0, <3>1, <3>2 DEF Failed, GoOn, CrawlInv
  <2>3. QED BY <2>1, <2>2
<1>6. CASE FeedFails
  <2>1. SourcesType'
        BY <1>0, <1>6, MarkedType DEF FeedFails, Failed
  <2>2. QED BY <1>0, <1>6, <2>1 DEF FeedFails, Failed, GoOn, CrawlInv
<1>7. ASSUME NEW list \in Seq(Articles), Feed(list) PROVE CrawlInv'
      BY <1>0, <1>7 DEF Feed, adminVars, CrawlInv
<1>8. CASE BadLink
  <2>1. SourcesType'
        BY <1>0, <1>8, MarkedType DEF BadLink, Failed
  <2>2. QED BY <1>0, <1>e, <1>8, <2>1 DEF BadLink, Failed, GoOn, CrawlInv
<1>9. CASE StoreArticles
  <2>1. SourcesType'
        BY <1>0, <1>9, MarkedType DEF StoreArticles
  <2>2. items' \subseteq items \cup NewArticles
        BY <1>9 DEF StoreArticles
  <2>3. items' \subseteq Articles
        BY <2>2, NewArticlesAreArticles DEF CrawlInv
  <2>4. \A a, b \in items' : Title[a] = Title[b] => a = b
        BY <2>2, StoriesStayApart
  <2>5. QED BY <1>0, <1>e, <1>9, <2>1, <2>3, <2>4 DEF StoreArticles, CrawlInv
<1>10. ASSUME NEW h \in Hosts, Poll(h) PROVE CrawlInv'
  <2>1. source' \in Sources /\ todo' \subseteq Sources
        BY <1>10, FirstSource DEF Poll, CrawlInv
  <2>2. fetch'.ip \in Public /\ crawlPc' = "feed"
        BY <1>10, GetIsPublic DEF Poll
  <2>3. QED BY <1>10, <2>1, <2>2 DEF Poll, adminVars, CrawlInv
<1>11. ASSUME NEW h \in Hosts, Redirect(h) PROVE CrawlInv'
  <2>1. fetch'.ip \in Public
        BY <1>11, VettedIsPublic DEF Redirect
  <2>2. QED BY <1>11, <2>1 DEF Redirect, adminVars, CrawlInv
<1>12. ASSUME NEW h \in Hosts, NextArticle(h) PROVE CrawlInv'
  <2>1. fetch'.ip \in Public /\ crawlPc' = "article"
        BY <1>12, GetIsPublic DEF NextArticle
  <2>2. QED BY <1>12, <2>1 DEF NextArticle, adminVars, CrawlInv
<1>13. ASSUME NEW had \in BOOLEAN, ArticleEnds(had) PROVE CrawlInv'
  <2>1. crawlPc \in {"article", "entries"}
        BY <1>13 DEF ArticleEnds
  <2>2. {entries', got'} \subseteq Seq(Articles)
    <3>1. entries \in Seq(Articles) /\ got \in Seq(Articles) /\ entries # <<>>
          BY <1>13 DEF ArticleEnds, CrawlInv
    <3>2. Head(entries) \in Articles /\ Tail(entries) \in Seq(Articles)
          BY <3>1, HeadTailProperties
    <3>3. Append(got, Head(entries)) \in Seq(Articles)
          BY <3>1, <3>2, AppendProperties
    <3>4. QED BY <1>13, <3>1, <3>2, <3>3 DEF ArticleEnds
  <2>3. QED BY <1>0, <1>13, <2>1, <2>2 DEF ArticleEnds, adminVars, CrawlInv
<1>14. CASE CrawlCrash
      BY <1>0, <1>e, <1>14 DEF CrawlCrash, adminVars, CrawlInv
<1>15. ASSUME NEW h \in Hosts, NEW r \in Resolutions, Rebind(h, r) PROVE CrawlInv'
      BY <1>15 DEF Rebind, adminVars, jobVars, CrawlInv
<1>16. ASSUME NEW s \in Sources, CreateSource(s) PROVE CrawlInv'
  <2>1. SourcesType'
        BY <1>0, <1>16 DEF CreateSource, NewSource, CrawlInv
  <2>2. QED BY <1>16, <2>1 DEF CreateSource, jobVars, CrawlInv
<1>17. ASSUME NEW s \in Sources, NEW a \in {"toggle", "test", "delete"}, CurateSource(s, a) PROVE CrawlInv'
  <2>1. SourcesType'
    <3> DEFINE Row == [row : BOOLEAN, enabled : BOOLEAN, status : Status]
    <3>1. sources \in [Sources -> Row] /\ NoSource \in Row
          BY <1>0 DEF NoSource, CrawlInv
    <3>2. [sources[s] EXCEPT !.enabled = ~@] \in Row /\ [sources[s] EXCEPT !.status = "pending"] \in Row
          BY <1>0, <3>1
    <3>3. sources' \in {[sources EXCEPT ![s] = n] :
                            n \in {[sources[s] EXCEPT !.enabled = ~@], [sources[s] EXCEPT !.status = "pending"], NoSource}}
      <4>1. CASE a = "toggle"
        <5>1. sources' = [sources EXCEPT ![s] = [sources[s] EXCEPT !.enabled = ~sources[s].enabled]]
              BY <1>17, <4>1, Zenon DEF CurateSource
        <5>2. QED BY <5>1
      <4>2. CASE a = "test"
            BY <1>17, <3>1, <4>2 DEF CurateSource
      <4>3. CASE a = "delete"
            BY <1>17, <3>1, <4>3 DEF CurateSource
      <4>4. QED BY <4>1, <4>2, <4>3
    <3>4. QED BY <3>1, <3>2, <3>3
  <2>2. QED BY <1>17, <2>1 DEF CurateSource, jobVars, CrawlInv
<1>18. QED
  BY <1>1, <1>2, <1>3, <1>4, <1>5, <1>6, <1>7, <1>e, <1>8, <1>9, <1>10, <1>11, <1>12, <1>13, <1>14,
     <1>15, <1>16, <1>17, CrawlerAssumption
  DEF CrawlNext, Job, FeedRefused

\* One item for each story, and every request under way is to a vetted address.
THEOREM CrawlInvariant == CrawlSpec => []CrawlInv
  BY InitCrawl, CrawlStep, PTL DEF CrawlSpec

\* Whatever names resolve to meanwhile, only public addresses are connected to.
THEOREM ContactsArePublic == CrawlSpec => []OnlyPublicAddresses
<1>1. CrawlInit => OnlyPublicAddresses
      BY DEF CrawlInit, OnlyPublicAddresses
<1>2. CrawlInv /\ OnlyPublicAddresses /\ [CrawlNext]_crawlVars => OnlyPublicAddresses'
  <2> SUFFICES ASSUME CrawlInv, OnlyPublicAddresses, [CrawlNext]_crawlVars
               PROVE  contacted' \subseteq Public
      BY DEF OnlyPublicAddresses
  <2>1. ASSUME crawlPc \in {"feed", "article"}, Connected PROVE contacted' \subseteq Public
        BY <2>1 DEF Connected, Targets, CrawlInv, OnlyPublicAddresses
  <2>2. CASE UNCHANGED contacted
        BY <2>2 DEF OnlyPublicAddresses
  <2>3. QED
    <3>1. CASE Forbidden \/ Unsafe \/ FeedFails \/ \E l \in Feeds \cup {<<>>} : Feed(l)
          BY <2>1, <2>2, <3>1 DEF Forbidden, Unsafe, FeedFails, Feed
    <3>2. CASE \E h \in Hosts : Redirect(h)
          BY <2>1, <3>2 DEF Redirect
    <3>3. CASE \E had \in BOOLEAN : ArticleEnds(had)
          BY <2>1, <2>2, <3>3 DEF ArticleEnds
    <3>4. QED
      BY <2>2, <3>1, <3>2, <3>3
      DEF CrawlNext, Job, crawlVars, StartCrawl, EndCrawl, BadLink, StoreArticles, FeedRefused, Poll,
          NextArticle, CrawlCrash, Rebind, CreateSource, CurateSource
<1>3. QED BY <1>1, <1>2, CrawlInvariant, PTL DEF CrawlSpec

-----------------------------------------------------------------------------
(* How news goes out: Delivery.                                              *)

\* What a message takes is some of what there is.
LEMMA NewestAreSome == \A c, S : Newest(c, S) \subseteq S
  BY DEF Newest

\* The constants that the arithmetic below needs.
LEMMA BoundsAreNat ==
  /\ MaxItem \in Nat /\ MaxChoices \in Nat /\ MaxFaults \in Nat /\ Hours \in Nat \ {0}
  /\ NoReader \notin Readers
  BY DeliveryAssumption

\* What a user may be told of is published and has no row yet.
LEMMA CandidatesAreItems ==
  ASSUME TypeOK, NEW c, NEW u \in Readers
  PROVE  /\ Candidates(c, u) \subseteq 1 .. published
         /\ Candidates(c, u) \subseteq Items
         /\ \A i \in Candidates(c, u) : <<u, i>> \notin delivered
  BY BoundsAreNat DEF Candidates, TypeOK, Items

LEMMA NoRunIsRun == NoRun \in JobRuns
  BY DEF NoRun, JobRuns

\* The runs stay runs.
LEMMA RunsStayRuns ==
  ASSUME TypeOK, RunInv, [DmNext]_dmVars
  PROVE  job' \in [Channels -> JobRuns]
<1>j. job \in [Channels -> JobRuns] /\ \A c \in Channels : job[c] \in JobRuns
      BY DEF TypeOK
<1>2. ASSUME NextHour PROVE job' \in [Channels -> JobRuns]
  <2>1. \A c \in Channels : [job[c] EXCEPT !.today = FALSE] \in JobRuns
        BY <1>j DEF JobRuns
  <2>2. QED BY <1>2, <1>j, <2>1 DEF NextHour
<1>4. ASSUME NEW c \in Channels, StartRun(c) PROVE job' \in [Channels -> JobRuns]
  <2>1. [NoRun EXCEPT !.pc = "next", !.todo = {u \in Readers : mode[u] = ModeOf(c) /\ Due(c, u)}] \in JobRuns
        BY DEF NoRun, JobRuns
  <2>2. QED BY <1>4, <1>j, <2>1 DEF StartRun
<1>5. ASSUME NEW c \in Channels, NEW u \in Readers, Gather(c, u) PROVE job' \in [Channels -> JobRuns]
  <2>1. Newest(c, Candidates(c, u)) \subseteq Items
        BY NewestAreSome, CandidatesAreItems
  <2> DEFINE picked == Newest(c, Candidates(c, u))
  <2> DEFINE rest == [job[c] EXCEPT !.todo = @ \ {u}]
             message == [rest EXCEPT !.pc = "send", !.cur = u, !.items = picked]
  <2>2. job' = [job EXCEPT ![c] = IF picked = {} THEN rest ELSE message]
        BY <1>5 DEF Gather
  <2> HIDE DEF picked
  <2>3. rest \in JobRuns
        BY <1>j DEF JobRuns
  <2>4. message \in JobRuns
        BY <2>3, <2>1 DEF JobRuns, picked
  <2> HIDE DEF rest, message
  <2>5. QED BY <1>j, <2>2, <2>3, <2>4
<1>6. ASSUME NEW c \in Channels, EndRun(c) PROVE job' \in [Channels -> JobRuns]
      BY <1>6, <1>j, NoRunIsRun DEF EndRun
<1>7. ASSUME NEW c \in Channels, Send(c) PROVE job' \in [Channels -> JobRuns]
  <2>1. job'[c] \in JobRuns
        BY <1>7, <1>j DEF Send, AfterError, JobRuns
  <2>2. QED BY <1>7, <1>j, <2>1 DEF Send
<1>8. ASSUME NEW c \in Channels, TurnOff(c) PROVE job' \in [Channels -> JobRuns]
  <2>1. job'[c] \in JobRuns
        BY <1>8, <1>j, NoRunIsRun DEF TurnOff, JobRuns
  <2>2. QED BY <1>8, <1>j, <2>1 DEF TurnOff
<1>9. ASSUME NEW c \in Channels, Mark(c) PROVE job' \in [Channels -> JobRuns]
  <2> DEFINE n == job[c].sent + 1
             done == [job[c] EXCEPT !.pc = "next", !.sent = n, !.cur = NoReader, !.items = {}]
  <2>1. n \in Nat
        BY <1>j DEF JobRuns
  <2>2. \/ job' = [job EXCEPT ![c] = NoRun]
        \/ job' = [job EXCEPT ![c] = done]
        BY <1>9 DEF Mark
  <2> HIDE DEF n
  <2>4. done \in JobRuns
        BY <1>j, <2>1 DEF JobRuns
  <2> HIDE DEF done
  <2>3. QED BY <1>j, <2>2, <2>4, NoRunIsRun
<1>10. ASSUME DmCrash PROVE job' \in [Channels -> JobRuns]
      BY <1>10, NoRunIsRun DEF DmCrash
<1>11. ASSUME UNCHANGED job PROVE job' \in [Channels -> JobRuns]
      BY <1>11, <1>j
<1>12. ASSUME Publish \/ (\E u \in Readers : Prefs(u)) \/ UNCHANGED dmVars PROVE UNCHANGED job
      BY <1>12 DEF Publish, Prefs, SetDelivery, SetDigestHour, ToggleQuiet, ToggleBlock, newsVars, dmVars
<1>13. QED BY <1>2, <1>4, <1>5, <1>6, <1>7, <1>8, <1>9, <1>10, <1>11, <1>12 DEF DmNext, JobStep

\* The shape of the state is kept.
LEMMA DmTypeStep ==
  ASSUME TypeOK, RunInv, [DmNext]_dmVars
  PROVE  TypeOK'
<1>j. job' \in [Channels -> JobRuns]
      BY RunsStayRuns
<1> USE BoundsAreNat DEF TypeOK, Items, Modes, prefVars, newsVars, dmVars
<1>1. ASSUME Publish PROVE TypeOK'
      BY <1>1, <1>j, SMTT(30) DEF Publish
<1>2. ASSUME NextHour PROVE TypeOK'
  <2>1. (hour + 1) % Hours \in 0 .. Hours - 1
        OBVIOUS
  <2>2. digestToday' \subseteq Readers /\ digests' \in [Readers -> Nat]
        BY <1>2, SMTT(30) DEF NextHour
  <2>3. QED BY <1>2, <1>j, <2>1, <2>2 DEF NextHour
<1>3. ASSUME NEW u \in Readers, Prefs(u) PROVE TypeOK'
  <2>1. CASE \E m \in Modes : SetDelivery(u, m)
    <3>1. PICK m \in Modes : SetDelivery(u, m)
          BY <2>1
    <3>2. mode' \in [Readers -> Modes] /\ switches' \in [Readers -> Nat] /\ choices' \in 0 .. MaxChoices
          BY <3>1 DEF SetDelivery, Choose
    <3>3. UNCHANGED <<hour, published, digestHour, quiet, blocked, newsVars, faults>>
          BY <3>1 DEF SetDelivery
    <3>4. QED BY <1>j, <3>2, <3>3
  <2>2. CASE \E h \in 0 .. Hours - 1 : SetDigestHour(u, h)
    <3>1. PICK h \in 0 .. Hours - 1 : SetDigestHour(u, h)
          BY <2>2
    <3>2. digestHour' \in [Readers -> 0 .. Hours - 1] /\ choices' \in 0 .. MaxChoices
          BY <3>1 DEF SetDigestHour, Choose
    <3>3. UNCHANGED <<hour, published, mode, quiet, blocked, switches, newsVars, faults>>
          BY <3>1 DEF SetDigestHour
    <3>4. QED BY <1>j, <3>2, <3>3
  <2>3. CASE ToggleQuiet(u) \/ ToggleBlock(u)
        BY <1>j, <2>3, SMTT(30) DEF ToggleQuiet, ToggleBlock, Choose
  <2>4. QED BY <1>3, <2>1, <2>2, <2>3 DEF Prefs
<1>4. ASSUME NEW c \in Channels, StartRun(c) \/ EndRun(c) \/ \E u \in Readers : Gather(c, u) PROVE TypeOK'
      BY <1>4, <1>j DEF StartRun, EndRun, Gather
<1>7. ASSUME NEW c \in Channels, Send(c) PROVE TypeOK'
  <2>1. job[c].cur \in Readers
        BY <1>7 DEF Send, RunInv, RunOk
  <2>2. ASSUME Arrives(c) PROVE dms' \in [Readers -> [Items -> Nat]] /\ digests' \in [Readers -> Nat]
    <3> DEFINE r == job[c].cur
               counts == [i \in Items |-> IF i \in job[c].items THEN dms[r][i] + 1 ELSE dms[r][i]]
    <3>1. counts \in [Items -> Nat]
          BY <2>1
    <3>2. dms' = [dms EXCEPT ![r] = counts]
          BY <2>1, <2>2 DEF Arrives
    <3>3. digests' = digests \/ digests' = [digests EXCEPT ![r] = @ + 1]
          BY <2>2 DEF Arrives
    <3> HIDE DEF counts
    <3>4. digests' \in [Readers -> Nat]
      <4>1. digests \in [Readers -> Nat]
            OBVIOUS
      <4> HIDE DEF TypeOK
      <4>2. QED BY <2>1, <3>3, <4>1
    <3>5. dms' \in [Readers -> [Items -> Nat]]
          BY <2>1, <3>1, <3>2
    <3>6. QED BY <3>4, <3>5
  <2>3. dms' \in [Readers -> [Items -> Nat]] /\ digests' \in [Readers -> Nat]
        BY <1>7, <2>2 DEF Send
  <2>4. faults' \in 0 .. MaxFaults
        BY <1>7 DEF Send, Fault
  <2>5. UNCHANGED <<hour, published, prefVars, digestToday, delivered>>
        BY <1>7 DEF Send
  <2>6. QED BY <1>j, <2>3, <2>4, <2>5
<1>8. ASSUME NEW c \in Channels, TurnOff(c) PROVE TypeOK'
  <2>1. mode' \in [Readers -> Modes]
        BY <1>8 DEF TurnOff
  <2>2. faults' \in 0 .. MaxFaults
        BY <1>8 DEF TurnOff, Fault
  <2>3. UNCHANGED <<hour, published, digestHour, quiet, blocked, switches, choices,
                    digestToday, delivered, dms, digests>>
        BY <1>8 DEF TurnOff
  <2>4. QED BY <1>j, <2>1, <2>2, <2>3
<1>9. ASSUME NEW c \in Channels, Mark(c) PROVE TypeOK'
  <2>1. job[c].cur \in Readers /\ job[c].items \subseteq Items
        BY <1>9 DEF Mark, RunInv, RunOk, JobRuns
  <2>2. {job[c].cur} \X job[c].items \subseteq Readers \X Items
        BY <2>1
  <2>3. delivered' \subseteq Readers \X Items /\ digestToday' \subseteq Readers
        BY <1>9, <2>1, <2>2 DEF Mark
  <2>4. faults' \in 0 .. MaxFaults
        BY <1>9 DEF Mark, Fault
  <2>5. UNCHANGED <<hour, published, prefVars, dms, digests>>
        BY <1>9 DEF Mark
  <2>6. QED BY <1>j, <2>3, <2>4, <2>5
<1>10. ASSUME DmCrash PROVE TypeOK'
      BY <1>10, <1>j DEF DmCrash, Fault
<1>11. ASSUME UNCHANGED dmVars PROVE TypeOK'
      BY <1>11
<1>12. QED BY <1>1, <1>2, <1>3, <1>4, <1>7, <1>8, <1>9, <1>10, <1>11 DEF DmNext, JobStep

-----------------------------------------------------------------------------
(* What each step does to the runs, field by field.                         *)

\* Taking up a user ends with nothing to send or a message to send.
LEMMA GatherRun ==
  ASSUME TypeOK, NEW c \in Channels, NEW u \in Readers, Gather(c, u)
  PROVE  /\ \A d \in Channels \ {c} : job'[d] = job[d]
         /\ job[c].pc = "next" /\ u \in job[c].todo
         /\ job'[c].todo = job[c].todo \ {u} /\ job'[c].today = job[c].today
         /\ \/ job'[c].pc = "next"
            \/ /\ job'[c].pc = "send" /\ job'[c].cur = u
               /\ job'[c].items # {} /\ job'[c].items \subseteq Candidates(c, u)
<1> DEFINE picked == Newest(c, Candidates(c, u))
           rest == [job[c] EXCEPT !.todo = @ \ {u}]
           message == [rest EXCEPT !.pc = "send", !.cur = u, !.items = picked]
<1>1. /\ job' = [job EXCEPT ![c] = IF picked = {} THEN rest ELSE message]
      /\ job[c].pc = "next" /\ u \in job[c].todo
      BY DEF Gather
<1>2. job \in [Channels -> JobRuns]
      BY DEF TypeOK
<1>3. picked \subseteq Candidates(c, u)
      BY NewestAreSome
<1> HIDE DEF picked
<1>4. rest.todo = job[c].todo \ {u} /\ rest.today = job[c].today /\ rest.pc = job[c].pc
      BY <1>2 DEF JobRuns
<1>5. /\ message.todo = job[c].todo \ {u} /\ message.today = job[c].today /\ message.pc = "send"
      /\ message.cur = u /\ message.items = picked
      BY <1>2 DEF JobRuns
<1> HIDE DEF rest, message
<1>6. /\ \A d \in Channels \ {c} : job'[d] = job[d]
      /\ job'[c] = IF picked = {} THEN rest ELSE message
      BY <1>1, <1>2
<1>7. QED BY <1>1, <1>3, <1>4, <1>5, <1>6

\* A send ends with the user switched off, with rows to write, or with a fault that
\* may hide that the message came.
LEMMA SendRun ==
  ASSUME TypeOK, NEW c \in Channels, Send(c)
  PROVE  /\ \A d \in Channels \ {c} : job'[d] = job[d]
         /\ job[c].pc = "send"
         /\ job'[c].todo = job[c].todo /\ job'[c].today = job[c].today
         /\ job'[c].cur = job[c].cur /\ job'[c].items = job[c].items
         /\ \/ job'[c].pc = "off" /\ UNCHANGED <<dms, digests, faults>>
            \/ job'[c].pc = "mark" /\ Arrives(c) /\ UNCHANGED faults
            \/ /\ job'[c].pc = "next" /\ faults' = faults + 1
               /\ Arrives(c) \/ UNCHANGED <<dms, digests>>
<1>1. job \in [Channels -> JobRuns]
      BY DEF TypeOK
<1>2. job[c].pc = "send"
      BY DEF Send
<1>3. CASE job' = [job EXCEPT ![c].pc = "off"] /\ UNCHANGED <<dms, digests, faults>>
      BY <1>1, <1>2, <1>3 DEF JobRuns
<1>4. CASE Arrives(c) /\ job' = [job EXCEPT ![c].pc = "mark"] /\ UNCHANGED faults
      BY <1>1, <1>2, <1>4 DEF JobRuns
<1>5. CASE /\ Fault /\ job' = [job EXCEPT ![c].pc = "next"]
           /\ Arrives(c) \/ UNCHANGED <<dms, digests>>
      BY <1>1, <1>2, <1>5 DEF JobRuns, Fault
<1>6. QED BY <1>3, <1>4, <1>5 DEF Send, AfterError

\* A message that comes counts for each of its items, and for one digest.
LEMMA Arrivals ==
  ASSUME TypeOK, NEW c \in Channels, job[c].cur \in Readers, Arrives(c)
  PROVE  /\ \A u \in Readers, i \in Items :
                dms'[u][i] = IF u = job[c].cur /\ i \in job[c].items THEN dms[u][i] + 1 ELSE dms[u][i]
         /\ \A u \in Readers :
                digests'[u] = IF u = job[c].cur /\ c = "digest" /\ job[c].today
                              THEN digests[u] + 1 ELSE digests[u]
<1> DEFINE r == job[c].cur
           counts == [i \in Items |-> IF i \in job[c].items THEN dms[r][i] + 1 ELSE dms[r][i]]
<1>1. dms \in [Readers -> [Items -> Nat]] /\ digests \in [Readers -> Nat]
      BY DEF TypeOK
<1>2. dms' = [dms EXCEPT ![r] = counts]
      BY <1>1 DEF Arrives
<1>3. \A i \in Items : counts[i] = IF i \in job[c].items THEN dms[r][i] + 1 ELSE dms[r][i]
      OBVIOUS
<1> HIDE DEF counts
<1>4. \A u \in Readers, i \in Items :
         dms'[u][i] = IF u = r /\ i \in job[c].items THEN dms[u][i] + 1 ELSE dms[u][i]
      BY <1>1, <1>2, <1>3
<1>5. \A u \in Readers :
         digests'[u] = IF u = r /\ c = "digest" /\ job[c].today THEN digests[u] + 1 ELSE digests[u]
      BY <1>1 DEF Arrives
<1>6. QED BY <1>4, <1>5

\* A user who blocked the bot is switched off, or the commit failed and the run is lost.
LEMMA TurnOffRun ==
  ASSUME TypeOK, NEW c \in Channels, job[c].cur \in Readers, TurnOff(c)
  PROVE  /\ \A d \in Channels \ {c} : job'[d] = job[d]
         /\ job[c].pc = "off"
         /\ \/ /\ job'[c].pc = "next" /\ job'[c].todo = job[c].todo /\ job'[c].today = job[c].today
               /\ \A u \in Readers : mode'[u] = IF u = job[c].cur THEN "off" ELSE mode[u]
               /\ UNCHANGED faults
            \/ job'[c] = NoRun /\ UNCHANGED mode /\ faults' = faults + 1
<1>1. job \in [Channels -> JobRuns] /\ mode \in [Readers -> Modes]
      BY DEF TypeOK
<1>2. job[c].pc = "off"
      BY DEF TurnOff
<1>3. CASE /\ mode' = [mode EXCEPT ![job[c].cur] = "off"]
           /\ job' = [job EXCEPT ![c].pc = "next"]
           /\ UNCHANGED faults
      BY <1>1, <1>2, <1>3 DEF JobRuns
<1>4. CASE Fault /\ job' = [job EXCEPT ![c] = NoRun] /\ UNCHANGED mode
      BY <1>1, <1>2, <1>4 DEF JobRuns, Fault
<1>5. QED BY <1>3, <1>4 DEF TurnOff

\* Rows are written, or the commit failed and the run is lost.
LEMMA MarkRun ==
  ASSUME TypeOK, NEW c \in Channels, Mark(c)
  PROVE  /\ \A d \in Channels \ {c} : job'[d] = job[d]
         /\ job[c].pc = "mark"
         /\ \/ /\ job'[c].pc = "next" /\ job'[c].todo = job[c].todo /\ job'[c].today = job[c].today
               /\ ~ Doomed(c) /\ UNCHANGED faults
               /\ delivered' = delivered \cup ({job[c].cur} \X job[c].items)
               /\ digestToday' = IF c = "digest" /\ job[c].today
                                 THEN digestToday \cup {job[c].cur} ELSE digestToday
            \/ /\ job'[c] = NoRun /\ UNCHANGED <<delivered, digestToday>>
               /\ IF Doomed(c) THEN UNCHANGED faults ELSE faults' = faults + 1
<1> DEFINE rows == {job[c].cur} \X job[c].items
           done == [job[c] EXCEPT !.pc = "next", !.sent = @ + 1, !.cur = NoReader, !.items = {}]
<1>1. job \in [Channels -> JobRuns]
      BY DEF TypeOK
<1>2. job[c].pc = "mark"
      BY DEF Mark
<1>3. done.pc = "next" /\ done.todo = job[c].todo /\ done.today = job[c].today
      BY <1>1 DEF JobRuns
<1>4. Doomed(c) <=> rows \cap delivered # {}
      BY DEF Doomed
<1>5. \/ /\ rows \cap delivered = {} /\ job' = [job EXCEPT ![c] = done]
         /\ delivered' = delivered \cup rows
         /\ digestToday' = IF c = "digest" /\ job[c].today
                           THEN digestToday \cup {job[c].cur} ELSE digestToday
         /\ UNCHANGED faults
      \/ /\ IF rows \cap delivered = {} THEN Fault ELSE UNCHANGED faults
         /\ job' = [job EXCEPT ![c] = NoRun]
         /\ UNCHANGED <<delivered, digestToday>>
      BY DEF Mark
<1> HIDE DEF rows, done
<1>6. CASE /\ rows \cap delivered = {} /\ job' = [job EXCEPT ![c] = done]
           /\ delivered' = delivered \cup rows
           /\ digestToday' = IF c = "digest" /\ job[c].today
                             THEN digestToday \cup {job[c].cur} ELSE digestToday
           /\ UNCHANGED faults
      BY <1>1, <1>2, <1>3, <1>4, <1>6 DEF rows
<1>7. CASE /\ IF rows \cap delivered = {} THEN Fault ELSE UNCHANGED faults
           /\ job' = [job EXCEPT ![c] = NoRun]
           /\ UNCHANGED <<delivered, digestToday>>
      BY <1>1, <1>2, <1>4, <1>7 DEF Fault
<1>8. QED BY <1>5, <1>6, <1>7

-----------------------------------------------------------------------------
(* What each step does to the claims.                                       *)

\* A channel may still send an item once or twice.
LEMMA ClaimsAreFew == \A c, u, i : Claims(c, u, i) \in 0 .. 2 /\ Claims(c, u, i)' \in 0 .. 2
  BY DEF Claims

LEMMA DigestClaimsAreFew ==
  \A u : /\ DigestClaims(u) \in 0 .. 2 /\ DigestClaims(u)' \in 0 .. 2
         /\ Interferes(u) \in 0 .. 1 /\ Interferes(u)' \in 0 .. 1
  BY DEF DigestClaims, Interferes

\* While its run, the mode and the rows stay, so does what a channel may still send.
LEMMA ClaimsUnchanged ==
  ASSUME NEW d, NEW u, NEW i, job'[d] = job[d], mode'[u] = mode[u], UNCHANGED delivered
  PROVE  Claims(d, u, i)' = Claims(d, u, i)
  BY DEF Claims, Handles, Carries, Doomed

\* Between runs a channel may send what the user has asked of it and has not had.
LEMMA IdleClaims ==
  ASSUME NEW c, NEW u, NEW i, job[c] = NoRun
  PROVE  /\ Claims(c, u, i) = IF <<u, i>> \notin delivered /\ mode[u] = ModeOf(c) THEN 1 ELSE 0
         /\ ~ Carries(c, u)
<1>1. job[c].pc = "idle" /\ job[c].todo = {}
      BY DEF NoRun
<1>2. QED BY <1>1 DEF Claims, Carries, Handles

\* Taking up a user sends nothing and may be the end of sending it.
LEMMA GatherClaims ==
  ASSUME TypeOK, RunInv, NEW c \in Channels, NEW r \in Readers, Gather(c, r),
         NEW u \in Readers, NEW i \in Items
  PROVE  Claims(c, u, i)' <= Claims(c, u, i) /\ (Carries(c, u)' => Carries(c, u))
<1>1. UNCHANGED <<mode, delivered>>
      BY DEF Gather, prefVars
<1>2. /\ job[c].pc = "next" /\ r \in job[c].todo
      /\ job'[c].todo = job[c].todo \ {r}
      BY GatherRun
<1>3. CASE job'[c].pc = "next"
      BY <1>1, <1>2, <1>3 DEF Claims, Handles, Carries
<1>4. CASE /\ job'[c].pc = "send" /\ job'[c].cur = r
           /\ job'[c].items # {} /\ job'[c].items \subseteq Candidates(c, r)
  <2>1. \A j \in job'[c].items : <<r, j>> \notin delivered
        BY <1>4, CandidatesAreItems
  <2>2. ~ Doomed(c)'
        BY <1>1, <1>4, <2>1 DEF Doomed
  <2>3. CASE u = r
        BY <1>1, <1>2, <1>4, <2>1, <2>2, <2>3 DEF Claims, Handles, Carries
  <2>4. CASE u # r
        BY <1>1, <1>2, <1>4, <2>4 DEF Claims, Handles, Carries
  <2>5. QED BY <2>3, <2>4
<1>5. QED BY <1>3, <1>4, GatherRun

\* A run begins with the users that are due.
LEMMA StartRunRun ==
  ASSUME TypeOK, RunInv, NEW c \in Channels, StartRun(c)
  PROVE  /\ \A d \in Channels \ {c} : job'[d] = job[d]
         /\ job[c] = NoRun
         /\ job'[c].pc = "next" /\ job'[c].today = TRUE
         /\ job'[c].todo = {u \in Readers : mode[u] = ModeOf(c) /\ Due(c, u)}
<1> DEFINE list == {u \in Readers : mode[u] = ModeOf(c) /\ Due(c, u)}
           run == [NoRun EXCEPT !.pc = "next", !.todo = list]
<1>1. job \in [Channels -> JobRuns]
      BY DEF TypeOK
<1>2. job[c] = NoRun
      BY DEF StartRun, RunInv, RunOk
<1>3. job' = [job EXCEPT ![c] = run]
      BY DEF StartRun
<1> HIDE DEF list
<1>4. run.pc = "next" /\ run.todo = list /\ run.today = TRUE
      BY DEF NoRun
<1> HIDE DEF run
<1>5. QED BY <1>1, <1>2, <1>3, <1>4 DEF list

\* A run begins with what could be sent before it.
LEMMA StartRunClaims ==
  ASSUME TypeOK, RunInv, NEW c \in Channels, StartRun(c), NEW u \in Readers, NEW i \in Items
  PROVE  /\ Claims(c, u, i)' <= Claims(c, u, i)
         /\ Carries(c, u)' => mode[u] = ModeOf(c)
<1>1. UNCHANGED <<mode, delivered>>
      BY DEF StartRun, prefVars
<1>2. /\ job[c] = NoRun /\ job'[c].pc = "next"
      /\ job'[c].todo = {v \in Readers : mode[v] = ModeOf(c) /\ Due(c, v)}
      BY StartRunRun
<1>3. Claims(c, u, i) = IF <<u, i>> \notin delivered /\ mode[u] = ModeOf(c) THEN 1 ELSE 0
      BY <1>2, IdleClaims
<1>4. QED BY <1>1, <1>2, <1>3 DEF Claims, Handles, Carries

\* A run ends when nobody is left.
LEMMA EndRunRun ==
  ASSUME TypeOK, NEW c \in Channels, EndRun(c)
  PROVE  /\ \A d \in Channels \ {c} : job'[d] = job[d]
         /\ job[c].pc = "next" /\ job'[c] = NoRun
  BY DEF TypeOK, EndRun

\* A run that ends gives up at most what it had, but for the item it has sent.
LEMMA LostRunClaims ==
  ASSUME NEW c, NEW u, NEW i, job'[c] = NoRun, UNCHANGED <<mode, delivered>>
  PROVE  /\ Claims(c, u, i)' <= 1 /\ ~ Carries(c, u)'
         /\ mode[u] # ModeOf(c) => Claims(c, u, i)' = 0
         /\ <<u, i>> \in delivered => Claims(c, u, i)' = 0
         /\ ~ (Handles(c, u) /\ i \in job[c].items /\ job[c].pc = "mark" /\ ~ Doomed(c)) =>
               Claims(c, u, i)' <= Claims(c, u, i)
<1>1. job'[c].pc = "idle" /\ job'[c].todo = {}
      BY DEF NoRun
<1>2. Claims(c, u, i)' = IF <<u, i>> \notin delivered /\ mode[u] = ModeOf(c) THEN 1 ELSE 0
      BY <1>1 DEF Claims, Carries, Handles
<1>3. ~ Carries(c, u)'
      BY <1>1 DEF Carries, Handles
<1>4. ASSUME ~ (Handles(c, u) /\ i \in job[c].items /\ job[c].pc = "mark" /\ ~ Doomed(c))
      PROVE  Claims(c, u, i)' <= Claims(c, u, i)
      BY <1>2, <1>4 DEF Claims, Carries, Handles
<1>5. QED BY <1>2, <1>3, <1>4

\* A message sent spends what could be sent, unless there was a fault.
LEMMA SendClaims ==
  ASSUME TypeOK, RunInv, NEW c \in Channels, Send(c), NEW u \in Readers, NEW i \in Items
  PROVE  /\ dms'[u][i] + Claims(c, u, i)' - dms[u][i] - Claims(c, u, i) <= faults' - faults
         /\ Carries(c, u)' => Carries(c, u)
<1>0. job[c].cur \in Readers /\ job[c].pc = "send" /\ job[c].cur \notin job[c].todo
      BY DEF Send, RunInv, RunOk
<1>1. UNCHANGED <<mode, delivered>>
      BY DEF Send, prefVars
<1>2. /\ job'[c].todo = job[c].todo
      /\ job'[c].cur = job[c].cur /\ job'[c].items = job[c].items
      BY SendRun
<1>3. dms \in [Readers -> [Items -> Nat]] /\ dms[u][i] \in Nat /\ faults \in Nat
      BY BoundsAreNat DEF TypeOK
<1>4. Doomed(c)' <=> Doomed(c)
      BY <1>1, <1>2 DEF Doomed
<1>5. ASSUME Arrives(c)
      PROVE dms'[u][i] = IF u = job[c].cur /\ i \in job[c].items THEN dms[u][i] + 1 ELSE dms[u][i]
      BY <1>0, <1>5, Arrivals
<1>6. CASE job'[c].pc = "off" /\ UNCHANGED <<dms, digests, faults>>
  <2>1. dms'[u][i] = dms[u][i] /\ faults' = faults
        BY <1>6
  <2>2. Claims(c, u, i)' <= Claims(c, u, i) /\ (Carries(c, u)' => Carries(c, u))
        BY <1>0, <1>1, <1>2, <1>4, <1>6 DEF Claims, Handles, Carries
  <2>3. QED BY <1>3, <2>1, <2>2, ClaimsAreFew
<1>7. CASE job'[c].pc = "mark" /\ Arrives(c) /\ UNCHANGED faults
  <2>1. CASE u = job[c].cur /\ i \in job[c].items
    <3>1. Claims(c, u, i)' + 1 = Claims(c, u, i)
          BY <1>0, <1>1, <1>2, <1>4, <1>7, <2>1 DEF Claims, Handles, Carries
    <3>2. dms'[u][i] = dms[u][i] + 1
          BY <1>5, <1>7, <2>1
    <3>3. QED BY <1>0, <1>2, <1>3, <1>7, <2>1, <3>1, <3>2, ClaimsAreFew DEF Carries, Handles
  <2>2. CASE ~ (u = job[c].cur /\ i \in job[c].items)
    <3>1. Claims(c, u, i)' = Claims(c, u, i)
          BY <1>0, <1>1, <1>2, <1>4, <1>7, <2>2 DEF Claims, Handles, Carries
    <3>2. dms'[u][i] = dms[u][i]
          BY <1>5, <1>7, <2>2
    <3>3. QED BY <1>0, <1>2, <1>3, <1>7, <3>1, <3>2, ClaimsAreFew DEF Carries, Handles
  <2>3. QED BY <2>1, <2>2
<1>8. CASE /\ job'[c].pc = "next" /\ faults' = faults + 1
           /\ Arrives(c) \/ UNCHANGED <<dms, digests>>
  <2>1. dms'[u][i] = dms[u][i] \/ dms'[u][i] = dms[u][i] + 1
        BY <1>5, <1>8
  <2>2. Claims(c, u, i)' <= Claims(c, u, i) /\ (Carries(c, u)' => Carries(c, u))
        BY <1>0, <1>1, <1>2, <1>8 DEF Claims, Handles, Carries
  <2>3. QED BY <1>3, <1>8, <2>1, <2>2, ClaimsAreFew
<1>9. QED BY <1>6, <1>7, <1>8, SendRun

\* A user switched off is owed no more than before.
LEMMA TurnOffClaims ==
  ASSUME TypeOK, RunInv, NEW c \in Channels, TurnOff(c), NEW d \in Channels, NEW u \in Readers, NEW i \in Items
  PROVE  /\ Claims(d, u, i)' <= Claims(d, u, i)
         /\ Carries(d, u)' => Carries(d, u)
         /\ faults' \in {faults, faults + 1}
         /\ mode'[u] \in {mode[u], "off"}
<1>0. job[c].cur \in Readers /\ job[c].cur \notin job[c].todo /\ job[c].pc = "off"
      BY DEF TurnOff, RunInv, RunOk
<1>1. UNCHANGED delivered
      BY DEF TurnOff
<1>2. ModeOf(d) # "off"
      BY DEF ModeOf
<1>3. CASE /\ job'[c].pc = "next" /\ job'[c].todo = job[c].todo
           /\ \A v \in Readers : mode'[v] = IF v = job[c].cur THEN "off" ELSE mode[v]
           /\ UNCHANGED faults
  <2>1. CASE d = c
        BY <1>0, <1>1, <1>2, <1>3, <2>1 DEF Claims, Handles, Carries
  <2>2. CASE d # c
    <3>1. job'[d] = job[d]
          BY <1>0, <2>2, TurnOffRun
    <3>2. QED BY <1>1, <1>2, <1>3, <3>1 DEF Claims, Handles, Carries, Doomed
  <2>3. QED BY <2>1, <2>2
<1>4. CASE job'[c] = NoRun /\ UNCHANGED mode /\ faults' = faults + 1
  <2>1. CASE d = c
        BY <1>0, <1>1, <1>4, <2>1, LostRunClaims
  <2>2. CASE d # c
    <3>1. job'[d] = job[d]
          BY <1>0, <2>2, TurnOffRun
    <3>2. QED BY <1>1, <1>2, <1>4, <3>1 DEF Claims, Handles, Carries, Doomed
  <2>3. QED BY <2>1, <2>2
<1>5. QED BY <1>0, <1>3, <1>4, TurnOffRun

\* The rows of a message doom no message to anybody else.
LEMMA MarkedDooms ==
  ASSUME NEW c \in Channels, NEW d \in Channels, NEW u, Mark(c), TypeOK,
         delivered' = delivered \cup ({job[c].cur} \X job[c].items),
         job'[d] = job[d], job[d].cur # job[c].cur
  PROVE  Doomed(d)' <=> Doomed(d)
  BY DEF Doomed

\* Rows keep an item from being sent again, by either channel; if they fail to be
\* written that is a fault.
LEMMA MarkClaims ==
  ASSUME TypeOK, RunInv, NEW c \in Channels, Mark(c), NEW d \in Channels, d # c,
         NEW u \in Readers, NEW i \in Items
  PROVE  /\ Claims(c, u, i)' + Claims(d, u, i)' - Claims(c, u, i) - Claims(d, u, i) <= faults' - faults
         /\ Carries(c, u)' => Carries(c, u)
         /\ Carries(d, u)' <=> Carries(d, u)
<1>0. /\ job[c].cur \in Readers /\ job[c].cur \notin job[c].todo /\ job[c].pc = "mark"
      /\ faults \in Nat
      BY BoundsAreNat DEF Mark, RunInv, RunOk, TypeOK
<1>1. UNCHANGED mode /\ job'[d] = job[d]
      BY MarkRun DEF Mark, prefVars
<1>2. Carries(d, u)' <=> Carries(d, u)
      BY <1>1 DEF Carries, Handles
<1> DEFINE r == job[c].cur
           rows == {r} \X job[c].items
<1>3. CASE /\ job'[c].pc = "next" /\ job'[c].todo = job[c].todo
           /\ ~ Doomed(c) /\ UNCHANGED faults
           /\ delivered' = delivered \cup rows
  <2>1. Carries(c, u)' => Carries(c, u)
        BY <1>3 DEF Carries, Handles
  <2>2. CASE u # r
    <3>1. \A j : <<u, j>> \in delivered' <=> <<u, j>> \in delivered
          BY <1>3, <2>2
    <3>2. Claims(c, u, i)' <= Claims(c, u, i)
          BY <1>0, <1>1, <1>3, <2>2, <3>1 DEF Claims, Handles, Carries
    <3>3. CASE Handles(d, u)
      <4>1. Doomed(d)' <=> Doomed(d)
            BY <1>1, <1>3, <2>2, <3>3, MarkedDooms DEF Handles
      <4>2. QED BY <1>1, <3>1, <3>2, <4>1, <1>0, <1>2, <1>3, <2>1, ClaimsAreFew DEF Claims, Handles, Carries
    <3>4. CASE ~ Handles(d, u)
      <4>1. Claims(d, u, i)' = Claims(d, u, i)
            BY <1>1, <3>1, <3>4 DEF Claims, Handles, Carries
      <4>2. QED BY <4>1, <3>2, <1>0, <1>2, <1>3, <2>1, ClaimsAreFew
    <3>5. QED BY <3>3, <3>4
  <2>3. CASE u = r /\ i \in job[c].items
    <3>1. <<u, i>> \notin delivered /\ <<u, i>> \in delivered'
          BY <1>3, <2>3 DEF Doomed
    <3>2. Claims(c, u, i)' = 0
          BY <1>3, <3>1 DEF Claims
    <3>3. Claims(d, u, i)' <= Claims(d, u, i)
          BY <1>1, <3>1 DEF Claims, Handles
    <3>4. QED BY <3>2, <3>3, <1>0, <1>2, <1>3, <2>1, ClaimsAreFew
  <2>4. CASE u = r /\ i \notin job[c].items /\ <<u, i>> \in delivered
    <3>1. <<u, i>> \in delivered'
          BY <1>3, <2>4
    <3>2. Claims(c, u, i)' = 0
          BY <1>3, <3>1 DEF Claims
    <3>3. Claims(d, u, i)' = Claims(d, u, i)
          BY <1>1, <2>4, <3>1 DEF Claims, Handles
    <3>4. QED BY <3>2, <3>3, <1>0, <1>2, <1>3, <2>1, ClaimsAreFew
  <2>5. CASE u = r /\ i \notin job[c].items /\ <<u, i>> \notin delivered
    <3>1. <<u, i>> \notin delivered'
          BY <1>3, <2>5
    <3>2. Claims(c, u, i) = 1
          BY <1>0, <2>5 DEF Claims, Handles, Carries
    <3>3. Claims(c, u, i)' = IF mode[u] = ModeOf(c) THEN 1 ELSE 0
          BY <1>0, <1>1, <1>3, <2>5, <3>1 DEF Claims, Handles, Carries
    <3>4. Claims(d, u, i)' <= Claims(d, u, i) + (IF mode[u] = ModeOf(d) THEN 1 ELSE 0)
          BY <1>1, <2>5, <3>1 DEF Claims, Handles, Carries
    <3>5. ModeOf(c) # ModeOf(d)
          BY DEF ModeOf, Channels
    <3>6. QED BY <3>2, <3>3, <3>4, <3>5, <1>0, <1>2, <1>3, <2>1, ClaimsAreFew
  <2>6. QED BY <2>2, <2>3, <2>4, <2>5
<1>4. CASE /\ job'[c] = NoRun /\ UNCHANGED delivered
           /\ IF Doomed(c) THEN UNCHANGED faults ELSE faults' = faults + 1
  <2>1. Claims(d, u, i)' = Claims(d, u, i)
        BY <1>1, <1>4, ClaimsUnchanged
  <2>2. Claims(c, u, i)' <= 1 /\ ~ Carries(c, u)'
        BY <1>1, <1>4, LostRunClaims
  <2>3. ~ (Handles(c, u) /\ i \in job[c].items /\ ~ Doomed(c)) => Claims(c, u, i)' <= Claims(c, u, i)
        BY <1>1, <1>4, LostRunClaims
  <2>4. QED BY <2>1, <2>2, <2>3, <1>0, <1>2, <1>4, ClaimsAreFew
<1>5. QED BY <1>3, <1>4, MarkRun

\* A change of preferences may make one more message possible, and is counted.
LEMMA SwitchClaims ==
  ASSUME TypeOK, NEW r \in Readers, NEW m \in Modes, SetDelivery(r, m),
         NEW u \in Readers, NEW i
  PROVE  /\ Claims("realtime", u, i)' + Claims("digest", u, i)'
               - Claims("realtime", u, i) - Claims("digest", u, i) <= switches'[u] - switches[u]
         /\ DigestClaims(u)' + Interferes(u)' - DigestClaims(u) - Interferes(u) <= switches'[u] - switches[u]
         /\ \A c : Carries(c, u)' <=> Carries(c, u)
         /\ switches'[u] - switches[u] \in Nat
         /\ u # r => mode'[u] = mode[u]
         /\ u = r => switches'[u] = switches[u] + 1
<1>1. /\ mode'[u] = (IF u = r THEN m ELSE mode[u])
      /\ switches'[u] = (IF u = r THEN switches[u] + 1 ELSE switches[u])
      /\ switches[u] \in Nat
      BY DEF TypeOK, SetDelivery
<1>2. UNCHANGED <<job, delivered, digestToday>>
      BY DEF SetDelivery, newsVars
<1>3. \A c : (Carries(c, u)' <=> Carries(c, u)) /\ (Handles(c, u)' <=> Handles(c, u)) /\ (Doomed(c)' <=> Doomed(c))
      BY <1>2 DEF Carries, Handles, Doomed
<1>4. CASE u # r
  <2>1. \A c : Claims(c, u, i)' = Claims(c, u, i)
        BY <1>1, <1>2, <1>4, ClaimsUnchanged
  <2>2. DigestClaims(u)' = DigestClaims(u) /\ Interferes(u)' = Interferes(u)
        BY <1>1, <1>2, <1>3, <1>4 DEF DigestClaims, Interferes
  <2>3. QED BY <1>1, <1>3, <1>4, <2>1, <2>2, ClaimsAreFew, DigestClaimsAreFew
<1>5. CASE u = r
  <2>1. \A c : Claims(c, u, i)' <= Claims(c, u, i) + (IF m = ModeOf(c) THEN 1 ELSE 0)
        BY <1>1, <1>2, <1>3, <1>5 DEF Claims
  <2>2. DigestClaims(u)' <= DigestClaims(u) + (IF m = "daily" THEN 1 ELSE 0)
        BY <1>1, <1>2, <1>3, <1>5 DEF DigestClaims
  <2>3. Interferes(u)' <= Interferes(u) + (IF m = "realtime" THEN 1 ELSE 0)
        BY <1>1, <1>3, <1>5 DEF Interferes
  <2>4. ModeOf("digest") = "daily" /\ ModeOf("realtime") = "realtime"
        BY DEF ModeOf
  <2>5. /\ Claims("realtime", u, i)' <= Claims("realtime", u, i) + (IF m = "realtime" THEN 1 ELSE 0)
        /\ Claims("digest", u, i)' <= Claims("digest", u, i) + (IF m = "daily" THEN 1 ELSE 0)
        BY <2>1, <2>4
  <2>6. switches'[u] - switches[u] = 1
        BY <1>1, <1>5
  <2>7. Claims("realtime", u, i)' + Claims("digest", u, i)'
           - Claims("realtime", u, i) - Claims("digest", u, i) <= 1
        BY <2>5, ClaimsAreFew
  <2>8. DigestClaims(u)' + Interferes(u)' - DigestClaims(u) - Interferes(u) <= 1
        BY <2>2, <2>3, DigestClaimsAreFew
  <2>9. QED BY <1>1, <1>3, <1>5, <2>6, <2>7, <2>8
<1>6. QED BY <1>4, <1>5

-----------------------------------------------------------------------------
(* The same for the claims of digests.                                      *)

\* The same of digests.
LEMMA DigestClaimsUnchanged ==
  ASSUME NEW u, job'["digest"] = job["digest"], mode'[u] = mode[u], UNCHANGED <<digestToday, delivered>>
  PROVE  DigestClaims(u)' = DigestClaims(u)
  BY DEF DigestClaims, Handles, Carries, Doomed

\* A run of the other channel can interfere with one digest, and then no more.
LEMMA InterferesLess ==
  ASSUME NEW u, Carries("realtime", u)' => Carries("realtime", u), mode'[u] \in {mode[u], "off"}
  PROVE  Interferes(u)' <= Interferes(u)
  BY DEF Interferes

\* It does not begin to.
LEMMA InterferesUnchanged ==
  ASSUME NEW u, job'["realtime"] = job["realtime"], mode'[u] \in {mode[u], "off"}
  PROVE  Interferes(u)' <= Interferes(u) /\ (Carries("realtime", u)' <=> Carries("realtime", u))
  BY DEF Interferes, Carries, Handles

\* Taking up a user adds no digest.
LEMMA GatherDigest ==
  ASSUME TypeOK, RunInv, NEW r \in Readers, Gather("digest", r), NEW u \in Readers
  PROVE  DigestClaims(u)' <= DigestClaims(u)
<1> DEFINE c == "digest"
<1>c. c \in Channels
      BY DEF Channels
<1>1. UNCHANGED <<mode, delivered, digestToday>>
      BY DEF Gather, prefVars
<1>2. /\ job[c].pc = "next" /\ r \in job[c].todo
      /\ job'[c].todo = job[c].todo \ {r} /\ job'[c].today = job[c].today
      BY <1>c, GatherRun
<1>3. CASE job'[c].pc = "next"
      BY <1>1, <1>2, <1>3 DEF DigestClaims, Handles, Carries
<1>4. CASE /\ job'[c].pc = "send" /\ job'[c].cur = r
           /\ job'[c].items # {} /\ job'[c].items \subseteq Candidates(c, r)
  <2>1. \A j \in job'[c].items : <<r, j>> \notin delivered
        BY <1>4, CandidatesAreItems
  <2>2. ~ Doomed(c)'
        BY <1>1, <1>4, <2>1 DEF Doomed
  <2>3. CASE u = r
        BY <1>1, <1>2, <1>4, <2>2, <2>3 DEF DigestClaims, Handles, Carries
  <2>4. CASE u # r
        BY <1>1, <1>2, <1>4, <2>4 DEF DigestClaims, Handles, Carries
  <2>5. QED BY <2>3, <2>4
<1>5. QED BY <1>c, <1>3, <1>4, GatherRun

\* A run adds no digest to the one of the day.
LEMMA StartDigest ==
  ASSUME TypeOK, RunInv, StartRun("digest"), NEW u \in Readers
  PROVE  DigestClaims(u)' <= DigestClaims(u)
<1> DEFINE c == "digest"
<1>1. UNCHANGED <<mode, delivered, digestToday>>
      BY DEF StartRun, prefVars
<1>2. /\ job[c] = NoRun /\ job'[c].pc = "next" /\ job'[c].today = TRUE
      /\ job'[c].todo = {v \in Readers : mode[v] = ModeOf(c) /\ Due(c, v)}
      BY StartRunRun DEF Channels
<1>3. u \in job'[c].todo => mode[u] = "daily" /\ u \notin digestToday
      BY <1>2 DEF ModeOf, Due
<1>4. ~ Carries(c, u)
      BY <1>2, IdleClaims
<1>5. QED BY <1>1, <1>2, <1>3, <1>4 DEF DigestClaims, Handles, Carries

\* A run that ends leaves the day's digest to the next, as it was before it.
LEMMA LostDigest ==
  ASSUME NEW u, job'["digest"] = NoRun, UNCHANGED <<mode, digestToday>>
  PROVE  /\ DigestClaims(u)' <= 1
         /\ mode[u] # "daily" => DigestClaims(u)' = 0
         /\ ~ (Handles("digest", u) /\ job["digest"].pc = "mark" /\ ~ Doomed("digest")) =>
               DigestClaims(u)' <= DigestClaims(u)
<1>1. job'["digest"].pc = "idle" /\ job'["digest"].todo = {}
      BY DEF NoRun
<1>2. DigestClaims(u)' = IF mode[u] = "daily" /\ u \notin digestToday THEN 1 ELSE 0
      BY <1>1 DEF DigestClaims, Carries, Handles
<1>3. ASSUME ~ (Handles("digest", u) /\ job["digest"].pc = "mark" /\ ~ Doomed("digest"))
      PROVE  DigestClaims(u)' <= DigestClaims(u)
      BY <1>2, <1>3 DEF DigestClaims, Carries, Handles
<1>4. QED BY <1>2, <1>3

\* A digest sent spends the one of the day, unless there was a fault.
LEMMA SendDigest ==
  ASSUME TypeOK, RunInv, Send("digest"), NEW u \in Readers
  PROVE  digests'[u] + DigestClaims(u)' - digests[u] - DigestClaims(u) <= faults' - faults
<1> DEFINE c == "digest"
<1>c. c \in Channels
      BY DEF Channels
<1>0. job[c].cur \in Readers /\ job[c].pc = "send" /\ job[c].cur \notin job[c].todo
      BY <1>c DEF Send, RunInv, RunOk
<1>1. UNCHANGED <<mode, delivered, digestToday>>
      BY DEF Send, prefVars
<1>2. /\ job'[c].todo = job[c].todo /\ job'[c].today = job[c].today
      /\ job'[c].cur = job[c].cur /\ job'[c].items = job[c].items
      BY <1>c, SendRun
<1>3. digests[u] \in Nat /\ faults \in Nat
      BY BoundsAreNat DEF TypeOK
<1>4. Doomed(c)' <=> Doomed(c)
      BY <1>1, <1>2 DEF Doomed
<1>5. ASSUME Arrives(c)
      PROVE digests'[u] = IF u = job[c].cur /\ job[c].today THEN digests[u] + 1 ELSE digests[u]
      BY <1>c, <1>0, <1>5, Arrivals
<1>6. CASE job'[c].pc = "off" /\ UNCHANGED <<dms, digests, faults>>
  <2>1. DigestClaims(u)' <= DigestClaims(u)
        BY <1>0, <1>1, <1>2, <1>4, <1>6 DEF DigestClaims, Handles, Carries
  <2>2. digests'[u] = digests[u] /\ faults' = faults
        BY <1>6
  <2>3. QED BY <1>3, <2>1, <2>2, DigestClaimsAreFew
<1>7. CASE job'[c].pc = "mark" /\ Arrives(c) /\ UNCHANGED faults
  <2>1. CASE u = job[c].cur /\ job[c].today
    <3>1. DigestClaims(u)' + 1 = DigestClaims(u)
          BY <1>0, <1>1, <1>2, <1>4, <1>7, <2>1 DEF DigestClaims, Handles, Carries
    <3>2. digests'[u] = digests[u] + 1
          BY <1>5, <1>7, <2>1
    <3>3. QED BY <1>3, <1>7, <3>1, <3>2, DigestClaimsAreFew
  <2>2. CASE ~ (u = job[c].cur /\ job[c].today)
    <3>1. DigestClaims(u)' = DigestClaims(u)
          BY <1>0, <1>1, <1>2, <1>4, <1>7, <2>2 DEF DigestClaims, Handles, Carries
    <3>2. digests'[u] = digests[u]
          BY <1>5, <1>7, <2>2
    <3>3. QED BY <1>3, <1>7, <3>1, <3>2, DigestClaimsAreFew
  <2>3. QED BY <2>1, <2>2
<1>8. CASE /\ job'[c].pc = "next" /\ faults' = faults + 1
           /\ Arrives(c) \/ UNCHANGED <<dms, digests>>
  <2>1. digests'[u] = digests[u] \/ digests'[u] = digests[u] + 1
        BY <1>5, <1>8
  <2>2. DigestClaims(u)' <= DigestClaims(u)
        BY <1>0, <1>1, <1>2, <1>8 DEF DigestClaims, Handles, Carries
  <2>3. QED BY <1>3, <1>8, <2>1, <2>2, DigestClaimsAreFew
<1>9. QED BY <1>c, <1>6, <1>7, <1>8, SendRun

\* The realtime job sends no digests.
LEMMA SendRealtime ==
  ASSUME TypeOK, RunInv, Send("realtime"), NEW u \in Readers
  PROVE  digests'[u] = digests[u]
<1> DEFINE c == "realtime"
<1>c. c \in Channels /\ c # "digest"
      BY DEF Channels
<1>0. job[c].cur \in Readers
      BY <1>c DEF Send, RunInv, RunOk
<1>1. Arrives(c) => digests'[u] = digests[u]
      BY <1>c, <1>0, Arrivals
<1>2. QED BY <1>c, <1>1, SendRun

\* A digest recorded is the last of the day; one that fails to be is a fault.
LEMMA MarkDigest ==
  ASSUME TypeOK, RunInv, Mark("digest"), NEW u \in Readers
  PROVE  DigestClaims(u)' - DigestClaims(u) <= faults' - faults
<1> DEFINE c == "digest"
<1>c. c \in Channels
      BY DEF Channels
<1>0. /\ job[c].cur \in Readers /\ job[c].cur \notin job[c].todo /\ job[c].pc = "mark"
      /\ faults \in Nat
      BY <1>c, BoundsAreNat DEF Mark, RunInv, RunOk, TypeOK
<1>1. UNCHANGED mode
      BY DEF Mark, prefVars
<1>2. CASE /\ job'[c].pc = "next" /\ job'[c].todo = job[c].todo /\ job'[c].today = job[c].today
           /\ UNCHANGED faults
           /\ digestToday' = IF job[c].today THEN digestToday \cup {job[c].cur} ELSE digestToday
  <2>1. DigestClaims(u)' <= DigestClaims(u)
    <3>1. CASE u = job[c].cur
          BY <1>0, <1>1, <1>2, <3>1 DEF DigestClaims, Handles, Carries
    <3>2. CASE u # job[c].cur
          BY <1>0, <1>1, <1>2, <3>2 DEF DigestClaims, Handles, Carries
    <3>3. QED BY <3>1, <3>2
  <2>2. QED BY <1>0, <1>2, <2>1, DigestClaimsAreFew
<1>3. CASE /\ job'[c] = NoRun /\ UNCHANGED <<delivered, digestToday>>
           /\ IF Doomed(c) THEN UNCHANGED faults ELSE faults' = faults + 1
  <2>1. DigestClaims(u)' <= 1
        BY <1>1, <1>3, LostDigest
  <2>2. ~ (Handles(c, u) /\ job[c].pc = "mark" /\ ~ Doomed(c)) => DigestClaims(u)' <= DigestClaims(u)
        BY <1>1, <1>3, LostDigest
  <2>3. QED BY <1>0, <1>3, <2>1, <2>2, DigestClaimsAreFew
<1>4. QED BY <1>c, <1>2, <1>3, MarkRun

\* The realtime job may doom a digest; it has the user no more then.
LEMMA MarkRealtime ==
  ASSUME TypeOK, RunInv, Mark("realtime"), NEW u \in Readers
  PROVE  DigestClaims(u)' + Interferes(u)' - DigestClaims(u) - Interferes(u) <= faults' - faults
<1> DEFINE c == "realtime"
<1>c. c \in Channels /\ "digest" \in Channels /\ c # "digest"
      BY DEF Channels
<1>0. /\ job[c].cur \in Readers /\ job[c].cur \notin job[c].todo /\ job[c].pc = "mark"
      /\ faults \in Nat
      BY <1>c, BoundsAreNat DEF Mark, RunInv, RunOk, TypeOK
<1>1. UNCHANGED mode /\ job'["digest"] = job["digest"]
      BY <1>c, MarkRun DEF Mark, prefVars
<1>2. CASE /\ job'[c].pc = "next" /\ job'[c].todo = job[c].todo
           /\ ~ Doomed(c) /\ UNCHANGED faults /\ UNCHANGED digestToday
           /\ delivered' = delivered \cup ({job[c].cur} \X job[c].items)
  <2>1. Carries(c, u)' => Carries(c, u)
        BY <1>2 DEF Carries, Handles
  <2>2. Interferes(u)' <= Interferes(u)
        BY <1>1, <2>1, InterferesLess
  <2>3. CASE u # job[c].cur \/ ~ Handles("digest", u)
    <3>1. Handles("digest", u) => (Doomed("digest")' <=> Doomed("digest"))
          BY <1>c, <1>1, <1>2, <2>3, MarkedDooms DEF Handles
    <3>2. DigestClaims(u)' = DigestClaims(u)
          BY <1>1, <1>2, <3>1 DEF DigestClaims, Handles, Carries
    <3>3. QED BY <1>0, <1>2, <2>2, <3>2, DigestClaimsAreFew
  <2>4. CASE u = job[c].cur
    <3>1. Interferes(u) = 1 /\ Interferes(u)' = IF mode[u] = "realtime" THEN 1 ELSE 0
          BY <1>0, <1>1, <1>2, <2>4 DEF Interferes, Carries, Handles
    <3>2. DigestClaims(u)' <= DigestClaims(u) + (IF mode[u] = "daily" THEN 1 ELSE 0)
          BY <1>1, <1>2 DEF DigestClaims, Handles, Carries
    <3>3. QED BY <1>0, <1>2, <3>1, <3>2, DigestClaimsAreFew
  <2>5. QED BY <2>3, <2>4
<1>3. CASE /\ job'[c] = NoRun /\ UNCHANGED <<delivered, digestToday>>
           /\ IF Doomed(c) THEN UNCHANGED faults ELSE faults' = faults + 1
  <2>1. DigestClaims(u)' = DigestClaims(u)
        BY <1>1, <1>3, DigestClaimsUnchanged
  <2>2. Interferes(u)' <= Interferes(u)
        BY <1>1, <1>3, LostRunClaims, InterferesLess
  <2>3. QED BY <1>0, <1>3, <2>1, <2>2, DigestClaimsAreFew
<1>4. QED BY <1>c, <1>2, <1>3, MarkRun

-----------------------------------------------------------------------------
(* Every step pays for the claims it adds.                                  *)

\* There are two channels, whichever is the first.
LEMMA OtherChannel ==
  ASSUME NEW c \in Channels
  PROVE  \E d \in Channels : /\ d # c
                             /\ \A u, i : Claims("realtime", u, i) + Claims("digest", u, i) = Claims(c, u, i) + Claims(d, u, i)
                             /\ \A u, i : Claims("realtime", u, i)' + Claims("digest", u, i)' = Claims(c, u, i)' + Claims(d, u, i)'
<1>1. CASE c = "realtime"
      BY <1>1 DEF Channels
<1>2. CASE c = "digest"
  <2>1. \A u, i : Claims("realtime", u, i) + Claims("digest", u, i) = Claims("digest", u, i) + Claims("realtime", u, i)
        BY ClaimsAreFew
  <2>2. \A u, i : Claims("realtime", u, i)' + Claims("digest", u, i)' = Claims("digest", u, i)' + Claims("realtime", u, i)'
        BY ClaimsAreFew
  <2>3. "realtime" \in Channels /\ "realtime" # "digest"
        BY DEF Channels
  <2>4. QED BY <1>2, <2>1, <2>2, <2>3
<1>3. QED BY <1>1, <1>2 DEF Channels

\* At midnight a run that goes on is no longer of the day.
LEMMA HourRuns ==
  ASSUME TypeOK, RunInv, NextHour, NEW c \in Channels
  PROVE  /\ job'[c].pc = job[c].pc /\ job'[c].todo = job[c].todo
         /\ job'[c].cur = job[c].cur /\ job'[c].items = job[c].items
         /\ hour' = 0 => job'[c].today = FALSE \/ job[c] = NoRun
<1>1. job \in [Channels -> JobRuns]
      BY DEF TypeOK
<1>2. CASE hour' # 0
      BY <1>2 DEF NextHour
<1>3. CASE hour' = 0
  <2>1. job'[c] = IF job[c].pc = "idle" THEN job[c] ELSE [job[c] EXCEPT !.today = FALSE]
        BY <1>3 DEF NextHour
  <2>2. job[c].pc = "idle" => job[c] = NoRun
        BY DEF RunInv, RunOk
  <2>3. QED BY <1>1, <2>1, <2>2 DEF JobRuns
<1>4. QED BY <1>2, <1>3

\* What the steps of the world and of the other users leave alone.
LEMMA QuietDmSteps ==
  ASSUME Publish \/ UNCHANGED dmVars
            \/ (\E u \in Readers : \/ \E h \in 0 .. Hours - 1 : SetDigestHour(u, h)
                                   \/ ToggleQuiet(u) \/ ToggleBlock(u))
  PROVE  UNCHANGED <<job, mode, delivered, dms, digests, digestToday, faults, switches>>
  BY DEF Publish, dmVars, newsVars, prefVars, SetDigestHour, ToggleQuiet, ToggleBlock

\* Each time an item comes again a fault or a change of preferences paid for it.
LEMMA ItemsAreBacked ==
  ASSUME TypeOK, RunInv, [DmNext]_dmVars, NEW u \in Readers, NEW i \in Items
  PROVE  dms'[u][i] + Claims("realtime", u, i)' + Claims("digest", u, i)'
            - dms[u][i] - Claims("realtime", u, i) - Claims("digest", u, i)
         <= faults' - faults + switches'[u] - switches[u]
<1> DEFINE S == Claims("realtime", u, i) + Claims("digest", u, i)
           T == Claims("realtime", u, i)' + Claims("digest", u, i)'
<1>t. dms[u][i] \in Nat /\ faults \in Nat /\ switches[u] \in Nat
      BY BoundsAreNat DEF TypeOK
<1>s. /\ S = Claims("realtime", u, i) + Claims("digest", u, i) /\ S \in 0 .. 4
      /\ T = Claims("realtime", u, i)' + Claims("digest", u, i)' /\ T \in 0 .. 4
      /\ S - Claims("realtime", u, i) - Claims("digest", u, i) = 0
      BY ClaimsAreFew
<1> SUFFICES dms'[u][i] + T - dms[u][i] - S <= faults' - faults + switches'[u] - switches[u]
                /\ dms'[u][i] \in Int /\ faults' \in Int /\ switches'[u] \in Int
      BY <1>t, ClaimsAreFew
<1> HIDE DEF S, T
<1>1. CASE \/ Publish \/ UNCHANGED dmVars
           \/ \E r \in Readers : \/ \E h \in 0 .. Hours - 1 : SetDigestHour(r, h)
                                 \/ ToggleQuiet(r) \/ ToggleBlock(r)
  <2>1. UNCHANGED <<job, mode, delivered, dms, faults, switches>>
        BY <1>1, QuietDmSteps
  <2>2. S = T
        BY <2>1, <1>s, ClaimsUnchanged
  <2>3. QED BY <1>t, <1>s, <2>1, <2>2
<1>2. CASE NextHour
  <2>1. UNCHANGED <<mode, delivered, dms, faults, switches>>
        BY <1>2 DEF NextHour, prefVars
  <2>2. ASSUME NEW c \in Channels PROVE Claims(c, u, i)' = Claims(c, u, i)
        BY <1>2, <2>1, HourRuns DEF Claims, Handles, Carries, Doomed
  <2>3. S = T
        BY <2>2, <1>s DEF Channels
  <2>4. QED BY <1>t, <1>s, <2>1, <2>3
<1>3. CASE \E r \in Readers : \E m \in Modes : SetDelivery(r, m)
  <2>1. PICK r \in Readers, m \in Modes : SetDelivery(r, m)
        BY <1>3
  <2>2. UNCHANGED <<dms, faults>>
        BY <2>1 DEF SetDelivery, newsVars
  <2>3. /\ Claims("realtime", u, i)' + Claims("digest", u, i)'
              - Claims("realtime", u, i) - Claims("digest", u, i) <= switches'[u] - switches[u]
        /\ switches'[u] - switches[u] \in Nat
        BY <2>1, SwitchClaims
  <2>4. switches'[u] \in Nat
        BY <2>1, <1>t DEF SetDelivery, TypeOK
  <2>5. T - S <= switches'[u] - switches[u]
        BY <2>3, <2>4, <1>t, ClaimsAreFew DEF S, T
  <2>6. QED BY <1>t, <1>s, <2>2, <2>4, <2>5
<1>4. ASSUME NEW c \in Channels, StartRun(c) \/ JobStep(c)
      PROVE  dms'[u][i] + T - dms[u][i] - S <= faults' - faults + switches'[u] - switches[u]
                /\ dms'[u][i] \in Int /\ faults' \in Int /\ switches'[u] \in Int
  <2>1. PICK d \in Channels : /\ d # c
                              /\ \A v, j : Claims("realtime", v, j) + Claims("digest", v, j) = Claims(c, v, j) + Claims(d, v, j)
                              /\ \A v, j : Claims("realtime", v, j)' + Claims("digest", v, j)' = Claims(c, v, j)' + Claims(d, v, j)'
        BY OtherChannel
  <2>2. /\ S = Claims(c, u, i) + Claims(d, u, i) /\ T = Claims(c, u, i)' + Claims(d, u, i)'
        /\ Claims(c, u, i) \in 0 .. 2 /\ Claims(d, u, i) \in 0 .. 2
        /\ Claims(c, u, i)' \in 0 .. 2 /\ Claims(d, u, i)' \in 0 .. 2
        BY <1>s, <2>1, ClaimsAreFew
  <2>3. CASE StartRun(c) \/ EndRun(c) \/ \E r \in Readers : Gather(c, r)
    <3>1. UNCHANGED <<mode, delivered, dms, faults, switches>>
          BY <2>3 DEF StartRun, EndRun, Gather, prefVars
    <3>2. job'[d] = job[d]
          BY <2>1, <2>3, StartRunRun, EndRunRun, GatherRun
    <3>3. Claims(c, u, i)' <= Claims(c, u, i)
      <4>1. CASE StartRun(c)
            BY <4>1, StartRunClaims
      <4>2. CASE EndRun(c)
        <5>1. job'[c] = NoRun /\ job[c].pc = "next"
              BY <4>2, EndRunRun
        <5>2. QED BY <3>1, <5>1, LostRunClaims
      <4>3. CASE \E r \in Readers : Gather(c, r)
            BY <4>3, GatherClaims
      <4>4. QED BY <2>3, <4>1, <4>2, <4>3
    <3>4. Claims(d, u, i)' = Claims(d, u, i)
          BY <3>1, <3>2, ClaimsUnchanged
    <3>5. dms'[u][i] = dms[u][i] /\ faults' = faults /\ switches'[u] = switches[u]
          BY <3>1
    <3>6. QED BY <1>t, <2>2, <3>3, <3>4, <3>5
  <2>4. CASE Send(c)
    <3>1. UNCHANGED <<mode, delivered, switches>>
          BY <2>4 DEF Send, prefVars
    <3>2. job'[d] = job[d] /\ faults' \in {faults, faults + 1}
          BY <2>1, <2>4, SendRun
    <3>3. dms'[u][i] + Claims(c, u, i)' - dms[u][i] - Claims(c, u, i) <= faults' - faults
          BY <2>4, SendClaims
    <3>4. Claims(d, u, i)' = Claims(d, u, i)
          BY <3>1, <3>2, ClaimsUnchanged
    <3>5. dms'[u][i] \in {dms[u][i], dms[u][i] + 1}
      <4>1. job[c].cur \in Readers
            BY <2>4 DEF Send, RunInv, RunOk
      <4>2. CASE Arrives(c)
            BY <4>1, <4>2, Arrivals
      <4>3. QED BY <2>4, <4>2 DEF Send
    <3>6. switches'[u] = switches[u]
          BY <3>1
    <3>7. dms'[u][i] \in Int /\ faults' \in Int /\ switches'[u] \in Int
          BY <1>t, <3>2, <3>5, <3>6
    <3>8. T - S = Claims(c, u, i)' - Claims(c, u, i)
          BY <2>2, <3>4
    <3>9. dms'[u][i] + T - dms[u][i] - S = dms'[u][i] + Claims(c, u, i)' - dms[u][i] - Claims(c, u, i)
      <4>1. \A a, b, s, t, x, y \in Int : t - s = y - x => a + t - b - s = a + y - b - x
            OBVIOUS
      <4>2. /\ T \in Int /\ S \in Int /\ dms'[u][i] \in Int /\ dms[u][i] \in Int
            /\ Claims(c, u, i)' \in Int /\ Claims(c, u, i) \in Int
            BY <1>t, <1>s, <2>2, <3>7
      <4>3. QED BY <3>8, <4>1, <4>2
    <3>10. faults' - faults + switches'[u] - switches[u] = faults' - faults
          BY <1>t, <3>6, <3>7
    <3>11. QED BY <3>3, <3>7, <3>9, <3>10
  <2>5. CASE TurnOff(c)
    <3>1. dms'[u][i] = dms[u][i] /\ switches'[u] = switches[u]
          BY <2>5 DEF TurnOff
    <3>2. Claims(c, u, i)' <= Claims(c, u, i) /\ Claims(d, u, i)' <= Claims(d, u, i)
          BY <2>5, TurnOffClaims
    <3>3. faults' \in {faults, faults + 1}
          BY <2>5, TurnOffClaims
    <3>4. QED BY <1>t, <2>2, <3>1, <3>2, <3>3, SMTT(30)
  <2>6. CASE Mark(c)
    <3>1. dms'[u][i] = dms[u][i] /\ switches'[u] = switches[u]
          BY <2>6 DEF Mark, prefVars
    <3>2. Claims(c, u, i)' + Claims(d, u, i)' - Claims(c, u, i) - Claims(d, u, i) <= faults' - faults
          BY <2>1, <2>6, MarkClaims
    <3>3. faults' \in {faults, faults + 1}
          BY <2>6, MarkRun
    <3>4. QED BY <1>t, <2>2, <3>1, <3>2, <3>3
  <2>7. QED BY <1>4, <2>3, <2>4, <2>5, <2>6 DEF JobStep
<1>5. CASE DmCrash
  <2>1. /\ UNCHANGED <<mode, delivered, dms, switches>> /\ faults' = faults + 1
        /\ job' = [c \in Channels |-> NoRun]
        BY <1>5 DEF DmCrash, Fault, prefVars
  <2>2. ASSUME NEW c \in Channels
        PROVE  Claims(c, u, i)' <= 1 /\ (mode[u] # ModeOf(c) => Claims(c, u, i)' = 0)
        BY <2>1, LostRunClaims
  <2>3. T <= 1
    <3>1. "realtime" \in Channels /\ "digest" \in Channels /\ ModeOf("realtime") # ModeOf("digest")
          BY DEF Channels, ModeOf
    <3>2. QED BY <2>2, <3>1, ClaimsAreFew DEF T
  <2>4. dms'[u][i] = dms[u][i] /\ switches'[u] = switches[u]
        BY <2>1
  <2>5. QED BY <1>t, <1>s, <2>1, <2>3, <2>4
<1>6. QED BY <1>1, <1>2, <1>3, <1>4, <1>5 DEF DmNext, Prefs

\* The run of one channel leaves that of the other alone.
LEMMA OthersStay ==
  ASSUME TypeOK, RunInv, NEW c \in Channels, NEW d \in Channels, d # c, StartRun(c) \/ JobStep(c)
  PROVE  job'[d] = job[d]
<1>1. CASE StartRun(c)
      BY <1>1, StartRunRun
<1>2. CASE \E r \in Readers : Gather(c, r)
      BY <1>2, GatherRun
<1>3. CASE EndRun(c)
      BY <1>3, EndRunRun
<1>4. CASE Send(c)
      BY <1>4, SendRun
<1>5. CASE TurnOff(c)
  <2>1. job[c].cur \in Readers
        BY <1>5 DEF TurnOff, RunInv, RunOk
  <2>2. QED BY <1>5, <2>1, TurnOffRun
<1>6. CASE Mark(c)
      BY <1>6, MarkRun
<1>7. QED BY <1>1, <1>2, <1>3, <1>4, <1>5, <1>6 DEF JobStep

\* A user switched off gets no digest more than before.
LEMMA TurnOffDigest ==
  ASSUME TypeOK, RunInv, NEW c \in Channels, TurnOff(c), NEW u \in Readers
  PROVE  /\ DigestClaims(u)' <= DigestClaims(u)
         /\ faults' \in {faults, faults + 1} /\ mode'[u] \in {mode[u], "off"}
         /\ Carries("realtime", u)' => Carries("realtime", u)
<1> DEFINE d == "digest"
<1>0. job[c].cur \in Readers /\ job[c].cur \notin job[c].todo /\ job[c].pc = "off"
      BY DEF TurnOff, RunInv, RunOk
<1>c. {"realtime", d} = Channels
      BY DEF Channels
<1>1. UNCHANGED <<delivered, digestToday>>
      BY DEF TurnOff
<1>2. CASE /\ job'[c].pc = "next" /\ job'[c].todo = job[c].todo /\ job'[c].today = job[c].today
           /\ \A v \in Readers : mode'[v] = IF v = job[c].cur THEN "off" ELSE mode[v]
           /\ UNCHANGED faults
  <2>1. CASE d = c
    <3>1. job'["realtime"] = job["realtime"]
          BY <1>0, <1>c, <2>1, TurnOffRun
    <3>2. Carries("realtime", u)' => Carries("realtime", u)
          BY <3>1 DEF Carries, Handles
    <3>3. DigestClaims(u)' <= DigestClaims(u)
          BY <1>0, <1>1, <1>2, <2>1 DEF DigestClaims, Handles, Carries
    <3>4. QED BY <1>2, <3>2, <3>3
  <2>2. CASE d # c
    <3>1. job'[d] = job[d] /\ c = "realtime"
          BY <1>0, <1>c, <2>2, TurnOffRun
    <3>2. DigestClaims(u)' <= DigestClaims(u)
          BY <1>1, <1>2, <3>1 DEF DigestClaims, Handles, Carries, Doomed
    <3>3. Carries(c, u)' => Carries(c, u)
          BY <1>2 DEF Carries, Handles
    <3>4. QED BY <1>2, <3>1, <3>2, <3>3
  <2>3. QED BY <2>1, <2>2
<1>3. CASE job'[c] = NoRun /\ UNCHANGED mode /\ faults' = faults + 1
  <2>0. ~ Carries(c, u)'
        BY <1>3 DEF NoRun, Carries, Handles
  <2>1. CASE d = c
    <3>1. job'["realtime"] = job["realtime"]
          BY <1>0, <1>c, <2>1, TurnOffRun
    <3>2. Carries("realtime", u)' => Carries("realtime", u)
          BY <3>1 DEF Carries, Handles
    <3>3. DigestClaims(u)' <= DigestClaims(u)
          BY <1>0, <1>1, <1>3, <2>1, LostDigest
    <3>4. QED BY <1>3, <3>2, <3>3
  <2>2. CASE d # c
    <3>1. job'[d] = job[d] /\ c = "realtime"
          BY <1>0, <1>c, <2>2, TurnOffRun
    <3>2. DigestClaims(u)' = DigestClaims(u)
          BY <1>1, <1>3, <3>1, DigestClaimsUnchanged
    <3>3. QED BY <1>3, <2>0, <3>1, <3>2, DigestClaimsAreFew
  <2>3. QED BY <2>1, <2>2
<1>4. QED BY <1>0, <1>2, <1>3, TurnOffRun

\* One digest a day, and one more for each fault or change of preferences.
LEMMA DigestsAreBacked ==
  ASSUME TypeOK, RunInv, ClaimsAreBacked, [DmNext]_dmVars, NEW u \in Readers
  PROVE  /\ digests'[u] + DigestClaims(u)' + Interferes(u)' <= 1 + faults' + switches'[u]
         /\ Carries("realtime", u)' /\ mode'[u] = "daily" => switches'[u] > 0
<1> DEFINE B == digests[u] + DigestClaims(u) + Interferes(u)
           C == digests'[u] + DigestClaims(u)' + Interferes(u)'
<1>t. digests[u] \in Nat /\ faults \in Nat /\ switches[u] \in Nat
      BY BoundsAreNat DEF TypeOK
<1>d. /\ DigestClaims(u) \in 0 .. 2 /\ DigestClaims(u)' \in 0 .. 2
      /\ Interferes(u) \in 0 .. 1 /\ Interferes(u)' \in 0 .. 1
      BY DigestClaimsAreFew
<1>b. B <= 1 + faults + switches[u] /\ (Carries("realtime", u) /\ mode[u] = "daily" => switches[u] > 0)
      BY DEF ClaimsAreBacked
<1>c. "realtime" \in Channels /\ "digest" \in Channels /\ "realtime" # "digest"
      BY DEF Channels
\* A step that pays for what it adds, and takes nobody on the realtime list
\* whose mode is another.
<1>q. ASSUME digests'[u] + DigestClaims(u)' + Interferes(u)' - digests[u] - DigestClaims(u) - Interferes(u)
                <= faults' - faults + switches'[u] - switches[u],
             digests'[u] \in Nat, faults' \in Nat, switches'[u] \in Nat, switches'[u] >= switches[u],
             \/ switches'[u] > switches[u]
             \/ mode'[u] = mode[u] /\ (Carries("realtime", u)' => Carries("realtime", u) \/ mode[u] = "realtime")
             \/ mode'[u] # "daily"
      PROVE  /\ C <= 1 + faults' + switches'[u]
             /\ Carries("realtime", u)' /\ mode'[u] = "daily" => switches'[u] > 0
  <2>1. C <= 1 + faults' + switches'[u]
        BY <1>t, <1>d, <1>b, <1>q
  <2>2. Carries("realtime", u)' /\ mode'[u] = "daily" => switches'[u] > 0
        BY <1>t, <1>b, <1>q
  <2>3. QED BY <2>1, <2>2
<1>1. CASE \/ Publish \/ UNCHANGED dmVars
           \/ \E r \in Readers : \/ \E h \in 0 .. Hours - 1 : SetDigestHour(r, h)
                                 \/ ToggleQuiet(r) \/ ToggleBlock(r)
  <2>1. UNCHANGED <<job, mode, delivered, digests, digestToday, faults, switches>>
        BY <1>1, QuietDmSteps
  <2>2. DigestClaims(u)' = DigestClaims(u)
        BY <2>1, DigestClaimsUnchanged
  <2>3. Interferes(u)' = Interferes(u) /\ (Carries("realtime", u)' <=> Carries("realtime", u))
        BY <2>1 DEF Interferes, Carries, Handles
  <2>4. QED BY <1>t, <1>b, <2>1, <2>2, <2>3
<1>2. CASE NextHour
  <2>1. UNCHANGED <<mode, delivered, faults, switches>>
        BY <1>2 DEF NextHour, prefVars
  <2>2. Interferes(u)' = Interferes(u) /\ (Carries("realtime", u)' <=> Carries("realtime", u))
        BY <1>2, <1>c, <2>1, HourRuns DEF Interferes, Carries, Handles
  <2>3. CASE hour' # 0
    <3>1. UNCHANGED <<digests, digestToday, job>>
          BY <1>2, <2>3 DEF NextHour
    <3>2. DigestClaims(u)' = DigestClaims(u)
          BY <2>1, <3>1, DigestClaimsUnchanged
    <3>3. QED BY <1>t, <1>b, <2>1, <2>2, <3>1, <3>2
  <2>4. CASE hour' = 0
    <3>1. digests'[u] = 0
          BY <1>2, <2>4 DEF NextHour
    <3>2. job'["digest"].today = FALSE \/ ~ Carries("digest", u)'
      <4>1. /\ job'["digest"].pc = job["digest"].pc /\ job'["digest"].todo = job["digest"].todo
            /\ job'["digest"].today = FALSE \/ job["digest"] = NoRun
            BY <1>2, <1>c, <2>4, HourRuns
      <4>2. job["digest"] = NoRun => job["digest"].pc = "idle" /\ job["digest"].todo = {}
            BY DEF NoRun
      <4>3. QED BY <4>1, <4>2 DEF Carries, Handles
    <3>3. DigestClaims(u)' <= IF mode[u] = "daily" THEN 1 ELSE 0
          BY <2>1, <3>2 DEF DigestClaims
    <3>4. CASE mode[u] = "daily" /\ Carries("realtime", u)
          BY <1>t, <1>d, <1>b, <2>1, <2>2, <3>1, <3>3, <3>4
    <3>5. CASE mode[u] = "daily" /\ ~ Carries("realtime", u)
      <4>1. Interferes(u) = 0
            BY <3>5 DEF Interferes
      <4>2. QED BY <1>t, <1>d, <1>b, <2>1, <2>2, <3>1, <3>3, <3>5, <4>1
    <3>6. CASE mode[u] # "daily"
          BY <1>t, <1>d, <1>b, <2>1, <2>2, <3>1, <3>3, <3>6
    <3>7. QED BY <3>4, <3>5, <3>6
  <2>5. QED BY <2>3, <2>4
<1>3. CASE \E r \in Readers : \E m \in Modes : SetDelivery(r, m)
  <2>1. PICK r \in Readers, m \in Modes : SetDelivery(r, m)
        BY <1>3
  <2>2. UNCHANGED <<digests, faults>>
        BY <2>1 DEF SetDelivery, newsVars
  <2>4. switches'[u] \in Nat /\ switches'[u] >= switches[u] /\ (u = r => switches'[u] = switches[u] + 1)
        /\ (u # r => mode'[u] = mode[u])
        BY <2>1, <1>t DEF SetDelivery, TypeOK
  <2>5. \A c : Carries(c, u)' <=> Carries(c, u)
        BY <2>1 DEF SetDelivery, newsVars, Carries, Handles
  <2>6. DigestClaims(u)' + Interferes(u)' - DigestClaims(u) - Interferes(u) <= switches'[u] - switches[u]
        BY <2>1, SwitchClaims
  <2>7. QED BY <1>q, <1>t, <1>d, <2>2, <2>4, <2>5, <2>6
<1>4. CASE StartRun("digest") \/ EndRun("digest") \/ \E r \in Readers : Gather("digest", r)
  <2>1. UNCHANGED <<mode, digestToday, digests, faults, switches>>
        BY <1>4 DEF StartRun, EndRun, Gather, prefVars
  <2>2. job'["realtime"] = job["realtime"]
        BY <1>4, <1>c, OthersStay DEF JobStep
  <2>3. DigestClaims(u)' <= DigestClaims(u)
    <3>1. CASE EndRun("digest")
      <4>1. job'["digest"] = NoRun /\ job["digest"].pc = "next"
            BY <1>c, <3>1, EndRunRun
      <4>2. QED BY <2>1, <4>1, LostDigest
    <3>2. QED BY <1>4, <3>1, StartDigest, GatherDigest
  <2>4. Interferes(u)' <= Interferes(u) /\ (Carries("realtime", u)' <=> Carries("realtime", u))
        BY <2>1, <2>2, InterferesUnchanged
  <2>5. QED BY <1>q, <1>t, <1>d, <2>1, <2>3, <2>4
<1>5. CASE StartRun("realtime") \/ EndRun("realtime") \/ \E r \in Readers : Gather("realtime", r)
  <2>1. UNCHANGED <<mode, digestToday, delivered, digests, faults, switches>>
        BY <1>5 DEF StartRun, EndRun, Gather, prefVars
  <2>2. job'["digest"] = job["digest"]
        BY <1>5, <1>c, OthersStay DEF JobStep
  <2>3. DigestClaims(u)' = DigestClaims(u)
        BY <2>1, <2>2, DigestClaimsUnchanged
  <2>4. Carries("realtime", u)' => Carries("realtime", u) \/ mode[u] = "realtime"
    <3>1. CASE EndRun("realtime")
      <4>1. job'["realtime"] = NoRun
            BY <1>c, <3>1, EndRunRun
      <4>2. QED BY <4>1 DEF NoRun, Carries, Handles
    <3>2. CASE StartRun("realtime")
      <4>1. job'["realtime"].pc = "next" /\ job'["realtime"].todo \subseteq {v \in Readers : mode[v] = ModeOf("realtime")}
            BY <1>c, <3>2, StartRunRun
      <4>2. QED BY <4>1 DEF Carries, Handles, ModeOf
    <3>3. CASE \E r \in Readers : Gather("realtime", r)
      <4>1. PICK r \in Readers : Gather("realtime", r)
            BY <3>3
      <4>2. /\ job'["realtime"].todo = job["realtime"].todo \ {r} /\ r \in job["realtime"].todo
            /\ job'["realtime"].pc = "next" \/ job'["realtime"].cur = r
            BY <1>c, <4>1, GatherRun
      <4>3. QED BY <4>2 DEF Carries, Handles
    <3>4. QED BY <1>5, <3>1, <3>2, <3>3
  <2>5. Interferes(u)' <= Interferes(u)
        BY <2>1, <2>4 DEF Interferes
  <2>6. QED BY <1>q, <1>t, <1>d, <2>1, <2>3, <2>4, <2>5
<1>6. CASE Send("digest")
  <2>1. UNCHANGED <<mode, switches>>
        BY <1>6 DEF Send, prefVars
  <2>2. job'["realtime"] = job["realtime"] /\ faults' \in {faults, faults + 1}
        BY <1>6, <1>c, SendRun
  <2>3. digests'[u] + DigestClaims(u)' - digests[u] - DigestClaims(u) <= faults' - faults
        BY <1>6, SendDigest
  <2>4. digests'[u] \in {digests[u], digests[u] + 1}
    <3>1. job["digest"].cur \in Readers
          BY <1>6, <1>c DEF Send, RunInv, RunOk
    <3>2. CASE Arrives("digest")
          BY <1>c, <3>1, <3>2, Arrivals
    <3>3. QED BY <1>6, <3>2 DEF Send
  <2>5. Interferes(u)' <= Interferes(u) /\ (Carries("realtime", u)' <=> Carries("realtime", u))
        BY <2>1, <2>2, InterferesUnchanged
  <2>6. /\ digests'[u] \in Nat /\ faults' \in Nat /\ switches'[u] = switches[u] /\ mode'[u] = mode[u]
        BY <1>t, <2>1, <2>2, <2>4
  <2>7. digests'[u] + DigestClaims(u)' + Interferes(u)' - digests[u] - DigestClaims(u) - Interferes(u)
           <= faults' - faults + switches'[u] - switches[u]
        BY <1>t, <1>d, <2>3, <2>5, <2>6
  <2>8. QED BY <1>q, <1>t, <2>5, <2>6, <2>7
<1>7. CASE Send("realtime")
  <2>1. UNCHANGED <<mode, switches, delivered, digestToday>>
        BY <1>7 DEF Send, prefVars
  <2>2. job'["digest"] = job["digest"] /\ faults' \in {faults, faults + 1}
        BY <1>7, <1>c, SendRun
  <2>3. digests'[u] = digests[u]
        BY <1>7, SendRealtime
  <2>4. DigestClaims(u)' = DigestClaims(u)
        BY <2>1, <2>2, DigestClaimsUnchanged
  <2>5. Carries("realtime", u)' => Carries("realtime", u)
    <3>1. /\ job'["realtime"].todo = job["realtime"].todo /\ job["realtime"].pc = "send"
          /\ job'["realtime"].cur = job["realtime"].cur
          BY <1>7, <1>c, SendRun
    <3>2. QED BY <3>1 DEF Carries, Handles
  <2>6. Interferes(u)' <= Interferes(u)
        BY <2>1, <2>5, InterferesLess
  <2>7. QED BY <1>q, <1>t, <1>d, <2>1, <2>2, <2>3, <2>4, <2>5, <2>6
<1>8. CASE TurnOff("digest") \/ TurnOff("realtime")
  <2>1. UNCHANGED <<digests, digestToday, delivered, switches>>
        BY <1>8 DEF TurnOff
  <2>2. /\ faults' \in {faults, faults + 1} /\ mode'[u] \in {mode[u], "off"}
        /\ Carries("realtime", u)' => Carries("realtime", u)
        BY <1>8, <1>c, TurnOffDigest
  <2>3. DigestClaims(u)' <= DigestClaims(u)
        BY <1>8, <1>c, TurnOffDigest
  <2>4. Interferes(u)' <= Interferes(u)
        BY <2>2, InterferesLess
  <2>5. QED BY <1>q, <1>t, <1>d, <2>1, <2>2, <2>3, <2>4
<1>9. CASE Mark("digest")
  <2>1. UNCHANGED <<mode, switches, digests>>
        BY <1>9 DEF Mark, prefVars
  <2>2. job'["realtime"] = job["realtime"] /\ faults' \in {faults, faults + 1}
        BY <1>9, <1>c, MarkRun
  <2>3. DigestClaims(u)' - DigestClaims(u) <= faults' - faults
        BY <1>9, MarkDigest
  <2>4. Interferes(u)' <= Interferes(u) /\ (Carries("realtime", u)' <=> Carries("realtime", u))
        BY <2>1, <2>2, InterferesUnchanged
  <2>5. QED BY <1>q, <1>t, <1>d, <2>1, <2>2, <2>3, <2>4
<1>10. CASE Mark("realtime")
  <2>1. UNCHANGED <<mode, switches, digests>>
        BY <1>10 DEF Mark, prefVars
  <2>2. faults' \in {faults, faults + 1}
        BY <1>10, <1>c, MarkRun
  <2>3. DigestClaims(u)' + Interferes(u)' - DigestClaims(u) - Interferes(u) <= faults' - faults
        BY <1>10, MarkRealtime
  <2>4. Carries("realtime", u)' => Carries("realtime", u)
    <3>1. \/ job'["realtime"].pc = "next" /\ job'["realtime"].todo = job["realtime"].todo
          \/ job'["realtime"] = NoRun
          BY <1>10, <1>c, MarkRun
    <3>2. QED BY <3>1 DEF Carries, Handles, NoRun
  <2>5. digests'[u] = digests[u] /\ switches'[u] = switches[u] /\ mode'[u] = mode[u] /\ faults' \in Nat
        BY <1>t, <2>1, <2>2
  <2>6. digests'[u] + DigestClaims(u)' + Interferes(u)' - digests[u] - DigestClaims(u) - Interferes(u)
           <= faults' - faults + switches'[u] - switches[u]
        BY <1>t, <1>d, <2>3, <2>5
  <2>7. QED BY <1>q, <1>t, <2>4, <2>5, <2>6
<1>11. CASE DmCrash
  <2>1. /\ UNCHANGED <<mode, delivered, digestToday, digests, switches>> /\ faults' = faults + 1
        /\ job' = [c \in Channels |-> NoRun]
        BY <1>11 DEF DmCrash, Fault, prefVars
  <2>2. job'["digest"] = NoRun /\ job'["realtime"] = NoRun
        BY <1>c, <2>1
  <2>3. DigestClaims(u)' <= 1 /\ (mode[u] # "daily" => DigestClaims(u)' = 0)
        BY <2>1, <2>2, LostDigest
  <2>4. ~ Carries("realtime", u)'
        BY <2>2 DEF NoRun, Carries, Handles
  <2>5. Interferes(u)' = IF mode[u] = "realtime" THEN 1 ELSE 0
        BY <2>1, <2>4 DEF Interferes
  <2>6. C <= digests[u] + 1
        BY <1>t, <1>d, <2>1, <2>3, <2>5
  <2>7. C <= 1 + faults' + switches'[u]
        BY <1>t, <1>d, <1>b, <2>1, <2>6
  <2>8. QED BY <2>4, <2>7
<1>12. QED BY <1>1, <1>2, <1>3, <1>4, <1>5, <1>6, <1>7, <1>8, <1>9, <1>10, <1>11 DEF DmNext, Prefs, JobStep, Channels

\* So whatever was sent, or may be, stays paid for.
LEMMA BackingStep ==
  ASSUME TypeOK, RunInv, ClaimsAreBacked, [DmNext]_dmVars
  PROVE  ClaimsAreBacked'
<1>1. TypeOK'
      BY DmTypeStep
<1>2. ASSUME NEW u \in Readers, NEW i \in Items
      PROVE  (dms[u][i] + Claims("realtime", u, i) + Claims("digest", u, i) <= 1 + faults + switches[u])'
  <2>1. dms[u][i] + Claims("realtime", u, i) + Claims("digest", u, i) <= 1 + faults + switches[u]
        BY DEF ClaimsAreBacked
  <2>2. /\ dms[u][i] \in Nat /\ faults \in Nat /\ switches[u] \in Nat
        /\ dms'[u][i] \in Nat /\ faults' \in Nat /\ switches'[u] \in Nat
        BY <1>1, BoundsAreNat DEF TypeOK
  <2>3. dms'[u][i] + Claims("realtime", u, i)' + Claims("digest", u, i)'
           - dms[u][i] - Claims("realtime", u, i) - Claims("digest", u, i)
        <= faults' - faults + switches'[u] - switches[u]
        BY ItemsAreBacked
  <2>4. QED BY <2>1, <2>2, <2>3, ClaimsAreFew, SMTT(30)
<1>3. QED BY <1>2, DigestsAreBacked DEF ClaimsAreBacked

\* Nothing is sent or published less often than before.
LEMMA PublishedGrows ==
  ASSUME TypeOK, [DmNext]_dmVars
  PROVE  published' \in {published, published + 1}
  BY DEF DmNext, dmVars, Publish, NextHour, Prefs, SetDelivery, SetDigestHour, ToggleQuiet, ToggleBlock,
         StartRun, JobStep, Gather, EndRun, Send, TurnOff, Mark, DmCrash

\* What came has come.
LEMMA DmsGrow ==
  ASSUME TypeOK, RunInv, [DmNext]_dmVars, NEW u \in Readers, NEW i \in Items
  PROVE  dms[u][i] > 0 => dms'[u][i] > 0
<1>1. CASE UNCHANGED dms
      BY <1>1
<1>2. ASSUME NEW c \in Channels, Send(c)
      PROVE  dms[u][i] > 0 => dms'[u][i] > 0
  <2>1. job[c].cur \in Readers /\ dms[u][i] \in Nat
        BY <1>2 DEF Send, RunInv, RunOk, TypeOK
  <2>2. CASE Arrives(c)
        BY <2>1, <2>2, Arrivals
  <2>3. QED BY <1>2, <2>2 DEF Send
<1>3. UNCHANGED dms \/ \E c \in Channels : Send(c)
      BY DEF DmNext, dmVars, newsVars, Publish, NextHour, Prefs, SetDelivery, SetDigestHour, ToggleQuiet,
             ToggleBlock, StartRun, JobStep, Gather, EndRun, TurnOff, Mark, DmCrash
<1>4. QED BY <1>1, <1>2, <1>3

\* Whoever a run is at, it is not to come to again; what it holds was published.
LEMMA RunStep ==
  ASSUME TypeOK, RunInv, [DmNext]_dmVars
  PROVE  RunInv'
<1> SUFFICES ASSUME NEW d \in Channels PROVE RunOk(d)'
    BY DEF RunInv
<1>1. TypeOK' /\ RunOk(d) /\ job[d] \in JobRuns
      BY DmTypeStep DEF RunInv, TypeOK
<1>2. published' \in Nat /\ published \in Nat /\ published' >= published
      BY <1>1, BoundsAreNat, PublishedGrows DEF TypeOK
<1>3. \A u \in Readers, i \in Items : dms[u][i] > 0 => dms'[u][i] > 0
      BY DmsGrow
\* A run that is left alone.
<1>4. ASSUME job'[d].pc = job[d].pc, job'[d].todo = job[d].todo, job'[d].cur = job[d].cur,
             job'[d].items = job[d].items, job[d].pc = "idle" => job'[d] = job[d]
      PROVE  RunOk(d)'
      BY <1>1, <1>2, <1>3, <1>4 DEF RunOk, JobRuns, Items
<1>5. ASSUME job'[d] = NoRun
      PROVE  RunOk(d)'
      BY <1>5 DEF RunOk, NoRun
<1>6. ASSUME job'[d].pc \in {"next"}
      PROVE  RunOk(d)'
      BY <1>6 DEF RunOk
<1>7. ASSUME NEW c \in Channels, StartRun(c) \/ JobStep(c)
      PROVE  RunOk(d)'
  <2>1. CASE d # c
        BY <1>4, <1>7, <2>1, OthersStay
  <2>2. CASE d = c /\ StartRun(c)
        BY <1>6, <2>2, StartRunRun
  <2>3. CASE d = c /\ EndRun(c)
        BY <1>5, <2>3, EndRunRun
  <2>4. CASE d = c /\ \E r \in Readers : Gather(c, r)
    <3>1. PICK r \in Readers : Gather(c, r)
          BY <2>4
    <3>2. CASE job'[c].pc = "next"
          BY <1>6, <2>4, <3>2
    <3>3. CASE /\ job'[c].pc = "send" /\ job'[c].cur = r
               /\ job'[c].items # {} /\ job'[c].items \subseteq Candidates(c, r)
      <4>1. job'[c].todo = job[c].todo \ {r}
            BY <3>1, GatherRun
      <4>2. \A i \in job'[c].items : i <= published
            BY <3>3, CandidatesAreItems, <1>2
      <4>3. published' = published
            BY <3>1 DEF Gather
      <4>4. QED BY <2>4, <3>3, <4>1, <4>2, <4>3 DEF RunOk
    <3>4. QED BY <3>1, <3>2, <3>3, GatherRun
  <2>5. CASE d = c /\ Send(c)
    <3>1. /\ job[c].pc = "send" /\ job'[c].todo = job[c].todo
          /\ job'[c].cur = job[c].cur /\ job'[c].items = job[c].items
          BY <2>5, SendRun
    <3>2. /\ job[c].cur \in Readers \ job[c].todo /\ job[c].items # {} /\ job[c].items \subseteq Items
          /\ \A i \in job[c].items : i <= published
          BY <1>1, <2>5, <3>1 DEF RunOk, JobRuns
    <3>3. published' = published
          BY <2>5 DEF Send
    <3>4. CASE job'[c].pc = "off"
          BY <2>5, <3>1, <3>2, <3>4 DEF RunOk
    <3>5. CASE job'[c].pc = "mark" /\ Arrives(c)
      <4>1. \A i \in job[c].items : dms'[job[c].cur][i] = dms[job[c].cur][i] + 1
            BY <3>2, <3>5, Arrivals
      <4>2. \A i \in job[c].items : dms[job[c].cur][i] \in Nat
            BY <3>2 DEF TypeOK
      <4>3. \A i \in job'[c].items : dms'[job'[c].cur][i] > 0
            BY <3>1, <4>1, <4>2
      <4>4. QED BY <2>5, <3>1, <3>2, <3>3, <3>5, <4>3 DEF RunOk
    <3>6. CASE job'[c].pc = "next"
          BY <1>6, <2>5, <3>6
    <3>7. QED BY <2>5, <3>4, <3>5, <3>6, SendRun
  <2>6. CASE d = c /\ TurnOff(c)
    <3>1. job[c].cur \in Readers
          BY <1>1, <2>6 DEF TurnOff, RunOk
    <3>2. job'[c].pc = "next" \/ job'[c] = NoRun
          BY <2>6, <3>1, TurnOffRun
    <3>3. QED BY <1>5, <1>6, <2>6, <3>2
  <2>7. CASE d = c /\ Mark(c)
    <3>1. job'[c].pc = "next" \/ job'[c] = NoRun
          BY <2>7, MarkRun
    <3>2. QED BY <1>5, <1>6, <2>7, <3>1
  <2>8. QED BY <1>7, <2>1, <2>2, <2>3, <2>4, <2>5, <2>6, <2>7 DEF JobStep
<1>8. CASE NextHour
  <2>1. job[d].pc = "idle" => job'[d] = job[d]
        BY <1>8 DEF NextHour, TypeOK
  <2>2. QED BY <1>4, <1>8, <2>1, HourRuns
<1>9. CASE DmCrash
      BY <1>5, <1>9 DEF DmCrash
<1>10. CASE UNCHANGED job
      BY <1>4, <1>10
<1>11. Publish \/ UNCHANGED dmVars \/ (\E u \in Readers : Prefs(u)) => UNCHANGED job
      BY DEF Publish, dmVars, newsVars, Prefs, SetDelivery, SetDigestHour, ToggleQuiet, ToggleBlock
<1>12. QED BY <1>7, <1>8, <1>9, <1>10, <1>11 DEF DmNext

-----------------------------------------------------------------------------

LEMMA DeliveryStart == DmInit => DeliveryInv /\ DeliveredWereSent
<1> SUFFICES ASSUME DmInit PROVE DeliveryInv /\ DeliveredWereSent
    OBVIOUS
<1>0. \A c \in Channels : job[c] = NoRun
      BY DEF DmInit
<1>1. TypeOK
  <2>1. 0 \in 0 .. Hours - 1 /\ 0 \in 0 .. MaxItem /\ 0 \in 0 .. MaxChoices /\ 0 \in 0 .. MaxFaults
        BY BoundsAreNat
  <2>2. FirstMode \in [Readers -> Modes] /\ FirstHour \in [Readers -> 0 .. Hours - 1] /\ FirstQuiet \subseteq Readers
        BY DeliveryAssumption DEF Modes
  <2>3. job \in [Channels -> JobRuns]
        BY NoRunIsRun DEF DmInit
  <2>4. /\ dms \in [Readers -> [Items -> Nat]] /\ digests \in [Readers -> Nat] /\ switches \in [Readers -> Nat]
        BY DEF DmInit
  <2>5. QED BY <2>1, <2>2, <2>3, <2>4 DEF DmInit, TypeOK
<1>2. RunInv
  <2>1. \A c \in Channels : job[c].pc = "idle"
        BY <1>0 DEF NoRun
  <2>2. QED BY <1>0, <2>1 DEF RunInv, RunOk
<1>3. \A c \in Channels, u \in Readers, i \in Items :
         /\ Claims(c, u, i) = IF mode[u] = ModeOf(c) THEN 1 ELSE 0
         /\ ~ Carries(c, u)
      BY <1>0, IdleClaims DEF DmInit
<1>4. ClaimsAreBacked
  <2>1. "realtime" \in Channels /\ "digest" \in Channels
        BY DEF Channels
  <2>2. ModeOf("realtime") = "realtime" /\ ModeOf("digest") = "daily"
        BY DEF ModeOf
  <2>3. ASSUME NEW u \in Readers, NEW i \in Items
        PROVE  dms[u][i] + Claims("realtime", u, i) + Claims("digest", u, i) <= 1 + faults + switches[u]
    <3>1. dms[u][i] = 0 /\ faults = 0 /\ switches[u] = 0
          BY DEF DmInit
    <3>2. /\ Claims("realtime", u, i) = IF mode[u] = "realtime" THEN 1 ELSE 0
          /\ Claims("digest", u, i) = IF mode[u] = "daily" THEN 1 ELSE 0
          BY <1>3, <2>1, <2>2
    <3>3. QED BY <3>1, <3>2
  <2>4. ASSUME NEW u \in Readers
        PROVE  /\ digests[u] + DigestClaims(u) + Interferes(u) <= 1 + faults + switches[u]
               /\ ~ Carries("realtime", u)
    <3>1. digests[u] = 0 /\ faults = 0 /\ switches[u] = 0
          BY DEF DmInit
    <3>2. ~ Carries("realtime", u) /\ ~ Carries("digest", u)
      <4>1. \A c \in Channels : job[c].pc = "idle" /\ job[c].todo = {}
            BY <1>0 DEF NoRun
      <4>2. QED BY <2>1, <4>1 DEF Carries, Handles
    <3>3. /\ DigestClaims(u) <= IF mode[u] = "daily" THEN 1 ELSE 0
          /\ Interferes(u) = IF mode[u] = "realtime" THEN 1 ELSE 0
          BY <3>2 DEF DigestClaims, Interferes
    <3>4. QED BY <3>1, <3>2, <3>3, DigestClaimsAreFew
  <2>5. QED BY <2>3, <2>4 DEF ClaimsAreBacked
<1>5. DeliveredWereSent
      BY DEF DmInit, DeliveredWereSent
<1>6. QED BY <1>1, <1>2, <1>4, <1>5 DEF DeliveryInv

\* The news jobs keep what they have to do in order: a message that went out
\* waits for its rows, and whatever was sent or may be sent yet, is a first time
\* or paid for with a fault or a change of mode (_deliver in bot/news/jobs.py).
THEOREM DeliveryInvariant == DmSpec => []DeliveryInv
<1>1. DmInit => DeliveryInv
      BY DeliveryStart
<1>2. DeliveryInv /\ [DmNext]_dmVars => DeliveryInv'
      BY DmTypeStep, RunStep, BackingStep DEF DeliveryInv
<1>3. QED BY <1>1, <1>2, PTL DEF DmSpec

\* Every ledger row of news_delivered is of a message that was sent: rows are
\* written after the send, and never for another item or user.
THEOREM DeliveriesWereSent == DmSpec => []DeliveredWereSent
<1>1. DmInit => DeliveredWereSent
      BY DeliveryStart
<1>2. DeliveryInv /\ DeliveredWereSent /\ [DmNext]_dmVars => DeliveredWereSent'
  <2> SUFFICES ASSUME DeliveryInv, DeliveredWereSent, [DmNext]_dmVars, NEW u \in Readers, NEW i \in Items,
                      <<u, i>> \in delivered'
               PROVE  dms'[u][i] > 0
      BY DEF DeliveredWereSent
  <2>0. TypeOK /\ RunInv
        BY DEF DeliveryInv
  <2>1. dms[u][i] > 0 => dms'[u][i] > 0
        BY <2>0, DmsGrow
  <2>2. ASSUME NEW c \in Channels, Mark(c), <<u, i>> \notin delivered
        PROVE  dms[u][i] > 0
    <3>1. u = job[c].cur /\ i \in job[c].items
          BY <2>0, <2>2, MarkRun
    <3>2. QED BY <2>0, <2>2, <3>1 DEF Mark, RunInv, RunOk
  <2>3. UNCHANGED delivered \/ \E c \in Channels : Mark(c)
        BY DEF DmNext, dmVars, newsVars, Publish, NextHour, Prefs, SetDelivery, SetDigestHour, ToggleQuiet,
               ToggleBlock, StartRun, JobStep, Gather, EndRun, Send, TurnOff, DmCrash
  <2>4. QED BY <2>1, <2>2, <2>3 DEF DeliveredWereSent
<1>3. QED BY <1>1, <1>2, DeliveryInvariant, PTL DEF DmSpec

\* An item, or a second digest of the day, comes again only for a cause: each
\* repetition beyond the first is matched by a crash, a lost answer or a failed
\* transaction, or by a change of the user's mode.
THEOREM DmsComeOnce == DmSpec => []DmsAreNotRepeated
<1>1. DeliveryInv => DmsAreNotRepeated
  <2> SUFFICES ASSUME DeliveryInv PROVE RepetitionsHaveACause /\ OneDigestPerDay
      BY DEF DmsAreNotRepeated
  <2>0. TypeOK /\ ClaimsAreBacked
        BY DEF DeliveryInv
  <2>1. ASSUME NEW u \in Readers, NEW i \in Items
        PROVE  dms[u][i] <= 1 + faults + switches[u]
    <3>1. dms[u][i] + Claims("realtime", u, i) + Claims("digest", u, i) <= 1 + faults + switches[u]
          BY <2>0 DEF ClaimsAreBacked
    <3>2. dms[u][i] \in Nat /\ faults \in Nat /\ switches[u] \in Nat
          BY <2>0, BoundsAreNat DEF TypeOK
    <3>3. QED BY <3>1, <3>2, ClaimsAreFew
  <2>2. ASSUME NEW u \in Readers
        PROVE  digests[u] <= 1 + faults + switches[u]
    <3>1. digests[u] + DigestClaims(u) + Interferes(u) <= 1 + faults + switches[u]
          BY <2>0 DEF ClaimsAreBacked
    <3>2. digests[u] \in Nat /\ faults \in Nat /\ switches[u] \in Nat
          BY <2>0, BoundsAreNat DEF TypeOK
    <3>3. QED BY <3>1, <3>2, DigestClaimsAreFew
  <2>3. QED BY <2>1, <2>2 DEF RepetitionsHaveACause, OneDigestPerDay
<1>2. QED BY <1>1, DeliveryInvariant, PTL
=============================================================================
