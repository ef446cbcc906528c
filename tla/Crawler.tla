------------------------------ MODULE Crawler ------------------------------
(***************************************************************************)
(* How news comes in (bot/news/crawler.py, jobs.py crawl_job): the enabled *)
(* sources are polled one after the other; a source's feed and then each   *)
(* article it names is fetched over HTTP, every hop to an address that was *)
(* vetted before; what is new is stored in one transaction per source.     *)
(* Meanwhile names resolve to other addresses, and administrators add,     *)
(* switch, test and delete sources (dashboard/repo.py).                    *)
(***************************************************************************)
EXTENDS Integers, Sequences, FiniteSets, FiniteSetsExt

CONSTANTS
    Sources,        \* numbers, in the order of their ids
    Articles,       \* URLs of articles
    Title,          \* the normalized title of each
    Feeds,          \* lists of articles a source may name
    Hosts, Public, Private,   \* names, and addresses they may resolve to
    MaxRedirects,
    MaxActs, MaxCrashes       \* bounds

ASSUME CrawlerAssumption ==
    /\ Sources \subseteq Nat \ {0} /\ IsFiniteSet(Sources) /\ Articles = DOMAIN Title
    /\ Public \cap Private = {} /\ "none" \notin Public /\ Feeds \subseteq Seq(Articles)
    /\ {MaxRedirects, MaxActs, MaxCrashes} \subseteq Nat

VARIABLES
    dns,            \* what each name resolves to (failing to counts as Private)
    sources,        \* news_sources: there or not, enabled, last_status
    items,          \* news_items: the URLs stored
    crawlPc, todo,  \* crawl_job: its snapshot of the sources left
    source,         \* the one being polled
    entries, got,   \* its articles still to fetch, and fetched
    fetch,          \* the request under way
    acts, crashes,
    contacted       \* history: the addresses connected to

adminVars == <<sources, acts>>
jobVars == <<crawlPc, todo, source, entries, got, fetch>>
crawlVars == <<dns, items, adminVars, jobVars, crashes, contacted>>

None == 0
NoFetch == [host |-> "none", ip |-> "none", hops |-> 0, bare |-> FALSE]
NoSource == [row |-> FALSE, enabled |-> FALSE, status |-> "never"]
NewSource == [row |-> TRUE, enabled |-> TRUE, status |-> "never"]
Status == {"never", "pending", "ok", "error"}
Resolutions == (SUBSET (Public \cup Private)) \ {{}}

CrawlInit ==
    /\ dns \in [Hosts -> {{p} : p \in Public}]
    /\ sources \in [Sources -> {NoSource, NewSource}] /\ items = {}
    /\ crawlPc = "idle" /\ todo = {} /\ source = None /\ entries = <<>> /\ got = <<>> /\ fetch = NoFetch
    /\ acts = 0 /\ crashes = 0 /\ contacted = {}

-----------------------------------------------------------------------------
(* One GET.                                                                 *)

\* _assert_public_url: every address must be public; the first is pinned.
Vetted(h) == IF dns[h] \subseteq Public THEN dns[h] ELSE {}

\* Mutant: the name is resolved again when connecting.
TargetsMutant == dns[fetch.host]

\* _connect_target: the connection goes to the pinned address.
Targets == {fetch.ip}

Get(h, after) ==
    /\ fetch' \in {[host |-> h, ip |-> a, hops |-> 0, bare |-> FALSE] : a \in Vetted(h)}
    /\ crawlPc' = after

\* A request is made; what the server answers is up to the actions below.
Connected == \E a \in Targets : contacted' = contacted \cup {a}

\* A 403 is asked once more, without a referer.
Forbidden ==
    /\ crawlPc \in {"feed", "article"} /\ ~fetch.bare /\ Connected
    /\ fetch' = [fetch EXCEPT !.bare = TRUE]
    /\ UNCHANGED <<dns, items, adminVars, crawlPc, todo, source, entries, got, crashes>>

\* A redirect is vetted and pinned like the first address.
Redirect(h) ==
    /\ crawlPc \in {"feed", "article"} /\ fetch.hops < MaxRedirects /\ Connected
    /\ fetch' \in {[host |-> h, ip |-> a, hops |-> fetch.hops + 1, bare |-> FALSE] : a \in Vetted(h)}
    /\ UNCHANGED <<dns, items, adminVars, crawlPc, todo, source, entries, got, crashes>>

-----------------------------------------------------------------------------
(* crawl_job.                                                               *)

\* The enabled sources, as they are when the job starts.
StartCrawl ==
    /\ crawlPc = "idle" /\ crawlPc' = "next"
    /\ todo' = {s \in Sources : sources[s].row /\ sources[s].enabled}
    /\ UNCHANGED <<dns, items, adminVars, source, entries, got, fetch, crashes, contacted>>

EndCrawl ==
    /\ crawlPc = "next" /\ todo = {} /\ crawlPc' = "idle"
    /\ UNCHANGED <<dns, items, adminVars, todo, source, entries, got, fetch, crashes, contacted>>

Marked(status) ==
    sources' = [sources EXCEPT ![source].status = IF sources[source].row THEN status ELSE @]

\* fetch_articles of the next source, on some host.
Poll(h) ==
    /\ crawlPc = "next" /\ todo # {}
    /\ source' = Min(todo) /\ todo' = todo \ {Min(todo)} /\ Get(h, "feed")
    /\ UNCHANGED <<dns, items, adminVars, entries, got, crashes, contacted>>

\* A feed that names articles, or a page that is one.
Feed(list) ==
    /\ crawlPc = "feed" /\ Connected
    /\ crawlPc' = "entries" /\ entries' = list /\ fetch' = NoFetch
    /\ UNCHANGED <<dns, items, adminVars, todo, source, got, crashes>>

\* An error status: no articles, and no error either.
FeedRefused == Feed(<<>>)

\* Mutant: a bad feed ends the cycle.
GoOnMutant == crawlPc' = "idle"

\* A bad feed does not abort the batch.
GoOn == crawlPc' = "next"

Failed == Marked("error") /\ GoOn /\ source' = None /\ fetch' = NoFetch

\* Not public, or not resolved at all: before any connection, or at a redirect.
Unsafe ==
    \/ /\ crawlPc = "next" /\ todo # {} /\ \E h \in Hosts : Vetted(h) = {}
       /\ source = None /\ todo' = todo \ {Min(todo)}
       /\ LET s == Min(todo) IN
          sources' = [sources EXCEPT ![s].status = IF sources[s].row THEN "error" ELSE @]
       /\ GoOn
       /\ UNCHANGED <<dns, items, acts, source, entries, got, fetch, crashes, contacted>>
    \/ /\ crawlPc = "feed" /\ Connected /\ Failed
       /\ (fetch.hops = MaxRedirects \/ \E h \in Hosts : Vetted(h) = {})
       /\ UNCHANGED <<dns, items, acts, todo, entries, got, crashes>>

\* A transport error, or a body that is too long.
FeedFails ==
    /\ crawlPc = "feed" /\ Connected /\ Failed
    /\ UNCHANGED <<dns, items, acts, todo, entries, got, crashes>>

\* A link no URL can be made of (httpx.InvalidURL, ValueError) is not skipped: the
\* articles fetched before it are lost with it.
BadLink ==
    /\ crawlPc = "entries" /\ entries # <<>>
    /\ entries' = <<>> /\ got' = <<>> /\ Failed
    /\ UNCHANGED <<dns, items, acts, todo, crashes, contacted>>

NextArticle(h) ==
    /\ crawlPc = "entries" /\ entries # <<>> /\ Get(h, "article")
    /\ UNCHANGED <<dns, items, adminVars, todo, source, entries, got, crashes, contacted>>

\* An article is had, or skipped: whatever failed, a challenge page, a hop that
\* is not public.
ArticleEnds(had) ==
    /\ \/ crawlPc = "article" /\ Connected
       \/ crawlPc = "entries" /\ entries # <<>> /\ ~had /\ (\E h \in Hosts : Vetted(h) = {}) /\ UNCHANGED contacted
    /\ got' = IF had THEN Append(got, Head(entries)) ELSE got
    /\ entries' = Tail(entries) /\ crawlPc' = "entries" /\ fetch' = NoFetch
    /\ UNCHANGED <<dns, items, adminVars, todo, source, crashes>>

\* Mutant: only the URL is asked for.
KnownMutant(stored, a) == a \in stored

\* exists_by_url_hash, exists_by_dedup_hash.
Known(stored, a) == a \in stored \/ \E b \in stored : Title[b] = Title[a]

\* The articles had that are neither stored nor, under another URL perhaps, the
\* same as one had before.
NewArticles == {got[i] : i \in {i \in DOMAIN got : ~Known(items \cup {got[j] : j \in 1 .. i - 1}, got[i])}}

\* One transaction, the articles one after the other; each fails when its source
\* was deleted meanwhile.
StoreArticles ==
    /\ crawlPc = "entries" /\ entries = <<>>
    /\ items' = IF sources[source].row THEN items \cup NewArticles ELSE items
    /\ Marked("ok")
    /\ crawlPc' = "next" /\ source' = None /\ got' = <<>>
    /\ UNCHANGED <<dns, acts, todo, entries, fetch, crashes, contacted>>

\* The bot stops: what was not stored is fetched again.
CrawlCrash ==
    /\ crashes < MaxCrashes /\ crawlPc # "idle"
    /\ crashes' = crashes + 1
    /\ crawlPc' = "idle" /\ todo' = {} /\ source' = None /\ entries' = <<>> /\ got' = <<>> /\ fetch' = NoFetch
    /\ UNCHANGED <<dns, items, adminVars, contacted>>

-----------------------------------------------------------------------------
(* The rest of the world.                                                   *)

Rebind(h, addresses) ==
    /\ dns[h] # addresses /\ dns' = [dns EXCEPT ![h] = addresses]
    /\ UNCHANGED <<items, adminVars, jobVars, crashes, contacted>>

Admin == acts < MaxActs /\ acts' = acts + 1

\* create_news_source: the hash of the URL is unique.
CreateSource(s) ==
    /\ Admin /\ ~sources[s].row
    /\ sources' = [sources EXCEPT ![s] = NewSource]
    /\ UNCHANGED <<dns, items, jobVars, crashes, contacted>>

\* curate_news_source.
CurateSource(s, action) ==
    /\ Admin /\ sources[s].row
    /\ sources' = [sources EXCEPT ![s] =
                      CASE action = "toggle" -> [@ EXCEPT !.enabled = ~sources[s].enabled]
                        [] action = "test" -> [@ EXCEPT !.status = "pending"]
                        [] action = "delete" -> NoSource]
    /\ UNCHANGED <<dns, items, jobVars, crashes, contacted>>

Job ==
    \/ StartCrawl \/ EndCrawl \/ Forbidden \/ Unsafe \/ FeedFails \/ FeedRefused \/ BadLink \/ StoreArticles
    \/ \E h \in Hosts : Poll(h) \/ Redirect(h) \/ NextArticle(h)
    \/ \E l \in Feeds : Feed(l)
    \/ \E had \in BOOLEAN : ArticleEnds(had)

CrawlNext ==
    \/ Job \/ CrawlCrash
    \/ \E h \in Hosts, r \in Resolutions : Rebind(h, r)
    \/ \E s \in Sources : CreateSource(s) \/ \E a \in {"toggle", "test", "delete"} : CurateSource(s, a)

\* The job is scheduled again and again, and every request of it ends: there is
\* a timeout on each.
CrawlFairness == WF_crawlVars(Job)

CrawlSpec == CrawlInit /\ [][CrawlNext]_crawlVars /\ CrawlFairness

-----------------------------------------------------------------------------

\* The shape of the state; one item for each story, in a batch and across feeds;
\* no GET follows more redirects than allowed, each at an address vetted for it.
CrawlInv ==
    /\ dns \in [Hosts -> Resolutions] /\ items \subseteq Articles
    /\ sources \in [Sources -> [row : BOOLEAN, enabled : BOOLEAN, status : Status]]
    /\ {entries, got} \subseteq Seq(Articles) /\ (crawlPc = "article" => entries # <<>>)
    /\ crawlPc \in {"idle", "next", "feed", "entries", "article"} /\ todo \subseteq Sources
    /\ (crawlPc \in {"feed", "article"}) = (fetch.ip \in Public)
    /\ (crawlPc \in {"feed", "article", "entries"}) = (source \in Sources)
    /\ \A a, b \in items : Title[a] = Title[b] => a = b

\* No connection is ever made to an address that is not public, whatever names
\* resolve to between the check and the connection, redirects included.
OnlyPublicAddresses == contacted \subseteq Public

\* A source put to the test is probed, other feeds failing or not, unless it is
\* disabled or deleted first.
TestedSourcesAreProbed ==
    \A s \in Sources : sources[s].status = "pending" ~> (sources[s].status # "pending" \/ ~sources[s].enabled)
=============================================================================
