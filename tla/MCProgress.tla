----------------------------- MODULE MCProgress -----------------------------
(***************************************************************************)
(* Three parts with a liveness property, on small instances: the recording *)
(* of statistics and points, the client cache of the Mini App and the      *)
(* crawler.  They share nothing that any of them changes, so a behaviour   *)
(* is one of one of them, "part", the others staying where they start.     *)
(***************************************************************************)
EXTENDS ClientCache, Crawler, Activity

VARIABLE part

\* Two bets of one user, one of the other, who may refer each other.
MCBettor == [t \in {"t1", "t2", "t3"} |-> IF t = "t3" THEN "bob" ELSE "ann"]
MCPoints == [t \in {"t1", "t2", "t3"} |-> IF t = "t1" THEN 12 ELSE 30]
MCRates == <<10, 5, 3>>

\* Two articles, which are one story.
MCTitle == [a \in {"u1", "u2"} |-> "story"]
MCFeeds == {<<"u1", "u2">>}

progressVars == <<part, activityVars, cacheVars, crawlVars>>

ProgressInit ==
    /\ part \in {"recording", "clients", "crawl"}
    /\ ActivityInit /\ CacheInit /\ CrawlInit
    \* The first source is there from the start, the second may be; and one
    \* initial state is enough of a part that stands still.
    /\ sources[1] = NewSource
    /\ part # "crawl" => sources[2] = NoSource

RecordingAlone == part = "recording" /\ UNCHANGED <<part, cacheVars, crawlVars>>
ClientsAlone == part = "clients" /\ UNCHANGED <<part, activityVars, crawlVars>>
CrawlAlone == part = "crawl" /\ UNCHANGED <<part, activityVars, cacheVars>>

ProgressNext ==
    \/ RecordingAlone /\ ActivityNext
    \/ ClientsAlone /\ CacheNext
    \/ CrawlAlone /\ CrawlNext

\* The fairness of each module.  Where only one part ever moves, fairness to a
\* step of each is fairness to their disjunction.
Serve(r) == Load(r) \/ Fail(r) \/ Build(r)
ProgressFairness ==
    /\ WF_progressVars(\/ RecordingAlone /\ Record("t1")
                       \/ ClientsAlone /\ Serve("r1")
                       \/ CrawlAlone /\ Job)
    /\ WF_progressVars((RecordingAlone /\ Record("t2")) \/ (ClientsAlone /\ Serve("r2")))
    /\ WF_progressVars(RecordingAlone /\ Record("t3"))
    /\ \A r \in {"r1", "r2"} : SF_progressVars(ClientsAlone /\ (Hit(r) \/ Miss(r)))

ProgressSpec == ProgressInit /\ [][ProgressNext]_progressVars /\ ProgressFairness

-----------------------------------------------------------------------------

\* What holds of the state of each part: a row of statistics is held by the
\* recording that read it, which adds to the ledger what its bet earned; the
\* credentials of an account are built once for concurrent requests, an article
\* is stored once.
ProgressInv ==
    /\ ActivityInv /\ CacheInv /\ StalenessInv /\ OneBuildPerAccount /\ CrawlInv

\* A request of the Mini App is served or fails, and a source under test is
\* polled, whatever fails before it.
ServicesGoOn == RequestsEnd /\ TestedSourcesAreProbed
=============================================================================
