----------------------------- MODULE ClientCache -----------------------------
(***************************************************************************)
(* The trading clients of one user's accounts, cached by two processes     *)
(* over one database (polymarket/account_manager.py).  The bot handles one *)
(* update after another and invalidates its cache when it stores or        *)
(* deletes credentials; the Mini App serves requests concurrently, and     *)
(* nobody invalidates its cache.                                           *)
(***************************************************************************)
EXTENDS Integers, Sequences, SequencesExt, FiniteSetsExt

CONSTANTS
    Accounts,       \* account ids
    Requests,       \* requests of the Mini App in flight
    Ttl,            \* the lifetime of a cached client, in ticks
    MaxClients,     \* the size of a cache
    NoAccount,
    MaxClock, MaxChanges  \* bounds: the clock, credentials stored or deleted

ASSUME CacheAssumption ==
    NoAccount \notin Accounts /\ "nobody" \notin Requests /\ MaxClients \in Nat \ {0} /\ {Ttl, MaxClock, MaxChanges} \subseteq Nat

VARIABLES
    now,
    rows,           \* accounts: the ids that have a row
    version,        \* per account: how often its credentials were stored or deleted
    replaced,       \* per account: when each of these was
    botCache,       \* the bot: the version of each cached client
    webCache,       \* the Mini App: cached clients, least recently used first
    lock,           \* the Mini App: who holds the lock of an account
    pc, wants, loaded,  \* the requests
    staleness       \* history: the greatest age of credentials served as current

cacheVars == <<now, rows, version, replaced, botCache, webCache, lock, pc, wants, loaded, staleness>>

Nobody == "nobody"
NotCached == -1

CacheInit ==
    /\ now = 0 /\ rows = {} /\ version = [a \in Accounts |-> 0]
    /\ replaced = [a \in Accounts |-> <<>>]
    /\ botCache = [a \in Accounts |-> NotCached] /\ webCache = <<>>
    /\ lock = [a \in Accounts |-> Nobody]
    /\ pc = [r \in Requests |-> "idle"] /\ wants = [r \in Requests |-> NoAccount]
    /\ loaded = [r \in Requests |-> 0]
    /\ staleness = 0

-----------------------------------------------------------------------------
(* The bot.                                                                 *)

Changes == MapThenSumSet(LAMBDA a : version[a], Accounts)

\* Mutant: storing credentials does not invalidate.
InvalidateMutant(cache) == cache

\* invalidate(user): every client of the user.
Invalidate(cache) == [a \in Accounts |-> NotCached]

\* The credentials of account a are stored, for the first time or again.
StoreCredentials(a) ==
    /\ Changes < MaxChanges /\ (a \in rows \/ version[a] = 0)
    /\ rows' = rows \cup {a}
    /\ version' = [version EXCEPT ![a] = @ + 1]
    /\ replaced' = [replaced EXCEPT ![a] = Append(@, now)]
    /\ botCache' = Invalidate(botCache)
    /\ UNCHANGED <<now, webCache, lock, pc, wants, loaded, staleness>>

\* An id is never used again.
DeleteAccount(a) ==
    /\ Changes < MaxChanges /\ a \in rows
    /\ rows' = rows \ {a}
    /\ version' = [version EXCEPT ![a] = @ + 1]
    /\ replaced' = [replaced EXCEPT ![a] = Append(@, now)]
    /\ botCache' = [botCache EXCEPT ![a] = NotCached]
    /\ UNCHANGED <<now, webCache, lock, pc, wants, loaded, staleness>>

\* The bot trades: the cached client, or one built from the row.
BotTrade(a) ==
    /\ a \in rows
    /\ botCache' = [botCache EXCEPT ![a] = IF @ = NotCached THEN version[a] ELSE @]
    /\ UNCHANGED <<now, rows, version, replaced, webCache, lock, pc, wants, loaded, staleness>>

\* TTL, eviction, the restart of the process.
BotDrops(a) ==
    /\ botCache[a] # NotCached
    /\ botCache' = [botCache EXCEPT ![a] = NotCached]
    /\ UNCHANGED <<now, rows, version, replaced, webCache, lock, pc, wants, loaded, staleness>>

-----------------------------------------------------------------------------
(* A request of the Mini App: default_account_id, the lock, the cache, and   *)
(* if need be the load and the build in a thread.                            *)

Resolve(r, a) ==
    /\ pc[r] = "idle" /\ a \in rows
    /\ pc' = [pc EXCEPT ![r] = "lock"] /\ wants' = [wants EXCEPT ![r] = a]
    /\ UNCHANGED <<now, rows, version, replaced, botCache, webCache, lock, loaded, staleness>>

Expired(e) == now - e.created > Ttl
Places(a) == {i \in DOMAIN webCache : webCache[i].account = a}
Cached(a) == {webCache[i] : i \in Places(a)}

\* The cache after the client of account a, if there is one, was popped.
Others(a) == IF Places(a) = {} THEN webCache ELSE RemoveAt(webCache, CHOOSE i \in Places(a) : TRUE)

\* How long ago version v of account a was replaced; 0 while it is current.
Age(a, v) == IF v < Len(replaced[a]) THEN now - replaced[a][v + 1] ELSE 0
Worse(a, v) == IF Age(a, v) > staleness THEN Age(a, v) ELSE staleness

\* Mutant: a use keeps the client for another TTL.
TouchMutant(e) == [e EXCEPT !.created = now]

Touch(e) == e

\* A fresh client is moved to the end and returned, the lock released.
Hit(r) ==
    LET a == wants[r]
    IN /\ pc[r] = "lock" /\ lock[a] = Nobody
       /\ \E e \in Cached(a) :
             /\ ~Expired(e)
             /\ webCache' = Append(Others(a), Touch(e))
             /\ staleness' = Worse(a, e.version)
       /\ pc' = [pc EXCEPT ![r] = "idle"] /\ wants' = [wants EXCEPT ![r] = NoAccount]
       /\ UNCHANGED <<now, rows, version, replaced, botCache, lock, loaded>>

\* Mutant: the cache is looked at without the lock.
FreeMutant(a) == TRUE

Free(a) == lock[a] = Nobody

Miss(r) ==
    LET a == wants[r]
    IN /\ pc[r] = "lock" /\ Free(a)
       /\ \A e \in Cached(a) : Expired(e)
       /\ webCache' = Others(a)
       /\ lock' = [lock EXCEPT ![a] = r]
       /\ pc' = [pc EXCEPT ![r] = "load"]
       /\ UNCHANGED <<now, rows, version, replaced, botCache, wants, loaded, staleness>>

\* Mutant: an exception leaves the lock taken.
ReleasedMutant(a, ok) == IF ok THEN [lock EXCEPT ![a] = Nobody] ELSE lock

Released(a, ok) == [lock EXCEPT ![a] = Nobody]

Load(r) ==
    /\ pc[r] = "load" /\ wants[r] \in rows
    /\ loaded' = [loaded EXCEPT ![r] = version[wants[r]]]
    /\ pc' = [pc EXCEPT ![r] = "build"]
    /\ UNCHANGED <<now, rows, version, replaced, botCache, webCache, lock, wants, staleness>>

\* The row is gone, or the client cannot be built.
Fail(r) ==
    /\ \/ pc[r] = "load" /\ wants[r] \notin rows
       \/ pc[r] = "build"
    /\ lock' = Released(wants[r], FALSE)
    /\ pc' = [pc EXCEPT ![r] = "idle"] /\ wants' = [wants EXCEPT ![r] = NoAccount]
    /\ loaded' = [loaded EXCEPT ![r] = 0]
    /\ UNCHANGED <<now, rows, version, replaced, botCache, webCache, staleness>>

\* _put: the client goes to the end, the least recently used one is evicted.
Put(a, v) ==
    LET cache == Append(Others(a), [account |-> a, version |-> v, created |-> now])
    IN IF Len(cache) > MaxClients THEN Tail(cache) ELSE cache

Build(r) ==
    LET a == wants[r]
    IN /\ pc[r] = "build"
       /\ webCache' = Put(a, loaded[r])
       /\ staleness' = Worse(a, loaded[r])
       /\ lock' = Released(a, TRUE)
       /\ pc' = [pc EXCEPT ![r] = "idle"] /\ wants' = [wants EXCEPT ![r] = NoAccount]
       /\ loaded' = [loaded EXCEPT ![r] = 0]
       /\ UNCHANGED <<now, rows, version, replaced, botCache>>

Building == {r \in Requests : pc[r] \in {"load", "build"}}

\* Loading and building take less than a tick.
Tick ==
    /\ now < MaxClock /\ Building = {}
    /\ now' = now + 1
    /\ UNCHANGED <<rows, version, replaced, botCache, webCache, lock, pc, wants, loaded, staleness>>

CacheNext ==
    \/ \E a \in Accounts : StoreCredentials(a) \/ DeleteAccount(a) \/ BotTrade(a) \/ BotDrops(a)
    \/ \E r \in Requests, a \in Accounts : Resolve(r, a)
    \/ \E r \in Requests : Hit(r) \/ Miss(r) \/ Load(r) \/ Fail(r) \/ Build(r)
    \/ Tick

\* The steps of a request go on, and asyncio.Lock wakes its waiters in order.
CacheFairness == \A r \in Requests : /\ SF_cacheVars(Hit(r) \/ Miss(r))
                                     /\ WF_cacheVars(Load(r) \/ Fail(r) \/ Build(r))

CacheSpec == CacheInit /\ [][CacheNext]_cacheVars /\ CacheFairness

-----------------------------------------------------------------------------
(* Properties                                                               *)

CacheTypes ==
    /\ now \in 0 .. MaxClock /\ rows \subseteq Accounts /\ staleness \in 0 .. MaxClock
    /\ version \in [Accounts -> Nat] /\ replaced \in [Accounts -> Seq(Nat)]
    /\ botCache \in [Accounts -> Nat \cup {NotCached}]
    /\ webCache \in Seq([account : Accounts, version : Nat, created : Nat])
    /\ lock \in [Accounts -> Requests \cup {Nobody}]
    /\ pc \in [Requests -> {"idle", "lock", "load", "build"}]
    /\ wants \in [Requests -> Accounts \cup {NoAccount}] /\ loaded \in [Requests -> Nat]
    /\ \A r \in Requests : pc[r] # "idle" => wants[r] \in Accounts

\* The types, and: the cache is within its limit and has one client per
\* account; a lock is held exactly by the request that builds.
CacheInv ==
    /\ CacheTypes
    /\ Len(webCache) <= MaxClients
    /\ \A i, j \in DOMAIN webCache : webCache[i].account = webCache[j].account => i = j
    /\ \A a \in Accounts : \A r \in Requests : lock[a] = r <=> r \in Building /\ wants[r] = a

\* Version v of account a, if it was replaced at all, was not before time t.
CurrentUntil(a, v, t) == v < Len(replaced[a]) => t <= replaced[a][v + 1]

\* What a client was made from was current when it was made, and what a request
\* builds from is current or replaced just now.
StalenessInv ==
    /\ \A a \in Accounts : Len(replaced[a]) = version[a] /\ \A i \in DOMAIN replaced[a] : replaced[a][i] <= now
    /\ \A i \in DOMAIN webCache :
          LET e == webCache[i] IN e.created <= now /\ CurrentUntil(e.account, e.version, e.created)
    /\ \A r \in Requests : pc[r] = "build" => CurrentUntil(wants[r], loaded[r], now)

\* The per-key lock: the credentials of an account are decrypted and its
\* client built once for concurrent requests, not once for each.
OneBuildPerAccount ==
    \A r, s \in Building : wants[r] = wants[s] => r = s

\* The bot signs with the credentials in the database, whatever it cached
\* before they were replaced or deleted (invalidate after the commit).
BotSignsWithCurrentKeys ==
    \A a \in Accounts : botCache[a] # NotCached => a \in rows /\ botCache[a] = version[a]

\* The Mini App, which nobody tells, goes on with replaced credentials for at
\* most the TTL, however often they are used meanwhile.
StaleClientsAreBounded == staleness <= Ttl

\* What the two processes sign with: the credentials of now, or not much older.
ClientsAreCurrent == BotSignsWithCurrentKeys /\ StaleClientsAreBounded

\* A request is served or fails: no lock is left taken.
RequestsEnd == \A r \in Requests : pc[r] # "idle" ~> pc[r] = "idle"
=============================================================================
