------------------------------- MODULE Access -------------------------------
(***************************************************************************)
(* Who may use the bot: what preprocess (bot/middleware.py) does with each *)
(* update before a handler sees it (rate limit, status, invite code), and  *)
(* the administrator's switches it reads.  The bot handles one update at a *)
(* time; the dashboard and the Mini App write the same rows in between.    *)
(* A status is active or blocked: suspended and banned differ in wording.  *)
(* A refusal stops the update by an exception raised after its reply:      *)
(* where the reply, or the database, fails first, the error is only logged *)
(* (_on_error of bot/main.py) and the handlers see the update after all.   *)
(***************************************************************************)
EXTENDS Integers, Sequences, FiniteSets

CONSTANTS
    Users,
    Members,                \* those who were users before there was a gate
    Actors,                 \* bound: those who send updates here
    GlobalCodes,            \* the access codes an administrator may set
    Sync,                   \* settings.middleware_sync_seconds, in ticks
    MaxEvents, EventWindow,      \* _rate_limiter
    MaxTries, TryWindow,    \* _access_limiter
    NoUser, NoCode,
    MaxGateClock, MaxGateRestarts,  \* bounds
    MaxGateFaults                   \* bound: failures of preprocess, per user

ASSUME AccessAssumption ==
    /\ Members \subseteq Users /\ Actors \subseteq Users
    /\ NoUser \notin Users /\ NoCode \notin Users \cup GlobalCodes
    /\ Users \cap GlobalCodes = {} /\ GlobalCodes # {}
    /\ {Sync, EventWindow, TryWindow, MaxGateClock, MaxGateRestarts, MaxGateFaults} \subseteq Nat
    /\ MaxEvents \in Nat \ {0} /\ MaxTries \in Nat \ {0}

VARIABLES
    gateNow, gateRestarts,
    gate, accessCode,       \* app_config
    users,                  \* the rows, per Telegram user
    cache,                  \* context.user_data, per user
    hits, tries,            \* the events each limiter remembers
    \* history
    blockedAt,              \* when a user was last blocked, or Never
    gateOffAt,              \* when the gate was last seen off
    log, guesses,           \* every event a limiter let through since the start
    failed,                 \* per user, the updates for which preprocess failed
    lost,                   \* when what the cache has of a user was last rolled back, or Never
    pastLock,               \* the updates handled of a user who had been locked for Sync ticks
    pastLimit               \* the updates handled that the rate limit had refused

accessVars == <<gateNow, gateRestarts, gate, accessCode, users, cache, hits, tries,
                blockedAt, gateOffAt, log, guesses, failed, lost, pastLock, pastLimit>>

Never == -1
NoUserRow == [status |-> "none", granted |-> FALSE, code |-> FALSE, referrer |-> NoUser]
NewRow == [NoUserRow EXCEPT !.status = "active"]
MemberRow == [NewRow EXCEPT !.granted = TRUE, !.code = TRUE]
NotCached == [at |-> Never, status |-> "none", granted |-> FALSE, known |-> FALSE]

AccessInit ==
    /\ gateNow = 0 /\ gateRestarts = 0
    /\ gate \in BOOLEAN /\ accessCode \in GlobalCodes
    /\ users = [u \in Users |-> IF u \in Members THEN MemberRow ELSE NoUserRow]
    /\ cache = [u \in Users |-> NotCached]
    /\ hits = [u \in Users |-> <<>>] /\ tries = [u \in Users |-> <<>>]
    /\ blockedAt = [u \in Users |-> Never] /\ gateOffAt = IF gate THEN Never ELSE 0
    /\ log = [u \in Users |-> <<>>] /\ guesses = [u \in Users |-> <<>>]
    /\ failed = [u \in Users |-> 0] /\ lost = [u \in Users |-> Never]
    /\ pastLock = [u \in Users |-> 0] /\ pastLimit = [u \in Users |-> 0]

-----------------------------------------------------------------------------
(* The limiter: a sliding window; a refused event is not remembered.        *)

\* Mutant: the events exactly at the cutoff are dropped too.
ExpiredMutant(q, window) ==
    CHOOSE n \in 0 .. Len(q) :
        /\ \A i \in 1 .. n : q[i] <= gateNow - window
        /\ n < Len(q) => q[n + 1] > gateNow - window

\* How many events "while q and q[0] < cutoff" drops.
Expired(q, window) ==
    CHOOSE n \in 0 .. Len(q) :
        /\ \A i \in 1 .. n : q[i] < gateNow - window
        /\ n < Len(q) => q[n + 1] >= gateNow - window

InWindow(q, window) == SubSeq(q, Expired(q, window) + 1, Len(q))

Allows(q, max, window) == Len(InWindow(q, window)) < max

Limited(q, max, window) ==
    IF Allows(q, max, window) THEN Append(InWindow(q, window), gateNow) ELSE InWindow(q, window)

-----------------------------------------------------------------------------
(* The rows.                                                                *)

GetOrCreate(u) == IF users[u] = NoUserRow THEN NewRow ELSE users[u]

\* The owner of a referral code, if there is one: a code is named by its owner.
Inviter(code) == IF code \in Users /\ users[code].code THEN code ELSE NoUser

\* Mutant: one's own code is as good as another's.
CanAttributeMutant(u, row, code) == row.referrer = NoUser /\ Inviter(code) # NoUser

\* attribute_referral: recorded once, and never oneself.
CanAttribute(u, row, code) == row.referrer = NoUser /\ Inviter(code) \notin {NoUser, u}

Attribute(u, row, code) ==
    IF CanAttribute(u, row, code) THEN [row EXCEPT !.referrer = Inviter(code)] ELSE row

\* try_grant: the global code, or the code of another user.
IsValid(u, row, code) == code = accessCode \/ CanAttribute(u, row, code)

Grant(u, row, code) ==
    [(IF code = accessCode THEN row ELSE Attribute(u, row, code)) EXCEPT !.granted = TRUE]

\* start: the referral of the link, then the dashboard with the user's own code;
\* nothing is written for a user without a row.
Start(u, row, code) ==
    IF row = NoUserRow THEN row ELSE [Attribute(u, row, code) EXCEPT !.code = TRUE]

-----------------------------------------------------------------------------
(* An update: /start (with a code or without), a text (taken for a code by  *)
(* the gate), or a button.                                                  *)

Offers == [kind : {"start"}, code : {NoCode} \cup GlobalCodes \cup Users]
          \cup [kind : {"text"}, code : GlobalCodes \cup Users]
          \cup {[kind |-> "button", code |-> NoCode]}

\* Mutant: a user in the cache is never looked up again.
NeedsSyncMutant(u) == cache[u].at = Never

NeedsSync(u) == cache[u].at = Never \/ gateNow - cache[u].at >= Sync

\* The user row and the cache once the update has been synchronised.  The cached
\* id is one of a row, unless the transaction that made the row was rolled back.
SyncedRow(u) == IF NeedsSync(u) THEN GetOrCreate(u) ELSE users[u]

Cached(row) == [at |-> gateNow, status |-> row.status, granted |-> row.granted, known |-> TRUE]

SyncedCache(u) == IF NeedsSync(u) THEN Cached(SyncedRow(u)) ELSE cache[u]

\* What was so at time t is no longer in any cache.
Past(t) == t = Never \/ gateNow - t >= Sync

\* A user, with that row, whom a block or the gate has locked out for Sync ticks.
LongLocked(u, row) ==
    \/ row.status = "blocked" /\ Past(blockedAt[u])
    \/ gate /\ ~row.granted /\ Past(gateOffAt) /\ Past(lost[u])

\* A handler sees the update of user u, whose row is then row.
Handled(u, offer, row) ==
    /\ users' = [users EXCEPT
                   ![u] = IF offer.kind = "start" THEN Start(u, row, offer.code) ELSE row]
    /\ pastLock' = IF LongLocked(u, row) THEN [pastLock EXCEPT ![u] = @ + 1] ELSE pastLock
    /\ pastLimit' = IF log' = log THEN [pastLimit EXCEPT ![u] = @ + 1] ELSE pastLimit

Stopped(u, row) ==
    /\ users' = [users EXCEPT ![u] = row]
    /\ UNCHANGED <<pastLock, pastLimit>>

\* preprocess ends as it should, or with an error that is logged.
Succeeds == UNCHANGED <<failed, lost>>
Fails(u) == failed[u] < MaxGateFaults /\ failed' = [failed EXCEPT ![u] = @ + 1]

OverLimit(u) ==
    /\ ~Allows(hits[u], MaxEvents, EventWindow)
    /\ hits' = [hits EXCEPT ![u] = InWindow(@, EventWindow)]
    /\ UNCHANGED <<gateNow, gateRestarts, gate, accessCode, cache, tries, blockedAt, gateOffAt,
                   log, guesses>>

\* preprocess stops the update at the rate limit, before anything is read.
Flood(u) == OverLimit(u) /\ Succeeds /\ Stopped(u, users[u])

\* The reply "too many requests" raises, before ApplicationHandlerStop is raised.
FloodFails(u, offer) == Fails(u) /\ OverLimit(u) /\ UNCHANGED lost /\ Handled(u, offer, users[u])

LetIn(u) ==
    /\ Allows(hits[u], MaxEvents, EventWindow)
    /\ hits' = [hits EXCEPT ![u] = Limited(@, MaxEvents, EventWindow)]
    /\ log' = [log EXCEPT ![u] = Append(@, gateNow)]
    /\ UNCHANGED <<gateNow, gateRestarts, gate, accessCode, blockedAt, gateOffAt>>

Uncoded == UNCHANGED <<tries, guesses>>

\* The database fails before anything is cached.
SyncFails(u, offer) ==
    /\ NeedsSync(u) /\ Fails(u) /\ LetIn(u) /\ Uncoded
    /\ Handled(u, offer, users[u])
    /\ UNCHANGED <<cache, lost>>

\* The commit fails, with the cache filled in: a new row is kept or is not.
SyncCommitFails(u, offer) ==
    /\ NeedsSync(u) /\ Fails(u) /\ LetIn(u) /\ Uncoded
    /\ \E row \in {users[u], GetOrCreate(u)} :
         /\ cache' = [cache EXCEPT ![u] = [Cached(GetOrCreate(u)) EXCEPT !.known = row # NoUserRow]]
         /\ lost' = IF row = NoUserRow THEN [lost EXCEPT ![u] = gateNow] ELSE lost
         /\ Handled(u, offer, row)

IsBlocked(u) ==
    /\ SyncedCache(u).status = "blocked" /\ LetIn(u) /\ Uncoded
    /\ cache' = [cache EXCEPT ![u] = SyncedCache(u)]

\* A suspended or banned user is told so and stopped.
Blocked(u) == IsBlocked(u) /\ Succeeds /\ Stopped(u, SyncedRow(u))

\* The reply raises first.
BlockedFails(u, offer) ==
    Fails(u) /\ IsBlocked(u) /\ UNCHANGED lost /\ Handled(u, offer, SyncedRow(u))

\* The cache already says that the user may pass.
PassCached(u, offer) ==
    /\ SyncedCache(u).status = "active" /\ SyncedCache(u).granted /\ LetIn(u) /\ Uncoded
    /\ cache' = [cache EXCEPT ![u] = SyncedCache(u)]
    /\ Succeeds /\ Handled(u, offer, SyncedRow(u))

AtGate(u) == SyncedCache(u).status = "active" /\ ~SyncedCache(u).granted /\ LetIn(u)

\* Mutant: the gate is not asked.
OpenMutant(u) == TRUE

\* The gate is off, or there is no row by the cached id ("never lock anyone
\* out"), or the user was granted access before.
Open(u) == ~gate \/ ~SyncedCache(u).known \/ SyncedRow(u).granted

\* _enforce_access_gate: an open gate is remembered until the next
\* synchronisation, a missing row is not.
PassGate(u, offer) ==
    /\ Open(u) /\ AtGate(u) /\ Uncoded
    /\ cache' = [cache EXCEPT
                   ![u] = [SyncedCache(u) EXCEPT !.granted = ~gate \/ SyncedCache(u).known]]
    /\ Succeeds /\ Handled(u, offer, SyncedRow(u))

AtPrompt(u, offer) ==
    /\ offer.code = NoCode /\ ~Open(u) /\ AtGate(u) /\ Uncoded
    /\ cache' = [cache EXCEPT ![u] = SyncedCache(u)]

\* No code: the prompt.
AskCode(u, offer) == AtPrompt(u, offer) /\ Succeeds /\ Stopped(u, SyncedRow(u))

\* The prompt raises, so that preprocess is not told to stop the update.
AskCodeFails(u, offer) ==
    Fails(u) /\ AtPrompt(u, offer) /\ UNCHANGED lost /\ Handled(u, offer, SyncedRow(u))

\* The database fails at the gate, before any code is looked at.
GateFails(u, offer) ==
    /\ Fails(u) /\ AtGate(u) /\ Uncoded
    /\ cache' = [cache EXCEPT ![u] = SyncedCache(u)]
    /\ UNCHANGED lost /\ Handled(u, offer, SyncedRow(u))

\* A code is offered, and counts as a try if there are any left.
OffersCode(u, offer) ==
    /\ offer.code # NoCode /\ ~Open(u) /\ AtGate(u)
    /\ tries' = [tries EXCEPT ![u] = Limited(@, MaxTries, TryWindow)]
    /\ IF Allows(tries[u], MaxTries, TryWindow)
       THEN guesses' = [guesses EXCEPT ![u] = Append(@, gateNow)]
       ELSE UNCHANGED guesses

Right(u, offer) ==
    Allows(tries[u], MaxTries, TryWindow) /\ IsValid(u, SyncedRow(u), offer.code)

\* The grant is cached before the reply and the commit.
CacheTry(u, offer) ==
    cache' = [cache EXCEPT ![u] = [SyncedCache(u) EXCEPT !.granted = Right(u, offer)]]

\* A link with a right code goes on to its handler; a right code that was typed
\* is answered, and so is a wrong one or one too many.
TryCode(u, offer) ==
    /\ OffersCode(u, offer) /\ CacheTry(u, offer) /\ Succeeds
    /\ LET granted == Grant(u, SyncedRow(u), offer.code)
       IN \/ Right(u, offer) /\ offer.kind = "start" /\ Handled(u, offer, granted)
          \/ Right(u, offer) /\ offer.kind = "text" /\ Stopped(u, granted)
          \/ ~Right(u, offer) /\ Stopped(u, SyncedRow(u))

\* The answer raises, or the commit does: a grant that is cached by then is
\* rolled back, or kept if only the answer to the commit is missing.
TryCodeFails(u, offer) ==
    /\ Fails(u) /\ OffersCode(u, offer) /\ CacheTry(u, offer)
    /\ \/ /\ lost' = IF Right(u, offer) THEN [lost EXCEPT ![u] = gateNow] ELSE lost
          /\ Handled(u, offer, SyncedRow(u))
       \/ /\ Right(u, offer) /\ UNCHANGED lost
          /\ Handled(u, offer, Grant(u, SyncedRow(u), offer.code))

Update(u) == \/ Flood(u) \/ Blocked(u)
             \/ \E offer \in Offers :
                  \/ PassCached(u, offer) \/ PassGate(u, offer)
                  \/ AskCode(u, offer) \/ TryCode(u, offer)
                  \/ AskCodeFails(u, offer) \/ TryCodeFails(u, offer) \/ BlockedFails(u, offer)
                  \/ FloodFails(u, offer) \/ GateFails(u, offer)
                  \/ SyncFails(u, offer) \/ SyncCommitFails(u, offer)

-----------------------------------------------------------------------------
(* The Mini App and the dashboard.                                          *)

\* current_user: the row is read, or created, on every request.
OpenMiniApp(u) ==
    /\ users[u].status # "blocked"
    /\ users' = [users EXCEPT ![u] = GetOrCreate(u)]
    /\ UNCHANGED <<gateNow, gateRestarts, gate, accessCode, cache, hits, tries, blockedAt,
                   gateOffAt, log, guesses, failed, lost, pastLock, pastLimit>>

SetUserStatus(u, status) ==
    /\ users[u] # NoUserRow /\ users[u].status # status
    /\ users' = [users EXCEPT ![u].status = status]
    /\ blockedAt' = [blockedAt EXCEPT ![u] = IF status = "blocked" THEN gateNow ELSE Never]
    /\ UNCHANGED <<gateNow, gateRestarts, gate, accessCode, cache, hits, tries, gateOffAt,
                   log, guesses, failed, lost, pastLock, pastLimit>>

\* An empty code stands for the default one, which is one of GlobalCodes.
SetAccessSettings(code, enabled) ==
    /\ <<accessCode, gate>> # <<code, enabled>>
    /\ accessCode' = code /\ gate' = enabled
    /\ gateOffAt' = IF gate THEN gateOffAt ELSE gateNow
    /\ UNCHANGED <<gateNow, gateRestarts, users, cache, hits, tries, blockedAt,
                   log, guesses, failed, lost, pastLock, pastLimit>>

GateTick ==
    /\ gateNow < MaxGateClock /\ gateNow' = gateNow + 1
    /\ gateOffAt' = IF gate THEN gateOffAt ELSE gateNow + 1
    /\ UNCHANGED <<gateRestarts, gate, accessCode, users, cache, hits, tries, blockedAt,
                   log, guesses, failed, lost, pastLock, pastLimit>>

\* The bot process starts again: its memory is gone.
GateRestart ==
    /\ gateRestarts < MaxGateRestarts /\ gateRestarts' = gateRestarts + 1
    /\ cache' = [u \in Users |-> NotCached]
    /\ hits' = [u \in Users |-> <<>>] /\ tries' = [u \in Users |-> <<>>]
    /\ log' = [u \in Users |-> <<>>] /\ guesses' = [u \in Users |-> <<>>]
    /\ UNCHANGED <<gateNow, gate, accessCode, users, blockedAt, gateOffAt,
                   failed, lost, pastLock, pastLimit>>

AccessNext ==
    \/ \E u \in Actors : \/ Update(u) \/ OpenMiniApp(u)
                         \/ \E status \in {"active", "blocked"} : SetUserStatus(u, status)
    \/ \E code \in GlobalCodes, enabled \in BOOLEAN : SetAccessSettings(code, enabled)
    \/ GateTick \/ GateRestart

AccessSpec == AccessInit /\ [][AccessNext]_accessVars

-----------------------------------------------------------------------------
Statuses == {"none", "active", "blocked"}
UserRows == [status : Statuses, granted : BOOLEAN, code : BOOLEAN, referrer : Users \cup {NoUser}]
CachedStates == [at : Int, status : Statuses, granted : BOOLEAN, known : BOOLEAN]

AccessTypes ==
    /\ gateNow \in 0 .. MaxGateClock /\ gateRestarts \in 0 .. MaxGateRestarts
    /\ gate \in BOOLEAN /\ accessCode \in GlobalCodes
    /\ users \in [Users -> UserRows] /\ cache \in [Users -> CachedStates]
    /\ {hits, tries, log, guesses} \subseteq [Users -> Seq(Nat)]
    /\ {blockedAt, lost} \subseteq [Users -> {Never} \cup 0 .. gateNow]
    /\ gateOffAt \in {Never} \cup 0 .. gateNow
    /\ {failed, pastLock, pastLimit} \subseteq [Users -> Nat]

\* No user is their own inviter, and inviters have codes.
RowsInv ==
    \A u \in Users :
        /\ users[u].status = "none" => users[u] = NoUserRow
        /\ users[u].referrer # u
        /\ users[u].referrer # NoUser => users[users[u].referrer].code

\* What the cache says of a user was so when it was filled, or was rolled back
\* then: where the row or the gate says otherwise by now, they changed since.
CachedInv ==
    \A u \in Users :
        /\ cache[u].at \in {Never} \cup 0 .. gateNow
        /\ cache[u].at # Never =>
             /\ IF cache[u].known THEN users[u] # NoUserRow ELSE lost[u] >= cache[u].at
             /\ cache[u].status = "active" /\ users[u].status = "blocked" =>
                   blockedAt[u] >= cache[u].at
             /\ cache[u].granted /\ ~users[u].granted /\ gate =>
                   gateOffAt >= cache[u].at \/ lost[u] >= cache[u].at

\* A limiter remembers the last events it let through, and has forgotten only
\* those the window has passed; the events l are in the order of time.
Remembers(q, l, window) ==
    /\ Len(q) <= Len(l)
    /\ \A i \in 1 .. Len(q) : q[i] = l[Len(l) - Len(q) + i]
    /\ \A i \in 1 .. Len(l) - Len(q) : l[i] < gateNow - window
    /\ \A i \in 1 .. Len(l) : l[i] <= gateNow
    /\ \A i, j \in 1 .. Len(l) : i < j => l[i] <= l[j]

LimitersInv ==
    \A u \in Users :
        /\ Remembers(hits[u], log[u], EventWindow)
        /\ Remembers(tries[u], guesses[u], TryWindow)

\* middleware.py:59-62 and access_gate.py: a block, and a gate that is switched
\* on, are in force for every update at the latest Sync ticks later; until then
\* the cached status or grant may still let an update through, and so may, for
\* as long, a cached grant or id that was rolled back.  An update gets past them
\* after that only where preprocess fails for this very update: one that failed
\* before opens the gate for none of those that follow.
LocksTakeEffect == \A u \in Users : pastLock[u] <= failed[u]

\* Any max + 1 consecutive events span more than the window.
Spread(l, max, window) == \A i \in 1 .. Len(l) - max : l[i + max] - l[i] > window

\* ratelimit.py:27-34: whatever the gaps between its events, no more than the
\* limit of one user's updates, and of one user's codes, are let through in any
\* window of a process's life, its two ends included; and of the updates that
\* are refused, handlers see at most those whose refusal could not be sent.
FloodsAreBounded ==
    \A u \in Users :
        /\ Spread(log[u], MaxEvents, EventWindow)
        /\ Spread(guesses[u], MaxTries, TryWindow)
        /\ pastLimit[u] <= failed[u]

\* The inductive invariant.
AccessInv ==
    /\ AccessTypes /\ RowsInv /\ CachedInv /\ LimitersInv
    /\ LocksTakeEffect /\ FloodsAreBounded
=============================================================================
