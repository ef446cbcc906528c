----------------------------- MODULE Dashboard -----------------------------
(***************************************************************************)
(* Who may do what in the admin dashboard (dashboard/auth.py, deps.py, the *)
(* POST routes of dashboard/routers): a signed cookie holds the admin and  *)
(* a token that every form repeats; a route checks the role, then the      *)
(* token, then its input, writes, and writes an audit row in the same      *)
(* transaction, which get_db commits.  The first administrator comes from  *)
(* the environment, inserted by whichever process starts first.            *)
(* What the routes write is modelled with the component that reads it.     *)
(* Requests of one browser come one after the other.                       *)
(***************************************************************************)
EXTENDS Integers, FiniteSets

CONSTANTS
    Browsers, Admins, Supers, First,    \* the administrators, those above them, the bootstrap one
    Nobody,
    Processes,      \* that bootstrap: the dashboard, python -m db.bootstrap
    Tries, Window,  \* the login limit: events in a window
    MaxForms, MaxPosts, MaxClock, MaxDashRestarts   \* bounds

ASSUME DashboardAssumption ==
    /\ Supers \subseteq Admins /\ First \in Supers /\ Nobody \notin Admins
    /\ {Tries, Window, MaxForms, MaxPosts, MaxClock, MaxDashRestarts} \subseteq Nat

VARIABLES
    admins,         \* the rows, one for each insert
    boot,           \* what each process found
    session,        \* cookies: the admin, the token (0: none)
    tokens,         \* how many were made
    forms,          \* pages open: the browser, the token in the form, and how often it had logged out
    logouts,
    logins,       \* the limiter: times of the attempts that were let through
    clock,
    written, audited,   \* rows committed by audited routes; audit rows
    late,           \* history: a form was accepted that is older than a logout
    posts, restarts

dbVars == <<admins, written, audited>>
dashVars == <<dbVars, boot, session, tokens, forms, logouts, logins, clock, late, posts, restarts>>

Out == [admin |-> Nobody, csrf |-> 0]

\* Routes: the role each asks for, and whether it leaves an audit row.
Routes == [status |-> [super |-> FALSE, audit |-> TRUE],
           curate |-> [super |-> FALSE, audit |-> FALSE],
           settings |-> [super |-> TRUE, audit |-> TRUE]]

DashInit ==
    /\ admins \in {<<>>, [a \in Admins |-> 1]} /\ boot = [p \in Processes |-> "start"]
    /\ session = [b \in Browsers |-> Out] /\ tokens = 0 /\ forms = {}
    /\ logouts = [b \in Browsers |-> 0]
    /\ logins = {} /\ clock = 0
    /\ written = 0 /\ audited = 0 /\ late = FALSE /\ posts = 0 /\ restarts = 0

-----------------------------------------------------------------------------
(* bootstrap_admin                                                          *)

BootRead(p) ==
    /\ boot[p] = "start"
    /\ boot' = [boot EXCEPT ![p] = IF admins = <<>> THEN "empty" ELSE "done"]
    /\ UNCHANGED <<dbVars, session, tokens, forms, logouts, logins, clock, late, posts, restarts>>

\* Mutant: names are not unique.
NameFreeMutant(a) == TRUE

\* admins.username is unique: the second insert fails, and is only logged.
NameFree(a) == a \notin DOMAIN admins

BootInsert(p) ==
    /\ boot[p] = "empty" /\ boot' = [boot EXCEPT ![p] = "done"]
    /\ admins' = IF NameFree(First)
                 THEN [a \in DOMAIN admins \cup {First} |->
                          IF a = First THEN 1 + (IF a \in DOMAIN admins THEN admins[a] ELSE 0) ELSE admins[a]]
                 ELSE admins
    /\ UNCHANGED <<written, audited, session, tokens, forms, logouts, logins, clock, late, posts, restarts>>

-----------------------------------------------------------------------------
(* Pages and forms.                                                         *)

Role(b) == session[b].admin \in DOMAIN admins

\* deps.render: the token of the session is made by the first page, logged in or
\* not, and repeated in every form of every page.
Page(b) ==
    LET new == IF session[b].csrf = 0 THEN tokens + 1 ELSE session[b].csrf IN
    /\ Cardinality(forms) < MaxForms
    /\ session' = [session EXCEPT ![b].csrf = new]
    /\ tokens' = IF new > tokens THEN new ELSE tokens
    /\ forms' = forms \cup {[browser |-> b, csrf |-> new, gen |-> logouts[b]]}
    /\ UNCHANGED <<dbVars, boot, logouts, logins, clock, late, posts, restarts>>

\* verify_csrf
Verified(b, f) == f.browser = b /\ session[b].csrf # 0 /\ f.csrf = session[b].csrf

Posted(b, f) ==
    /\ f \in forms /\ posts < MaxPosts /\ posts' = posts + 1
    /\ Verified(b, f)
    /\ late' = (late \/ f.gen < logouts[b])

Recent == {t \in logins : t[1] >= clock - Window}

\* login_submit.  Past the limit nothing is looked up; else the password is right
\* or not.  Either way an audit row, which is not that of a written one, is left.
Login(b, f) ==
    /\ Posted(b, f)
    /\ IF Cardinality(Recent) >= Tries THEN logins' = Recent /\ UNCHANGED session
       ELSE /\ logins' = Recent \cup {<<clock, posts>>}
            /\ \E a \in DOMAIN admins \cup {Nobody} :
                  session' = IF a = Nobody THEN session ELSE [session EXCEPT ![b].admin = a]
    /\ UNCHANGED <<dbVars, boot, tokens, forms, logouts, clock, restarts>>

\* Mutant: only the administrator is forgotten.
ClearedMutant(s) == [s EXCEPT !.admin = Nobody]

\* session.clear
Cleared(s) == Out

Logout(b) ==
    /\ session' = [session EXCEPT ![b] = Cleared(@)]
    /\ logouts' = [logouts EXCEPT ![b] = @ + 1] /\ logouts[b] < MaxForms
    /\ UNCHANGED <<dbVars, boot, tokens, forms, logins, clock, late, posts, restarts>>

\* Mutant: the audit row has a transaction of its own.
AuditCommitsMutant(commits) == TRUE

\* audit.record adds to the session of the route: "Caller commits."
AuditCommits(commits) == commits

\* A route that changes state: role, token, input; then get_db commits, or the
\* commit fails and all is rolled back.
Route(b, f, r, commits) ==
    /\ Role(b) /\ (Routes[r].super => session[b].admin \in Supers)
    /\ Posted(b, f)
    /\ written' = written + (IF commits /\ Routes[r].audit THEN 1 ELSE 0)
    /\ audited' = audited + (IF AuditCommits(commits) /\ Routes[r].audit THEN 1 ELSE 0)
    /\ UNCHANGED <<admins, boot, session, tokens, forms, logouts, logins, clock, restarts>>

DashTick ==
    /\ clock < MaxClock /\ clock' = clock + 1
    /\ UNCHANGED <<dbVars, boot, session, tokens, forms, logouts, logins, late, posts, restarts>>

\* Without SESSION_SECRET the key of the cookies is new, and every session is out.
RestartDashboard(keyed) ==
    /\ restarts < MaxDashRestarts /\ restarts' = restarts + 1
    /\ logins' = {}
    /\ IF keyed THEN UNCHANGED <<session, logouts>>
       ELSE session' = [b \in Browsers |-> Out] /\ logouts' = [b \in Browsers |-> logouts[b] + 1]
    /\ UNCHANGED <<dbVars, boot, tokens, forms, clock, late, posts>>

DashNext ==
    \/ \E p \in Processes : BootRead(p) \/ BootInsert(p)
    \/ \E b \in Browsers : Page(b) \/ Logout(b)
    \/ \E b \in Browsers, f \in forms :
          Login(b, f) \/ \E r \in DOMAIN Routes, commits \in BOOLEAN : Route(b, f, r, commits)
    \/ DashTick \/ \E keyed \in BOOLEAN : RestartDashboard(keyed)

DashSpec == DashInit /\ [][DashNext]_dashVars

-----------------------------------------------------------------------------

\* A form with the token that its browser still has is not older than a logout:
\* a token is made once, and a logout forgets it.
FormsAreYoung ==
    \A f \in forms : session[f.browser].csrf = f.csrf => f.gen = logouts[f.browser]

\* The types, cookies naming administrators there are; the age of forms; one
\* first administrator however many processes found none; no window has more
\* attempts than the limit; and an audited write is never without its audit
\* row, nor an audit row without its write, whatever commit fails.
DashInv ==
    /\ session \in [Browsers -> [admin : DOMAIN admins \cup {Nobody}, csrf : 0 .. tokens]]
    /\ forms \subseteq [browser : Browsers, csrf : 1 .. tokens, gen : Nat]
    /\ logouts \in [Browsers -> Nat] /\ logins \subseteq Nat \X Nat /\ IsFiniteSet(logins)
    /\ {tokens, clock, posts, written} \subseteq Nat
    /\ FormsAreYoung
    /\ \A a \in DOMAIN admins : admins[a] = 1
    /\ Cardinality(Recent) <= Tries
    /\ written = audited

\* No form of a page from before a logout is accepted after it, even when the
\* same browser is logged in again.
OldFormsAreDead == ~late
=============================================================================
