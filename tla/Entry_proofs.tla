---------------------------- MODULE Entry_proofs ----------------------------
(***************************************************************************)
(* Who gets in: the sessions, forms and audited writes of the dashboard    *)
(* (Dashboard), for any browsers, administrators and limits, and the rate  *)
(* limits, blocks and gate before every update of the bot (Access), for    *)
(* any users, codes, limits and intervals.  And what the dashboard makes   *)
(* the bot spend: the budgets of generated texts and images (CardImages),  *)
(* for any cards, costs, budgets and numbers of attempts.                  *)
(***************************************************************************)
EXTENDS Dashboard, Access, CardImages, FiniteSetTheorems, WellFoundedInduction, TLAPS

\* A part of a set that is no larger than n is no larger than n.
LEMMA PartIsNoLarger ==
  ASSUME NEW S, IsFiniteSet(S), NEW R \in SUBSET S, NEW n \in Nat, Cardinality(S) <= n
  PROVE  IsFiniteSet(R) /\ Cardinality(R) <= n
  BY FS_Subset, FS_CardinalityType

\* Attempts in the window are attempts, of which there are finitely many.
LEMMA RecentIsFinite ==
  ASSUME DashInv
  PROVE  Recent \subseteq logins /\ IsFiniteSet(Recent) /\ Cardinality(Recent) \in Nat
  BY FS_Subset, FS_CardinalityType DEF DashInv, Recent

LEMMA InitDash == DashInit => DashInv
<1> SUFFICES ASSUME DashInit PROVE DashInv
    OBVIOUS
<1>1. logins = {} /\ IsFiniteSet(logins) /\ Recent = {} /\ Cardinality(Recent) = 0
      BY FS_EmptySet DEF DashInit, Recent
<1>2. \A a \in DOMAIN admins : admins[a] = 1
      BY DEF DashInit
<1>3. QED
      BY <1>1, <1>2, DashboardAssumption DEF DashInit, DashInv, Out, FormsAreYoung

\* The part of the invariant that the login limit needs, kept by every step.
LimitInv ==
    /\ logins \subseteq Nat \X Nat /\ IsFiniteSet(logins) /\ Cardinality(Recent) <= Tries

\* A step that keeps the attempts and does not turn back the clock keeps the limit.
LEMMA LimitElsewhere ==
  ASSUME DashInv, UNCHANGED logins, clock' \in {clock, clock + 1}
  PROVE  LimitInv'
<1>1. Recent' \subseteq Recent
      BY DashboardAssumption DEF DashInv, Recent
<1>2. Cardinality(Recent') <= Tries
      BY <1>1, RecentIsFinite, PartIsNoLarger, DashboardAssumption DEF DashInv
<1>3. QED BY <1>2 DEF DashInv, LimitInv

LEMMA LimitLogin ==
  ASSUME DashInv, NEW b \in Browsers, NEW f \in forms, Login(b, f)
  PROVE  LimitInv'
<1> USE DashboardAssumption
<1>0. UNCHANGED clock /\ clock \in Nat /\ posts \in Nat /\ Tries \in Nat
      BY DEF Login, DashInv
<1>1. CASE Cardinality(Recent) >= Tries
  <2>1. logins' = Recent
        BY <1>1 DEF Login
  <2>2. Recent' = Recent
        BY <1>0, <2>1 DEF Recent
  <2>3. QED BY <2>1, <2>2, RecentIsFinite DEF DashInv, LimitInv
<1>2. CASE ~(Cardinality(Recent) >= Tries)
  <2> DEFINE now == <<clock, posts>>
  <2>1. logins' = Recent \cup {now}
        BY <1>2 DEF Login
  <2>2. /\ IsFiniteSet(Recent \cup {now})
        /\ Cardinality(Recent \cup {now}) <= Tries
    <3>1. IsFiniteSet(Recent) /\ Cardinality(Recent) \in Nat
          BY RecentIsFinite
    <3>2. IsFiniteSet(Recent \cup {now})
          BY <3>1, FS_AddElement
    <3>3. Cardinality(Recent \cup {now}) \in {Cardinality(Recent), Cardinality(Recent) + 1}
          BY <3>1, FS_AddElement
    <3>4. Cardinality(Recent) + 1 <= Tries
          BY <1>0, <1>2, <3>1
    <3>5. QED BY <1>0, <3>1, <3>2, <3>3, <3>4
  <2>3. Recent' \subseteq Recent \cup {now}
        BY <2>1 DEF Recent
  <2>4. Cardinality(Recent') <= Tries
        BY <1>0, <2>2, <2>3, PartIsNoLarger
  <2>5. logins' \subseteq Nat \X Nat
        BY <1>0, <2>1, RecentIsFinite DEF DashInv
  <2>6. QED BY <2>1, <2>2, <2>4, <2>5 DEF LimitInv
<1>3. QED BY <1>1, <1>2

LEMMA LimitStep == DashInv /\ [DashNext]_dashVars => LimitInv'
<1> SUFFICES ASSUME DashInv, [DashNext]_dashVars PROVE LimitInv'
    OBVIOUS
<1>1. CASE UNCHANGED <<logins, clock>>
      BY <1>1, LimitElsewhere
<1>2. ASSUME NEW b \in Browsers, NEW f \in forms, Login(b, f) PROVE LimitInv'
      BY <1>2, LimitLogin
<1>3. CASE DashTick
      BY <1>3, LimitElsewhere DEF DashTick
<1>4. ASSUME NEW keyed \in BOOLEAN, RestartDashboard(keyed) PROVE LimitInv'
  <2>1. logins' = {} /\ Recent' = {}
        BY <1>4 DEF RestartDashboard, Recent
  <2>2. QED BY <2>1, FS_EmptySet, DashboardAssumption DEF LimitInv
<1>5. QED
      BY <1>1, <1>2, <1>3, <1>4
      DEF DashNext, dashVars, dbVars, BootRead, BootInsert, Page, Logout, Route

\* Every step keeps the invariant.
LEMMA DashStep == DashInv /\ [DashNext]_dashVars => DashInv'
<1> SUFFICES ASSUME DashInv, [DashNext]_dashVars PROVE DashInv'
    OBVIOUS
<1>0. LimitInv'
      BY LimitStep
<1>1. CASE UNCHANGED dashVars
      BY <1>0, <1>1 DEF dashVars, dbVars, DashInv, LimitInv, FormsAreYoung
<1>2. ASSUME NEW p \in Processes, BootRead(p) PROVE DashInv'
      BY <1>0, <1>2 DEF BootRead, dbVars, DashInv, LimitInv, FormsAreYoung
<1>3. ASSUME NEW p \in Processes, BootInsert(p) PROVE DashInv'
  <2>1. DOMAIN admins \subseteq DOMAIN admins' /\ \A a \in DOMAIN admins' : admins'[a] = 1
        BY <1>3 DEF BootInsert, NameFree, DashInv
  <2>2. session' \in [Browsers -> [admin : DOMAIN admins' \cup {Nobody}, csrf : 0 .. tokens']]
        BY <1>3, <2>1 DEF BootInsert, DashInv
  <2>3. QED BY <1>0, <1>3, <2>1, <2>2 DEF BootInsert, DashInv, LimitInv, FormsAreYoung
<1>4. ASSUME NEW b \in Browsers, Page(b) PROVE DashInv'
  <2> DEFINE new == IF session[b].csrf = 0 THEN tokens + 1 ELSE session[b].csrf
  <2>1. /\ tokens \in Nat /\ tokens' \in Nat /\ tokens <= tokens' /\ new \in 1 .. tokens'
        /\ session' = [session EXCEPT ![b].csrf = new]
        /\ forms' = forms \cup {[browser |-> b, csrf |-> new, gen |-> logouts[b]]}
        BY <1>4 DEF Page, DashInv
  <2>2. session' \in [Browsers -> [admin : DOMAIN admins' \cup {Nobody}, csrf : 0 .. tokens']]
        BY <1>4, <2>1 DEF Page, dbVars, DashInv
  <2>3. forms' \subseteq [browser : Browsers, csrf : 1 .. tokens', gen : Nat]
        BY <2>1 DEF DashInv
  <2>4. ASSUME NEW f \in forms', session'[f.browser].csrf = f.csrf PROVE f.gen = logouts[f.browser]
    <3>1. CASE f \in forms /\ f.browser = b
      <4>1. session'[b].csrf = new
            BY <2>1 DEF DashInv
      <4>2. f.csrf \in 1 .. tokens
            BY <3>1 DEF DashInv
      <4>3. session[b].csrf = f.csrf
            BY <2>4, <3>1, <4>1, <4>2, <2>1
      <4>4. QED BY <3>1, <4>3 DEF DashInv, FormsAreYoung
    <3>2. CASE f \in forms /\ f.browser # b
      <4>1. session'[f.browser] = session[f.browser]
            BY <2>1, <3>2 DEF DashInv
      <4>2. QED BY <2>4, <3>2, <4>1 DEF DashInv, FormsAreYoung
    <3>3. CASE f \notin forms
          BY <2>1, <3>3
    <3>4. QED BY <3>1, <3>2, <3>3
  <2>5. QED BY <1>0, <1>4, <2>1, <2>2, <2>3, <2>4 DEF Page, dbVars, DashInv, LimitInv, FormsAreYoung
<1>5. ASSUME NEW b \in Browsers, Logout(b) PROVE DashInv'
  <2>1. session' \in [Browsers -> [admin : DOMAIN admins' \cup {Nobody}, csrf : 0 .. tokens']]
        BY <1>5 DEF Logout, dbVars, Cleared, Out, DashInv
  <2>2. FormsAreYoung'
        BY <1>5 DEF Logout, Cleared, Out, DashInv, FormsAreYoung
  <2>3. QED BY <1>0, <1>5, <2>1, <2>2 DEF Logout, dbVars, DashInv, LimitInv
<1>6. ASSUME NEW b \in Browsers, NEW f \in forms, Login(b, f) PROVE DashInv'
  <2>1. /\ session' \in [Browsers -> [admin : DOMAIN admins \cup {Nobody}, csrf : 0 .. tokens]]
        /\ \A c \in Browsers : session'[c].csrf = session[c].csrf
        BY <1>6 DEF Login, DashInv
  <2>2. posts' \in Nat
        BY <1>6 DEF Login, Posted, DashInv
  <2>3. QED BY <1>0, <1>6, <2>1, <2>2 DEF Login, dbVars, DashInv, LimitInv, FormsAreYoung
<1>7. ASSUME NEW b \in Browsers, NEW f \in forms, NEW r \in DOMAIN Routes, NEW commits \in BOOLEAN,
             Route(b, f, r, commits)
      PROVE  DashInv'
      BY <1>0, <1>7 DEF Route, Posted, AuditCommits, DashInv, LimitInv, FormsAreYoung
<1>8. CASE DashTick
      BY <1>0, <1>8 DEF DashTick, dbVars, DashInv, LimitInv, FormsAreYoung
<1>9. ASSUME NEW keyed \in BOOLEAN, RestartDashboard(keyed) PROVE DashInv'
  <2>1. \/ UNCHANGED <<session, logouts>>
        \/ session' = [b \in Browsers |-> Out] /\ logouts' = [b \in Browsers |-> logouts[b] + 1]
        BY <1>9 DEF RestartDashboard
  <2>2. /\ session' \in [Browsers -> [admin : DOMAIN admins \cup {Nobody}, csrf : 0 .. tokens]]
        /\ logouts' \in [Browsers -> Nat]
        BY <2>1 DEF Out, DashInv
  <2>3. FormsAreYoung'
        BY <1>9, <2>1 DEF RestartDashboard, Out, DashInv, FormsAreYoung
  <2>4. QED BY <1>0, <1>9, <2>2, <2>3 DEF RestartDashboard, dbVars, DashInv, LimitInv
<1>10. QED BY <1>1, <1>2, <1>3, <1>4, <1>5, <1>6, <1>7, <1>8, <1>9 DEF DashNext

\* The login limit, the one first administrator, and that a write and its audit
\* row are committed together.
THEOREM DashInvariant == DashSpec => []DashInv
  BY InitDash, DashStep, PTL DEF DashSpec

\* A form shown before a logout is refused after it, whoever is logged in then.
THEOREM LogoutsKillForms == DashSpec => []OldFormsAreDead
<1>1. DashInit => OldFormsAreDead
      BY DEF DashInit, OldFormsAreDead
<1>2. DashInv /\ OldFormsAreDead /\ [DashNext]_dashVars => OldFormsAreDead'
  <2> SUFFICES ASSUME DashInv, OldFormsAreDead, [DashNext]_dashVars PROVE ~late'
      BY DEF OldFormsAreDead
  <2>1. ASSUME NEW b \in Browsers, NEW f \in forms, Posted(b, f) PROVE ~late'
    <3>1. f \in forms /\ f.browser = b /\ session[f.browser].csrf = f.csrf
          BY <2>1 DEF Posted, Verified
    <3>2. f.gen = logouts[b]
          BY <3>1 DEF DashInv, FormsAreYoung
    <3>3. ~(f.gen < logouts[b])
          BY <3>2 DEF DashInv
    <3>4. QED BY <2>1, <3>3 DEF Posted, OldFormsAreDead
  <2>2. QED
        BY <2>1
        DEF DashNext, dashVars, OldFormsAreDead, BootRead, BootInsert, Page, Logout, Login, Route, DashTick,
            RestartDashboard
<1>3. QED BY <1>1, <1>2, DashInvariant, PTL DEF DashSpec

-----------------------------------------------------------------------------
(* The limiter of Access.                                                  *)

\* A set of numbers up to a bound has a least one: finite sets are well founded
\* under inclusion, and so are the initial intervals.
LEMMA LeastExists ==
    ASSUME NEW N \in Nat, NEW T \in SUBSET (0 .. N), T # {}
    PROVE  \E x \in T : \A y \in T : x <= y
<1> DEFINE U == {0 .. m : m \in T}
           R == StrictSubsetOrdering(0 .. N)
           F == FiniteSubsetsOf(0 .. N)
<1>1. IsWellFoundedOn(R, F)
  BY FS_StrictSubsetOrderingWellFounded
<1>2. U \subseteq F /\ U # {}
  <2>1. ASSUME NEW m \in T  PROVE 0 .. m \in F
    <3>1. m \in Int /\ 0 .. m \subseteq 0 .. N
      OBVIOUS
    <3>2. IsFiniteSet(0 .. m)
      BY <3>1, FS_Interval
    <3> QED
      BY <3>1, <3>2 DEF FiniteSubsetsOf
  <2> QED
    BY <2>1
<1>3. PICK x \in U : \A y \in U : ~ (<<y, x>> \in R)
  <2> HIDE DEF U, R, F
  <2> QED
    BY <1>1, <1>2, WFMin
<1>4. PICK m \in T : x = 0 .. m
  OBVIOUS
<1>5. ASSUME NEW y \in T  PROVE m <= y
  <2> SUFFICES ASSUME y < m PROVE FALSE
    OBVIOUS
  <2>1. 0 .. y \subseteq 0 .. m /\ 0 .. y # 0 .. m /\ 0 .. m \subseteq 0 .. N
    OBVIOUS
  <2>2. <<0 .. y, 0 .. m>> \in R
    BY <2>1 DEF StrictSubsetOrdering
  <2> QED
    BY <2>2, <1>3, <1>4
<1> QED
  BY <1>5

\* What the loop of the limiter drops: a first part of the queue, every event of
\* it too old, up to the first one that is not.
LEMMA ExpiredIsPrefix ==
    ASSUME NEW q \in Seq(Nat), NEW window \in Nat, gateNow \in Nat
    PROVE  /\ Expired(q, window) \in 0 .. Len(q)
           /\ \A i \in 1 .. Expired(q, window) : q[i] < gateNow - window
<1> DEFINE S == {m \in 0 .. Len(q) : m < Len(q) => q[m + 1] >= gateNow - window}
<1>1. Len(q) \in S /\ S \subseteq 0 .. Len(q) /\ Len(q) \in Nat
  OBVIOUS
<1>2. PICK n \in S : \A y \in S : n <= y
  <2> HIDE DEF S
  <2> QED
    BY <1>1, LeastExists
<1>3. ASSUME NEW i \in 1 .. n  PROVE q[i] < gateNow - window
  <2>1. i - 1 \in 0 .. Len(q) /\ i - 1 < Len(q) /\ i - 1 + 1 = i /\ i - 1 < n
    BY <1>2
  <2>2. q[i] \in Nat
    BY <1>2
  <2>3. i - 1 \notin S
    BY <1>2, <2>1
  <2> QED
    BY <2>1, <2>2, <2>3
<1>4. n \in 0 .. Len(q) /\ (n < Len(q) => q[n + 1] >= gateNow - window)
  BY <1>2
<1> QED
  BY <1>3, <1>4 DEF Expired

\* Dropping what the window has passed forgets nothing that counts.
LEMMA WindowRemembers ==
    ASSUME NEW q \in Seq(Nat), NEW l \in Seq(Nat), NEW window \in Nat, gateNow \in Nat,
           Remembers(q, l, window)
    PROVE  InWindow(q, window) \in Seq(Nat) /\ Remembers(InWindow(q, window), l, window)
<1> DEFINE n == Expired(q, window)
           r == InWindow(q, window)
           d == Len(l) - Len(q)
<1>1. n \in 0 .. Len(q) /\ \A i \in 1 .. n : q[i] < gateNow - window
  BY ExpiredIsPrefix
<1>2. Len(q) \in Nat /\ Len(l) \in Nat /\ d \in Nat
  BY DEF Remembers
<1> HIDE DEF n
<1>3. r = SubSeq(q, n + 1, Len(q))
  BY DEF n, InWindow
<1>4. r \in Seq(Nat) /\ Len(r) = Len(q) - n /\ \A i \in 1 .. Len(r) : r[i] = q[n + i]
  <2>1. n + 1 \in 1 .. Len(q) + 1 /\ n \in Nat
    BY <1>1, <1>2
  <2>2. \A i \in n + 1 .. Len(q) : q[i] \in Nat
    BY <2>1
  <2>3. SubSeq(q, n + 1, Len(q)) \in Seq(Nat)
    BY <2>1, <2>2
  <2>4. Len(SubSeq(q, n + 1, Len(q))) = Len(q) - n
    BY <2>1, <1>2
  <2>5. \A i \in 1 .. Len(q) - n : SubSeq(q, n + 1, Len(q))[i] = q[n + i]
    <3> SUFFICES ASSUME NEW i \in 1 .. Len(q) - n
                 PROVE  SubSeq(q, n + 1, Len(q))[i] = q[n + i]
      OBVIOUS
    <3>1. SubSeq(q, n + 1, Len(q))[i] = q[(n + 1) + i - 1]
      BY <2>1, <1>2
    <3>2. (n + 1) + i - 1 = n + i
      BY <2>1
    <3> QED
      BY <3>1, <3>2
  <2> QED
    BY <2>3, <2>4, <2>5, <1>3
<1> HIDE DEF r
<1>5. Len(l) - Len(r) = d + n
  BY <1>1, <1>2, <1>4
<1>6. ASSUME NEW i \in 1 .. Len(r)  PROVE r[i] = l[Len(l) - Len(r) + i]
  <2>1. n + i \in 1 .. Len(q) /\ d + (n + i) = Len(l) - Len(r) + i
    BY <1>1, <1>2, <1>4, <1>5
  <2>2. q[n + i] = l[d + (n + i)]
    BY <2>1 DEF Remembers
  <2> QED
    BY <2>1, <2>2, <1>4
<1>7. ASSUME NEW i \in 1 .. Len(l) - Len(r)  PROVE l[i] < gateNow - window
  <2>1. CASE i <= d
    <3>1. i \in 1 .. Len(l) - Len(q)
      BY <2>1, <1>2, <1>5, <1>1
    <3> QED
      BY <3>1 DEF Remembers
  <2>2. CASE i > d
    <3>1. i - d \in 1 .. n /\ i - d \in 1 .. Len(q) /\ d + (i - d) = i
      BY <2>2, <1>1, <1>2, <1>5, SMTT(30)
    <3>2. q[i - d] = l[d + (i - d)]
      BY <3>1 DEF Remembers
    <3> QED
      BY <3>1, <3>2, <1>1
  <2> QED
    BY <2>1, <2>2, <1>2, <1>5, <1>1
<1>8. Len(r) <= Len(l)
  BY <1>1, <1>2, <1>4
<1> QED
  BY <1>4, <1>6, <1>7, <1>8 DEF r, Remembers

\* An event that is let through is remembered, and lies more than the window
\* after the one max places before it.
LEMMA LetThrough ==
    ASSUME NEW q \in Seq(Nat), NEW l \in Seq(Nat), NEW max \in Nat \ {0}, NEW window \in Nat,
           gateNow \in Nat, Remembers(q, l, window), Spread(l, max, window),
           Allows(q, max, window)
    PROVE  /\ Limited(q, max, window) \in Seq(Nat)
           /\ Append(l, gateNow) \in Seq(Nat)
           /\ Remembers(Limited(q, max, window), Append(l, gateNow), window)
           /\ Spread(Append(l, gateNow), max, window)
<1> DEFINE r == InWindow(q, window)
           p == Append(r, gateNow)
           m == Append(l, gateNow)
<1>1. r \in Seq(Nat) /\ Remembers(r, l, window) /\ Len(r) < max
  BY WindowRemembers DEF Allows
<1>2. Limited(q, max, window) = p
  BY DEF Limited
<1> HIDE DEF r
<1>3. /\ p \in Seq(Nat) /\ Len(p) = Len(r) + 1 /\ p[Len(r) + 1] = gateNow
      /\ \A i \in 1 .. Len(r) : p[i] = r[i]
  BY <1>1
<1>4. /\ m \in Seq(Nat) /\ Len(m) = Len(l) + 1 /\ m[Len(l) + 1] = gateNow
      /\ \A i \in 1 .. Len(l) : m[i] = l[i] /\ l[i] \in Nat
  OBVIOUS
<1>5. Len(r) \in Nat /\ Len(l) \in Nat /\ Len(r) <= Len(l)
  BY <1>1 DEF Remembers
<1> HIDE DEF p, m
<1>6. /\ Len(r) \in Nat /\ Len(l) \in Nat /\ Len(r) <= Len(l) /\ Len(r) < max
      /\ Len(p) = Len(r) + 1 /\ Len(m) = Len(l) + 1
  BY <1>1, <1>3, <1>4, <1>5
<1>7. Remembers(p, m, window)
  <2>1. \A i \in 1 .. Len(p) : p[i] = m[Len(m) - Len(p) + i]
    <3> SUFFICES ASSUME NEW i \in 1 .. Len(p)  PROVE p[i] = m[Len(m) - Len(p) + i]
      OBVIOUS
    <3>1. CASE i = Len(r) + 1
      BY <3>1, <1>3, <1>4, <1>5
    <3>2. CASE i # Len(r) + 1
      <4>1. i \in 1 .. Len(r) /\ Len(m) - Len(p) + i = Len(l) - Len(r) + i
            /\ Len(l) - Len(r) + i \in 1 .. Len(l)
        BY <3>2, <1>6
      <4>2. r[i] = l[Len(l) - Len(r) + i]
        BY <4>1, <1>1 DEF Remembers
      <4> QED
        BY <4>1, <4>2, <1>3, <1>4
    <3> QED
      BY <3>1, <3>2
  <2>2. \A i \in 1 .. Len(m) - Len(p) : m[i] < gateNow - window
    <3> SUFFICES ASSUME NEW i \in 1 .. Len(m) - Len(p)  PROVE m[i] < gateNow - window
      OBVIOUS
    <3>1. i \in 1 .. Len(l) - Len(r) /\ i \in 1 .. Len(l)
      BY <1>6
    <3> QED
      BY <3>1, <1>1, <1>4 DEF Remembers
  <2>3. \A i \in 1 .. Len(m) : m[i] <= gateNow
    <3> SUFFICES ASSUME NEW i \in 1 .. Len(m)  PROVE m[i] <= gateNow
      OBVIOUS
    <3>1. CASE i = Len(l) + 1
      BY <3>1, <1>4
    <3>2. CASE i # Len(l) + 1
      <4>1. i \in 1 .. Len(l)
        BY <3>2, <1>6
      <4> QED
        BY <4>1, <1>1, <1>4 DEF Remembers
    <3> QED
      BY <3>1, <3>2
  <2>4. \A i, j \in 1 .. Len(m) : i < j => m[i] <= m[j]
    <3> SUFFICES ASSUME NEW i \in 1 .. Len(m), NEW j \in 1 .. Len(m), i < j
                 PROVE  m[i] <= m[j]
      OBVIOUS
    <3>1. CASE j = Len(l) + 1
      BY <3>1, <2>3, <1>4
    <3>2. CASE j # Len(l) + 1
      <4>1. i \in 1 .. Len(l) /\ j \in 1 .. Len(l)
        BY <3>2, <1>6, SMTT(30)
      <4> QED
        BY <4>1, <1>1, <1>4 DEF Remembers
    <3> QED
      BY <3>1, <3>2
  <2>5. Len(p) <= Len(m)
    BY <1>3, <1>4, <1>5
  <2> QED
    BY <2>1, <2>2, <2>3, <2>4, <2>5 DEF Remembers
<1>8. Spread(m, max, window)
  <2> SUFFICES ASSUME NEW i \in 1 .. Len(m) - max  PROVE m[i + max] - m[i] > window
    BY DEF Spread
  <2>1. CASE i + max = Len(l) + 1
    <3>1. i \in 1 .. Len(l) - Len(r) /\ i \in 1 .. Len(l)
      BY <2>1, <1>6
    <3>2. l[i] < gateNow - window /\ l[i] \in Nat
      BY <3>1, <1>1, <1>4 DEF Remembers
    <3>3. m[i] = l[i] /\ m[i + max] = gateNow
      BY <2>1, <3>1, <1>4
    <3> QED
      BY <3>2, <3>3
  <2>2. CASE i + max # Len(l) + 1
    <3>0. i \in Nat /\ 1 <= i /\ i + max <= Len(l)
      BY <2>2, <1>6, SMTT(30)
    <3>1. i \in 1 .. Len(l) - max /\ i \in 1 .. Len(l) /\ i + max \in 1 .. Len(l)
      BY <3>0, <1>6
    <3> QED
      BY <3>1, <1>4 DEF Spread
  <2> QED
    BY <2>1, <2>2
<1> QED
  BY <1>2, <1>3, <1>4, <1>7, <1>8 DEF p, m

-----------------------------------------------------------------------------
(* The rows and the cache of Access.                                       *)

\* A row that an update of user u may write: nothing is taken from it, and a
\* new inviter is another user with a code.
Improved(u, r) ==
    /\ r \in UserRows /\ r.status # "none"
    /\ r.status = GetOrCreate(u).status
    /\ users[u].granted => r.granted
    /\ users[u].code => r.code
    /\ r.referrer # users[u].referrer =>
          r.referrer \in Users /\ r.referrer # u /\ users[r.referrer].code

LEMMA NewRowFacts ==
    /\ NoUserRow \in UserRows /\ NewRow \in UserRows /\ MemberRow \in UserRows
    /\ NoUserRow.status = "none" /\ NoUserRow.referrer = NoUser
    /\ ~NoUserRow.granted /\ ~NoUserRow.code
    /\ NewRow.status = "active" /\ NewRow.referrer = NoUser /\ ~NewRow.granted /\ ~NewRow.code
    /\ MemberRow.status = "active" /\ MemberRow.referrer = NoUser
    /\ MemberRow.granted /\ MemberRow.code
BY DEF NoUserRow, NewRow, MemberRow, UserRows, Statuses

LEMMA CreatedIsImproved ==
    ASSUME AccessTypes, RowsInv, NEW u \in Users
    PROVE  Improved(u, GetOrCreate(u))
<1>1. CASE users[u] = NoUserRow
  BY <1>1, NewRowFacts DEF Improved, GetOrCreate
<1>2. CASE users[u] # NoUserRow
  BY <1>2 DEF Improved, GetOrCreate, AccessTypes, RowsInv
<1> QED
  BY <1>1, <1>2

LEMMA AttributedIsImproved ==
    ASSUME AccessTypes, RowsInv, NEW u \in Users, NEW r, Improved(u, r), NEW code
    PROVE  Improved(u, Attribute(u, r, code))
<1>1. CASE ~CanAttribute(u, r, code)
  BY <1>1 DEF Attribute
<1>2. CASE CanAttribute(u, r, code)
  <2>1. /\ Inviter(code) \in Users /\ Inviter(code) # u
        /\ users[Inviter(code)].code
    BY <1>2 DEF CanAttribute, Inviter
  <2>2. Attribute(u, r, code) = [r EXCEPT !.referrer = Inviter(code)]
    BY <1>2 DEF Attribute
  <2> QED
    BY <2>1, <2>2 DEF Improved, UserRows
<1> QED
  BY <1>1, <1>2

LEMMA GrantedIsImproved ==
    ASSUME AccessTypes, RowsInv, NEW u \in Users, NEW r, Improved(u, r), NEW code
    PROVE  Improved(u, Grant(u, r, code)) /\ Grant(u, r, code).granted
<1> DEFINE a == IF code = accessCode THEN r ELSE Attribute(u, r, code)
<1>1. Improved(u, a)
  BY AttributedIsImproved
<1>2. Grant(u, r, code) = [a EXCEPT !.granted = TRUE]
  BY DEF Grant
<1> HIDE DEF a
<1> QED
  BY <1>1, <1>2 DEF Improved, UserRows

LEMMA StartedIsImproved ==
    ASSUME AccessTypes, RowsInv, NEW u \in Users, NEW r, Improved(u, r), NEW code
    PROVE  Improved(u, Start(u, r, code)) /\ Start(u, r, code).granted = r.granted
<1> DEFINE a == Attribute(u, r, code)
<1>1. Improved(u, a) /\ a.granted = r.granted
  <2>1. a.granted = r.granted
    BY DEF Attribute, Improved, UserRows
  <2> QED
    BY <2>1, AttributedIsImproved
<1>2. Start(u, r, code) = [a EXCEPT !.code = TRUE]
  BY NewRowFacts DEF Start, Improved
<1> HIDE DEF a
<1> QED
  BY <1>1, <1>2 DEF Improved, UserRows

\* What an update of user u leaves in the place of the row: no row where there
\* was none, or an improved one.
Writes(u, r) == (r = NoUserRow /\ users[u] = NoUserRow) \/ Improved(u, r)

LEMMA OwnRowIsWritten ==
    ASSUME AccessTypes, RowsInv, NEW u \in Users
    PROVE  Writes(u, users[u])
BY CreatedIsImproved DEF Writes, GetOrCreate

\* What such a row leaves true of the rows.
LEMMA RowsStayTrue ==
    ASSUME AccessTypes, RowsInv, NEW u \in Users, NEW r, Writes(u, r),
           users' = [users EXCEPT ![u] = r]
    PROVE  /\ users' \in [Users -> UserRows] /\ RowsInv'
           /\ users'[u] = r /\ \A v \in Users : v # u => users'[v] = users[v]
<1>1. CASE Improved(u, r)
  <2>1. /\ users' \in [Users -> UserRows] /\ users'[u] = r
        /\ \A v \in Users : v # u => users'[v] = users[v]
    BY <1>1 DEF AccessTypes, Improved
  <2>2. \A v \in Users : users[v].code => users'[v].code
    BY <1>1, <2>1 DEF Improved
  <2>3. ASSUME NEW v \in Users
        PROVE  /\ users'[v].status = "none" => users'[v] = NoUserRow
               /\ users'[v].referrer # v
               /\ users'[v].referrer # NoUser => users'[users'[v].referrer].code
    <3>1. users[v] \in UserRows
      BY DEF AccessTypes
    <3>2. users[v].referrer # v /\ (users[v].referrer # NoUser => users[users[v].referrer].code)
      BY DEF RowsInv
    <3>3. users[v].referrer # NoUser => users'[users[v].referrer].code
      BY <3>1, <3>2, <2>2 DEF UserRows
    <3>4. CASE v # u
      BY <3>4, <3>2, <3>3, <2>1 DEF RowsInv
    <3>5. CASE v = u /\ r.referrer = users[u].referrer
      BY <3>5, <3>2, <3>3, <2>1, <1>1 DEF Improved
    <3>6. CASE v = u /\ r.referrer # users[u].referrer
      BY <3>6, <2>1, <2>2, <1>1 DEF Improved
    <3> QED
      BY <3>4, <3>5, <3>6
  <2> QED
    BY <2>1, <2>3 DEF RowsInv
<1>2. CASE r = NoUserRow /\ users[u] = NoUserRow
  <2>1. users' = users
    BY <1>2 DEF AccessTypes
  <2> QED
    BY <2>1, <1>2 DEF AccessTypes, RowsInv
<1> QED
  BY <1>1, <1>2 DEF Writes

\* What CachedInv says of one user: of the cached state c, where the row is r and
\* what the cache has of the user was last rolled back at l.
Agrees(u, c, r, l) ==
    /\ c \in CachedStates /\ c.at \in {Never} \cup 0 .. gateNow
    /\ c.at # Never =>
         /\ IF c.known THEN r # NoUserRow ELSE l >= c.at
         /\ c.status = "active" /\ r.status = "blocked" => blockedAt[u] >= c.at
         /\ c.granted /\ ~r.granted /\ gate => gateOffAt >= c.at \/ l >= c.at

LEMMA CacheAgrees ==
    ASSUME AccessInv, NEW u \in Users
    PROVE  Agrees(u, cache[u], users[u], lost[u])
BY DEF AccessInv, AccessTypes, CachedInv, Agrees

\* The user row and the cache after the synchronisation, and that what they
\* disagree on is not over for long.
LEMMA SyncedFacts ==
    ASSUME AccessInv, NEW u \in Users
    PROVE  /\ Writes(u, SyncedRow(u)) /\ Agrees(u, SyncedCache(u), SyncedRow(u), lost[u])
           /\ SyncedCache(u).at \in 0 .. gateNow
           /\ \A t \in Int : t >= SyncedCache(u).at => t # Never
           /\ SyncedCache(u).known => SyncedRow(u) # NoUserRow
           /\ ~SyncedCache(u).known => ~Past(lost[u])
           /\ SyncedCache(u).status = "active" /\ SyncedRow(u).status = "blocked" =>
                 ~Past(blockedAt[u])
           /\ SyncedCache(u).granted /\ ~SyncedRow(u).granted /\ gate =>
                 ~Past(gateOffAt) \/ ~Past(lost[u])
<1> USE DEF AccessInv
<1>1. /\ gateNow \in Nat /\ Sync \in Nat /\ blockedAt[u] \in Int /\ gateOffAt \in Int
      /\ lost[u] \in Int
  BY AccessAssumption DEF AccessTypes, Never
<1>2. Agrees(u, cache[u], users[u], lost[u])
  BY CacheAgrees
<1>3. CASE NeedsSync(u)
  <2>1. SyncedRow(u) = GetOrCreate(u) /\ Improved(u, SyncedRow(u)) /\ SyncedRow(u) # NoUserRow
    BY <1>3, CreatedIsImproved, NewRowFacts DEF SyncedRow, Improved
  <2>2. SyncedCache(u) = [at |-> gateNow, status |-> SyncedRow(u).status,
                          granted |-> SyncedRow(u).granted, known |-> TRUE]
    BY <1>3 DEF SyncedCache, Cached
  <2>3. SyncedRow(u) \in UserRows
    BY <2>1 DEF Improved
  <2>4. SyncedCache(u) \in CachedStates
    BY <2>2, <2>3, <1>1 DEF CachedStates, UserRows
  <2> QED
    BY <2>1, <2>2, <2>4, <1>1 DEF Writes, Agrees, Never
<1>4. CASE ~NeedsSync(u)
  <2>1. SyncedCache(u) = cache[u] /\ SyncedRow(u) = users[u]
    BY <1>4 DEF SyncedCache, SyncedRow
  <2>2. cache[u].at # Never /\ cache[u].at \in 0 .. gateNow /\ gateNow - cache[u].at < Sync
    BY <1>4, <1>1, <1>2 DEF NeedsSync, Agrees
  <2>3. \A t \in Int : t >= cache[u].at => ~Past(t) /\ t # Never
    BY <2>2, <1>1 DEF Past, Never
  <2>4. Writes(u, SyncedRow(u))
    BY <2>1, OwnRowIsWritten
  <2> QED
    BY <1>1, <1>2, <2>1, <2>2, <2>3, <2>4 DEF Agrees
<1> QED
  BY <1>3, <1>4

\* The cache stays true if what is written of user u fits.
LEMMA CacheStaysTrue ==
    ASSUME AccessInv, NEW u \in Users, NEW r, NEW c, NEW l, Agrees(u, c, r, l),
           cache' = [cache EXCEPT ![u] = c], users' = [users EXCEPT ![u] = r],
           lost' = [lost EXCEPT ![u] = l], UNCHANGED <<gateNow, gate, blockedAt, gateOffAt>>
    PROVE  cache' \in [Users -> CachedStates] /\ CachedInv'
<1> USE DEF AccessInv
<1>1. /\ cache' \in [Users -> CachedStates] /\ cache'[u] = c /\ users'[u] = r /\ lost'[u] = l
      /\ \A v \in Users : v # u => cache'[v] = cache[v] /\ users'[v] = users[v] /\ lost'[v] = lost[v]
  BY DEF AccessTypes, Agrees
<1>2. ASSUME NEW v \in Users  PROVE Agrees(v, cache'[v], users'[v], lost'[v])
  BY <1>1, CacheAgrees
<1>3. UNCHANGED <<gateNow, gate, blockedAt, gateOffAt>>
  OBVIOUS
<1> QED
  BY <1>1, <1>2, <1>3 DEF CachedInv, Agrees

-----------------------------------------------------------------------------
(* The steps of Access.                                                    *)

LEMMA AccessBounds ==
    ASSUME AccessTypes
    PROVE  /\ gateNow \in Nat /\ Sync \in Nat
           /\ MaxEvents \in Nat \ {0} /\ EventWindow \in Nat
           /\ MaxTries \in Nat \ {0} /\ TryWindow \in Nat
           /\ hits \in [Users -> Seq(Nat)] /\ log \in [Users -> Seq(Nat)]
           /\ tries \in [Users -> Seq(Nat)] /\ guesses \in [Users -> Seq(Nat)]
           /\ Actors \subseteq Users
BY AccessAssumption DEF AccessTypes

LEMMA InitAccess == AccessInit => AccessInv
<1> SUFFICES ASSUME AccessInit PROVE AccessInv
  OBVIOUS
<1>1. /\ Sync \in Nat /\ MaxGateClock \in Nat /\ MaxGateRestarts \in Nat
      /\ MaxEvents \in Nat /\ MaxTries \in Nat /\ 0 \in 0 .. 0
  BY AccessAssumption
<1>2. users \in [Users -> UserRows] /\ cache \in [Users -> CachedStates]
  BY NewRowFacts DEF AccessInit, CachedStates, Statuses, NotCached, Never
<1>3. AccessTypes
  <2>1. {hits, tries, log, guesses} \subseteq [Users -> Seq(Nat)]
    BY DEF AccessInit
  <2>2. /\ {blockedAt, lost} \subseteq [Users -> {Never} \cup 0 .. gateNow]
        /\ gateOffAt \in {Never} \cup 0 .. gateNow
        /\ {failed, pastLock, pastLimit} \subseteq [Users -> Nat]
    BY DEF AccessInit
  <2> QED
    BY <1>1, <1>2, <2>1, <2>2 DEF AccessInit, AccessTypes
<1>4. RowsInv
  BY NewRowFacts, AccessAssumption DEF AccessInit, RowsInv
<1>5. CachedInv
  BY DEF AccessInit, CachedInv, NotCached
<1>6. Len(<<>>) = 0 /\ \A i : i \notin 1 .. 0
  OBVIOUS
<1>7. LimitersInv
  BY <1>6 DEF AccessInit, LimitersInv, Remembers
<1>8. FloodsAreBounded
  BY <1>1, <1>6 DEF AccessInit, FloodsAreBounded, Spread
<1>9. LocksTakeEffect
  BY DEF AccessInit, LocksTakeEffect
<1> QED
  BY <1>3, <1>4, <1>5, <1>7, <1>8, <1>9 DEF AccessInv

\* A limiter that lets an event of user u through, or none.
LEMMA LetInKeeps ==
    ASSUME AccessInv, NEW u \in Users, LetIn(u)
    PROVE  /\ hits' \in [Users -> Seq(Nat)] /\ log' \in [Users -> Seq(Nat)]
           /\ \A v \in Users : /\ Remembers(hits'[v], log'[v], EventWindow)
                               /\ Spread(log'[v], MaxEvents, EventWindow)
<1> USE AccessBounds DEF AccessInv
<1>1. /\ Limited(hits[u], MaxEvents, EventWindow) \in Seq(Nat)
      /\ Append(log[u], gateNow) \in Seq(Nat)
      /\ Remembers(Limited(hits[u], MaxEvents, EventWindow), Append(log[u], gateNow), EventWindow)
      /\ Spread(Append(log[u], gateNow), MaxEvents, EventWindow)
  BY LetThrough DEF LetIn, LimitersInv, FloodsAreBounded
<1>2. /\ hits' = [hits EXCEPT ![u] = Limited(hits[u], MaxEvents, EventWindow)]
      /\ log' = [log EXCEPT ![u] = Append(log[u], gateNow)]
  BY DEF LetIn
<1>3. /\ hits'[u] = Limited(hits[u], MaxEvents, EventWindow)
      /\ log'[u] = Append(log[u], gateNow)
      /\ \A v \in Users : v # u => hits'[v] = hits[v] /\ log'[v] = log[v]
      /\ hits' \in [Users -> Seq(Nat)] /\ log' \in [Users -> Seq(Nat)]
  BY <1>1, <1>2
<1>4. ASSUME NEW v \in Users
      PROVE  /\ Remembers(hits'[v], log'[v], EventWindow)
             /\ Spread(log'[v], MaxEvents, EventWindow)
  BY <1>1, <1>3 DEF LimitersInv, FloodsAreBounded
<1> QED
  BY <1>3, <1>4

\* What an update of user u leaves of the counts of updates that got through: no
\* count rises by more than the count of failures, and what was rolled back only now.
Counted(u) ==
    /\ \/ failed' = failed
       \/ failed' = [failed EXCEPT ![u] = @ + 1]
    /\ pastLock' = pastLock \/ (pastLock' = [pastLock EXCEPT ![u] = @ + 1] /\ failed' # failed)
    /\ pastLimit' = pastLimit \/ (pastLimit' = [pastLimit EXCEPT ![u] = @ + 1] /\ failed' # failed)

LEMMA CountsStayTrue ==
    ASSUME AccessInv, NEW u \in Users, Counted(u)
    PROVE  /\ {failed', pastLock', pastLimit'} \subseteq [Users -> Nat]
           /\ \A v \in Users : pastLock'[v] <= failed'[v] /\ pastLimit'[v] <= failed'[v]
<1>1. /\ failed \in [Users -> Nat] /\ pastLock \in [Users -> Nat] /\ pastLimit \in [Users -> Nat]
      /\ \A v \in Users : pastLock[v] <= failed[v] /\ pastLimit[v] <= failed[v]
  BY DEF AccessInv, AccessTypes, LocksTakeEffect, FloodsAreBounded
<1>2. CASE failed' = failed
  BY <1>1, <1>2 DEF Counted
<1>3. CASE failed' = [failed EXCEPT ![u] = @ + 1]
  <2>1. failed' \in [Users -> Nat] /\ pastLock' \in [Users -> Nat] /\ pastLimit' \in [Users -> Nat]
    BY <1>1, <1>3 DEF Counted
  <2>2. ASSUME NEW v \in Users
        PROVE  pastLock'[v] <= failed'[v] /\ pastLimit'[v] <= failed'[v]
    BY <1>1, <1>3 DEF Counted
  <2> QED
    BY <2>1, <2>2
<1> QED
  BY <1>2, <1>3 DEF Counted

\* The limiters, the rows, the cache and the counts make up the invariant.
LEMMA UpdateKeeps ==
    ASSUME AccessInv, NEW u \in Users, LetIn(u), NEW r, NEW c, NEW l,
           users' = [users EXCEPT ![u] = r], Writes(u, r),
           cache' = [cache EXCEPT ![u] = c], lost' = [lost EXCEPT ![u] = l], Agrees(u, c, r, l),
           l \in {lost[u], gateNow}, Counted(u),
           \/ UNCHANGED <<tries, guesses>>
           \/ tries' = [tries EXCEPT ![u] = Limited(tries[u], MaxTries, TryWindow)]
              /\ guesses' = [guesses EXCEPT ![u] =
                     IF Allows(tries[u], MaxTries, TryWindow) THEN Append(guesses[u], gateNow)
                     ELSE guesses[u]]
    PROVE  AccessInv'
<1> USE AccessBounds DEF AccessInv
<1>1. UNCHANGED <<gateNow, gateRestarts, gate, accessCode, blockedAt, gateOffAt>>
  BY DEF LetIn
<1>2. l \in {Never} \cup 0 .. gateNow /\ lost' \in [Users -> {Never} \cup 0 .. gateNow]
  BY DEF AccessTypes
<1>3. users' \in [Users -> UserRows] /\ RowsInv'
  BY RowsStayTrue
<1>4. cache' \in [Users -> CachedStates] /\ CachedInv'
  BY <1>1, CacheStaysTrue
<1>5. /\ tries' \in [Users -> Seq(Nat)] /\ guesses' \in [Users -> Seq(Nat)]
      /\ \A v \in Users : /\ Remembers(tries'[v], guesses'[v], TryWindow)
                          /\ Spread(guesses'[v], MaxTries, TryWindow)
  <2>1. CASE UNCHANGED <<tries, guesses>>
    BY <2>1 DEF LimitersInv, FloodsAreBounded
  <2>2. CASE /\ tries' = [tries EXCEPT ![u] = Limited(tries[u], MaxTries, TryWindow)]
             /\ guesses' = [guesses EXCEPT ![u] =
                   IF Allows(tries[u], MaxTries, TryWindow) THEN Append(guesses[u], gateNow)
                   ELSE guesses[u]]
    <3> DEFINE t == Limited(tries[u], MaxTries, TryWindow)
               g == IF Allows(tries[u], MaxTries, TryWindow) THEN Append(guesses[u], gateNow)
                    ELSE guesses[u]
    <3>1. /\ t \in Seq(Nat) /\ g \in Seq(Nat)
          /\ Remembers(t, g, TryWindow) /\ Spread(g, MaxTries, TryWindow)
      <4>1. CASE Allows(tries[u], MaxTries, TryWindow)
        BY <4>1, LetThrough DEF LimitersInv, FloodsAreBounded
      <4>2. CASE ~Allows(tries[u], MaxTries, TryWindow)
        <5>1. t = InWindow(tries[u], TryWindow) /\ g = guesses[u]
          BY <4>2 DEF Limited
        <5>2. /\ InWindow(tries[u], TryWindow) \in Seq(Nat)
              /\ Remembers(InWindow(tries[u], TryWindow), guesses[u], TryWindow)
          BY WindowRemembers DEF LimitersInv
        <5> QED
          BY <5>1, <5>2 DEF FloodsAreBounded
      <4> QED
        BY <4>1, <4>2
    <3> HIDE DEF t, g
    <3>2. tries' = [tries EXCEPT ![u] = t] /\ guesses' = [guesses EXCEPT ![u] = g]
      BY <2>2 DEF t, g
    <3>3. /\ tries'[u] = t /\ guesses'[u] = g
          /\ \A v \in Users : v # u => tries'[v] = tries[v] /\ guesses'[v] = guesses[v]
          /\ tries' \in [Users -> Seq(Nat)] /\ guesses' \in [Users -> Seq(Nat)]
      BY <3>1, <3>2
    <3>4. ASSUME NEW v \in Users
          PROVE  /\ Remembers(tries'[v], guesses'[v], TryWindow)
                 /\ Spread(guesses'[v], MaxTries, TryWindow)
      BY <3>1, <3>3 DEF LimitersInv, FloodsAreBounded
    <3> QED
      BY <3>3, <3>4
  <2> QED
    BY <2>1, <2>2
<1>6. /\ hits' \in [Users -> Seq(Nat)] /\ log' \in [Users -> Seq(Nat)]
      /\ \A v \in Users : /\ Remembers(hits'[v], log'[v], EventWindow)
                          /\ Spread(log'[v], MaxEvents, EventWindow)
  BY LetInKeeps
<1>7. LimitersInv'
  BY <1>1, <1>5, <1>6 DEF LimitersInv, Remembers
<1>8. /\ {failed', pastLock', pastLimit'} \subseteq [Users -> Nat]
      /\ \A v \in Users : pastLock'[v] <= failed'[v] /\ pastLimit'[v] <= failed'[v]
  BY CountsStayTrue
<1>9. FloodsAreBounded'
  BY <1>5, <1>6, <1>8 DEF FloodsAreBounded, Spread
<1>10. AccessTypes'
  <2>1. {blockedAt', lost'} \subseteq [Users -> {Never} \cup 0 .. gateNow']
    BY <1>1, <1>2 DEF AccessTypes
  <2>2. {hits', tries', log', guesses'} \subseteq [Users -> Seq(Nat)]
    BY <1>5, <1>6
  <2>3. /\ gateNow' \in 0 .. MaxGateClock /\ gateRestarts' \in 0 .. MaxGateRestarts
        /\ gate' \in BOOLEAN /\ accessCode' \in GlobalCodes
        /\ gateOffAt' \in {Never} \cup 0 .. gateNow'
    BY <1>1 DEF AccessTypes
  <2> QED
    BY <2>1, <2>2, <2>3, <1>3, <1>4, <1>8 DEF AccessTypes
<1> QED
  BY <1>3, <1>4, <1>7, <1>8, <1>9, <1>10 DEF LocksTakeEffect

\* What a handler that sees the update writes.
LEMMA HandledFacts ==
    ASSUME AccessInv, NEW u \in Users, NEW offer, NEW row, Writes(u, row),
           Handled(u, offer, row)
    PROVE  \E r : /\ users' = [users EXCEPT ![u] = r] /\ Writes(u, r)
                  /\ r.granted = row.granted /\ r.status = row.status
                  /\ row # NoUserRow => r # NoUserRow
<1> DEFINE r == IF offer.kind = "start" THEN Start(u, row, offer.code) ELSE row
<1>1. users' = [users EXCEPT ![u] = r]
  BY DEF Handled
<1>2. CASE row = NoUserRow /\ users[u] = NoUserRow
  <2>1. r = row
    BY <1>2 DEF Start
  <2> QED
    BY <1>1, <2>1
<1>3. CASE Improved(u, row)
  <2>1. Improved(u, r) /\ r.granted = row.granted
    BY <1>3, StartedIsImproved DEF AccessInv
  <2>2. r.status = row.status /\ r # NoUserRow
    BY <2>1, <1>3, NewRowFacts DEF Improved
  <2> HIDE DEF r
  <2> QED
    BY <1>1, <2>1, <2>2 DEF Writes
<1> QED
  BY <1>2, <1>3 DEF Writes

\* A row that a handler saw fits what the row fitted before.
LEMMA AgreesOn ==
    ASSUME NEW u, NEW c, NEW row, NEW l, Agrees(u, c, row, l), NEW r,
           r.granted = row.granted, r.status = row.status, row # NoUserRow => r # NoUserRow
    PROVE  Agrees(u, c, r, l)
BY DEF Agrees

\* An update that is let in, past the limiter: none of these is counted as one
\* that the rate limit had refused.
LEMMA LetInIsLogged ==
    ASSUME AccessInv, NEW u \in Users, LetIn(u)
    PROVE  log' # log
<1>1. log[u] \in Seq(Nat) /\ log' = [log EXCEPT ![u] = Append(log[u], gateNow)] /\ gateNow \in Nat
  BY AccessBounds DEF AccessInv, LetIn
<1>2. log'[u] = Append(log[u], gateNow) /\ Append(log[u], gateNow) # log[u]
  <2>1. log'[u] = Append(log[u], gateNow)
    BY <1>1, AccessBounds DEF AccessInv
  <2>2. Len(Append(log[u], gateNow)) = Len(log[u]) + 1 /\ Len(log[u]) \in Nat
    BY <1>1
  <2> QED
    BY <2>1, <2>2
<1> QED
  BY <1>2

\* What is counted of an update that a handler sees: a failure, or a user who is
\* not locked for long.
LEMMA HandledIsCounted ==
    ASSUME AccessInv, NEW u \in Users, NEW offer, NEW row, Handled(u, offer, row),
           \/ Fails(u)
           \/ failed' = failed /\ ~LongLocked(u, row) /\ log' # log
    PROVE  Counted(u)
<1>1. failed \in [Users -> Nat]
  BY DEF AccessInv, AccessTypes
<1>2. Fails(u) => failed' = [failed EXCEPT ![u] = @ + 1] /\ failed'[u] # failed[u]
  BY <1>1 DEF Fails
<1> QED
  BY <1>2 DEF Counted, Handled

\* Where the update is stopped, no count changes.
LEMMA StoppedIsCounted ==
    ASSUME NEW u, NEW row, Stopped(u, row), failed' = failed
    PROVE  Counted(u)
BY DEF Stopped, Counted

\* A user with a row that the cache does not lock, or the gate, is not locked for long.
LEMMA NotLongLocked ==
    ASSUME NEW u, NEW row,
           row.status = "blocked" => ~Past(blockedAt[u]),
           gate /\ ~row.granted => ~Past(gateOffAt) \/ ~Past(lost[u])
    PROVE  ~LongLocked(u, row)
BY DEF LongLocked

\* A let-in update that a handler sees, and what the cache then says of its user.
LEMMA HandledKeeps ==
    ASSUME AccessInv, NEW u \in Users, NEW offer, LetIn(u), NEW row, NEW c, NEW l,
           Writes(u, row), Handled(u, offer, row), Agrees(u, c, row, l),
           cache' = [cache EXCEPT ![u] = c], lost' = [lost EXCEPT ![u] = l],
           l \in {lost[u], gateNow},
           \/ Fails(u)
           \/ failed' = failed /\ ~LongLocked(u, row),
           \/ UNCHANGED <<tries, guesses>>
           \/ tries' = [tries EXCEPT ![u] = Limited(tries[u], MaxTries, TryWindow)]
              /\ guesses' = [guesses EXCEPT ![u] =
                     IF Allows(tries[u], MaxTries, TryWindow) THEN Append(guesses[u], gateNow)
                     ELSE guesses[u]]
    PROVE  AccessInv'
<1>1. PICK r : /\ users' = [users EXCEPT ![u] = r] /\ Writes(u, r)
               /\ r.granted = row.granted /\ r.status = row.status
               /\ row # NoUserRow => r # NoUserRow
  BY HandledFacts
<1>2. Agrees(u, c, r, l)
  BY <1>1, AgreesOn
<1>3. Counted(u)
  BY LetInIsLogged, HandledIsCounted
<1> QED
  BY <1>1, <1>2, <1>3, UpdateKeeps

\* A let-in update that is stopped.
LEMMA StoppedKeeps ==
    ASSUME AccessInv, NEW u \in Users, LetIn(u), NEW row, NEW c,
           Writes(u, row), Stopped(u, row), Agrees(u, c, row, lost[u]),
           cache' = [cache EXCEPT ![u] = c], Succeeds,
           \/ UNCHANGED <<tries, guesses>>
           \/ tries' = [tries EXCEPT ![u] = Limited(tries[u], MaxTries, TryWindow)]
              /\ guesses' = [guesses EXCEPT ![u] =
                     IF Allows(tries[u], MaxTries, TryWindow) THEN Append(guesses[u], gateNow)
                     ELSE guesses[u]]
    PROVE  AccessInv'
<1>1. lost' = [lost EXCEPT ![u] = lost[u]] /\ failed' = failed
  BY DEF Succeeds, AccessInv, AccessTypes
<1>2. Counted(u)
  BY <1>1, StoppedIsCounted
<1> QED
  BY <1>1, <1>2, UpdateKeeps DEF Stopped

\* An unchanged function is one updated with its own value.
LEMMA LostStays ==
    ASSUME AccessInv, NEW u \in Users, UNCHANGED lost
    PROVE  lost' = [lost EXCEPT ![u] = lost[u]]
BY DEF AccessInv, AccessTypes

\* The status is seen, and the cache lets the user pass or not.
LEMMA StatusStepsKeep ==
    ASSUME AccessInv, NEW u \in Users, NEW offer,
           Blocked(u) \/ BlockedFails(u, offer) \/ PassCached(u, offer)
    PROVE  AccessInv'
<1> DEFINE row == SyncedRow(u)
           c == SyncedCache(u)
<1>1. /\ Writes(u, row) /\ Agrees(u, c, row, lost[u])
      /\ c.status = "active" /\ row.status = "blocked" => ~Past(blockedAt[u])
      /\ c.granted /\ ~row.granted /\ gate => ~Past(gateOffAt) \/ ~Past(lost[u])
  BY SyncedFacts
<1>2. CASE Blocked(u)
  <2>1. LetIn(u) /\ cache' = [cache EXCEPT ![u] = c] /\ Succeeds /\ Stopped(u, row)
        /\ UNCHANGED <<tries, guesses>>
    BY <1>2 DEF Blocked, IsBlocked, Uncoded
  <2> HIDE DEF row, c
  <2> QED
    BY <1>1, <2>1, StoppedKeeps
<1>3. CASE BlockedFails(u, offer)
  <2>1. /\ LetIn(u) /\ cache' = [cache EXCEPT ![u] = c] /\ Fails(u) /\ Handled(u, offer, row)
        /\ UNCHANGED <<tries, guesses>> /\ UNCHANGED lost
    BY <1>3 DEF BlockedFails, IsBlocked, Uncoded
  <2>2. lost' = [lost EXCEPT ![u] = lost[u]]
    BY <2>1, LostStays
  <2> HIDE DEF row, c
  <2> QED
    BY <1>1, <2>1, <2>2, HandledKeeps
<1>4. CASE PassCached(u, offer)
  <2>1. /\ LetIn(u) /\ cache' = [cache EXCEPT ![u] = c] /\ Handled(u, offer, row)
        /\ UNCHANGED <<tries, guesses>> /\ UNCHANGED lost /\ failed' = failed
        /\ c.status = "active" /\ c.granted
    BY <1>4 DEF PassCached, Uncoded, Succeeds
  <2>2. lost' = [lost EXCEPT ![u] = lost[u]]
    BY <2>1, LostStays
  <2> HIDE DEF row, c
  <2>3. ~LongLocked(u, row)
    BY <1>1, <2>1, NotLongLocked
  <2> QED
    BY <1>1, <2>1, <2>2, <2>3, HandledKeeps
<1> QED
  BY <1>2, <1>3, <1>4

\* The gate is asked, and opens, prompts or fails.
LEMMA GateStepsKeep ==
    ASSUME AccessInv, NEW u \in Users, NEW offer,
           \/ PassGate(u, offer) \/ AskCode(u, offer) \/ AskCodeFails(u, offer)
           \/ GateFails(u, offer)
    PROVE  AccessInv'
<1> DEFINE row == SyncedRow(u)
           c == SyncedCache(u)
<1>1. /\ Writes(u, row) /\ Agrees(u, c, row, lost[u])
      /\ c.status = "active" /\ row.status = "blocked" => ~Past(blockedAt[u])
      /\ ~c.known => ~Past(lost[u])
  BY SyncedFacts
<1>2. CASE PassGate(u, offer)
  <2> DEFINE d == [c EXCEPT !.granted = ~gate \/ c.known]
  <2>1. /\ LetIn(u) /\ cache' = [cache EXCEPT ![u] = d] /\ Handled(u, offer, row)
        /\ UNCHANGED <<tries, guesses>> /\ UNCHANGED lost /\ failed' = failed
        /\ c.status = "active" /\ (~gate \/ ~c.known \/ row.granted)
    BY <1>2 DEF PassGate, AtGate, Open, Uncoded, Succeeds
  <2>2. lost' = [lost EXCEPT ![u] = lost[u]]
    BY <2>1, LostStays
  <2>3. /\ d \in CachedStates /\ d.at = c.at /\ d.status = c.status /\ d.known = c.known
        /\ d.granted = (~gate \/ c.known)
    <3>1. c \in CachedStates /\ gate \in BOOLEAN
      BY <1>1 DEF Agrees, AccessInv, AccessTypes
    <3> HIDE DEF c
    <3>2. (~gate \/ c.known) \in BOOLEAN
      OBVIOUS
    <3> QED
      BY <3>1, <3>2 DEF CachedStates
  <2> HIDE DEF row, c, d
  <2>4. Agrees(u, d, row, lost[u])
    BY <1>1, <2>1, <2>3 DEF Agrees
  <2>5. ~LongLocked(u, row)
    BY <1>1, <2>1, NotLongLocked
  <2> QED
    BY <1>1, <2>1, <2>2, <2>4, <2>5, HandledKeeps
<1>3. CASE AskCode(u, offer)
  <2>1. LetIn(u) /\ cache' = [cache EXCEPT ![u] = c] /\ Succeeds /\ Stopped(u, row)
        /\ UNCHANGED <<tries, guesses>>
    BY <1>3 DEF AskCode, AtPrompt, AtGate, Uncoded
  <2> HIDE DEF row, c
  <2> QED
    BY <1>1, <2>1, StoppedKeeps
<1>4. CASE AskCodeFails(u, offer) \/ GateFails(u, offer)
  <2>1. /\ LetIn(u) /\ cache' = [cache EXCEPT ![u] = c] /\ Fails(u) /\ Handled(u, offer, row)
        /\ UNCHANGED <<tries, guesses>> /\ UNCHANGED lost
    BY <1>4 DEF AskCodeFails, AtPrompt, GateFails, AtGate, Uncoded
  <2>2. lost' = [lost EXCEPT ![u] = lost[u]]
    BY <2>1, LostStays
  <2> HIDE DEF row, c
  <2> QED
    BY <1>1, <2>1, <2>2, HandledKeeps
<1> QED
  BY <1>2, <1>3, <1>4

\* A code is tried.
LEMMA CodeStepsKeep ==
    ASSUME AccessInv, NEW u \in Users, NEW offer,
           TryCode(u, offer) \/ TryCodeFails(u, offer)
    PROVE  AccessInv'
<1> DEFINE row == SyncedRow(u)
           c == SyncedCache(u)
           right == Right(u, offer)
           d == [c EXCEPT !.granted = right]
           g == Grant(u, row, offer.code)
<1>1. /\ Writes(u, row) /\ Agrees(u, c, row, lost[u])
      /\ c.at \in 0 .. gateNow /\ gateNow \in Nat
      /\ c.status = "active" /\ row.status = "blocked" => ~Past(blockedAt[u])
      /\ c.known => row # NoUserRow
  BY SyncedFacts, AccessBounds DEF AccessInv
<1>2. /\ LetIn(u) /\ cache' = [cache EXCEPT ![u] = d] /\ c.status = "active" /\ c.known
      /\ tries' = [tries EXCEPT ![u] = Limited(tries[u], MaxTries, TryWindow)]
  BY DEF TryCode, TryCodeFails, OffersCode, CacheTry, AtGate, Open
<1>3. guesses' = [guesses EXCEPT ![u] =
           IF Allows(tries[u], MaxTries, TryWindow) THEN Append(guesses[u], gateNow)
           ELSE guesses[u]]
  <2>1. guesses = [guesses EXCEPT ![u] = guesses[u]]
    BY AccessBounds DEF AccessInv
  <2> QED
    BY <2>1 DEF TryCode, TryCodeFails, OffersCode
<1>4. Improved(u, row)
  BY <1>1, <1>2 DEF Writes
<1>5. Writes(u, g) /\ g.granted /\ g.status = row.status /\ g # NoUserRow
  <2>1. Improved(u, g) /\ g.granted
    BY <1>4, GrantedIsImproved DEF AccessInv
  <2> HIDE DEF g, row
  <2> QED
    BY <2>1, <1>4, NewRowFacts DEF Writes, Improved
<1>6. /\ d \in CachedStates /\ d.at = c.at /\ d.status = c.status /\ d.known = c.known
      /\ d.granted = right
  <2>1. c \in CachedStates /\ right \in BOOLEAN
    BY <1>1 DEF Agrees, Right, Allows, IsValid, CanAttribute
  <2> HIDE DEF c, right
  <2> QED
    BY <2>1 DEF CachedStates
<1> HIDE DEF row, c, right, d, g
<1>7. ~right => Agrees(u, d, row, lost[u])
  BY <1>1, <1>6 DEF Agrees
<1>8. Agrees(u, d, row, gateNow)
  BY <1>1, <1>2, <1>6 DEF Agrees
<1>9. Agrees(u, d, g, lost[u])
  BY <1>1, <1>5, <1>6, <1>2 DEF Agrees
<1>10. ~LongLocked(u, g)
  BY <1>1, <1>2, <1>5, NotLongLocked
<1>11. CASE TryCode(u, offer)
  <2>1. /\ Succeeds /\ failed' = failed /\ UNCHANGED lost
        /\ \/ Handled(u, offer, g)
           \/ Stopped(u, g)
           \/ ~right /\ Stopped(u, row)
    BY <1>11 DEF TryCode, Succeeds, row, right, g
  <2>2. lost' = [lost EXCEPT ![u] = lost[u]]
    BY <2>1, LostStays
  <2>3. CASE Handled(u, offer, g)
    BY <2>1, <2>2, <2>3, <1>2, <1>3, <1>5, <1>9, <1>10, HandledKeeps
  <2>4. CASE Stopped(u, g)
    BY <2>1, <2>4, <1>2, <1>3, <1>5, <1>9, StoppedKeeps
  <2>5. CASE ~right /\ Stopped(u, row)
    BY <2>1, <2>5, <1>1, <1>2, <1>3, <1>7, StoppedKeeps
  <2> QED
    BY <2>1, <2>3, <2>4, <2>5
<1>12. CASE TryCodeFails(u, offer)
  <2>1. /\ Fails(u)
        /\ \/ /\ lost' = IF right THEN [lost EXCEPT ![u] = gateNow] ELSE lost
              /\ Handled(u, offer, row)
           \/ UNCHANGED lost /\ Handled(u, offer, g)
    BY <1>12 DEF TryCodeFails, row, right, g
  <2>2. CASE UNCHANGED lost /\ Handled(u, offer, g)
    <3>1. lost' = [lost EXCEPT ![u] = lost[u]]
      BY <2>2, LostStays
    <3> QED
      BY <2>1, <2>2, <3>1, <1>2, <1>3, <1>5, <1>9, HandledKeeps
  <2>3. CASE right /\ lost' = [lost EXCEPT ![u] = gateNow] /\ Handled(u, offer, row)
    BY <2>1, <2>3, <1>1, <1>2, <1>3, <1>8, HandledKeeps
  <2>4. CASE ~right /\ lost' = lost /\ Handled(u, offer, row)
    <3>1. lost' = [lost EXCEPT ![u] = lost[u]]
      BY <2>4, LostStays
    <3> QED
      BY <2>1, <2>4, <3>1, <1>1, <1>2, <1>3, <1>7, HandledKeeps
  <2> QED
    BY <2>1, <2>2, <2>3, <2>4
<1> QED
  BY <1>11, <1>12

\* The synchronisation fails.
LEMMA SyncFailsKeeps ==
    ASSUME AccessInv, NEW u \in Users, NEW offer,
           SyncFails(u, offer) \/ SyncCommitFails(u, offer)
    PROVE  AccessInv'
<1> USE DEF AccessInv
<1>1. CASE SyncFails(u, offer)
  <2>1. /\ LetIn(u) /\ Fails(u) /\ UNCHANGED <<tries, guesses>> /\ Handled(u, offer, users[u])
        /\ cache' = [cache EXCEPT ![u] = cache[u]] /\ lost' = [lost EXCEPT ![u] = lost[u]]
    BY <1>1 DEF SyncFails, Uncoded, AccessTypes
  <2>2. Writes(u, users[u]) /\ Agrees(u, cache[u], users[u], lost[u])
    BY OwnRowIsWritten, CacheAgrees
  <2> QED
    BY <2>1, <2>2, HandledKeeps
<1>2. CASE SyncCommitFails(u, offer)
  <2> DEFINE c(row) == [Cached(GetOrCreate(u)) EXCEPT !.known = row # NoUserRow]
             l(row) == IF row = NoUserRow THEN gateNow ELSE lost[u]
  <2>1. PICK row \in {users[u], GetOrCreate(u)} :
             /\ cache' = [cache EXCEPT ![u] = c(row)]
             /\ lost' = IF row = NoUserRow THEN [lost EXCEPT ![u] = gateNow] ELSE lost
             /\ Handled(u, offer, row)
    BY <1>2 DEF SyncCommitFails
  <2>2. LetIn(u) /\ Fails(u) /\ UNCHANGED <<tries, guesses>>
    BY <1>2 DEF SyncCommitFails, Uncoded
  <2>3. lost' = [lost EXCEPT ![u] = l(row)] /\ l(row) \in {lost[u], gateNow}
    BY <2>1 DEF AccessTypes
  <2>4. Writes(u, row) /\ Improved(u, GetOrCreate(u))
    BY OwnRowIsWritten, CreatedIsImproved DEF Writes
  <2>5. row # NoUserRow => row = GetOrCreate(u)
    BY DEF GetOrCreate
  <2>6. row = NoUserRow => GetOrCreate(u) = NewRow
    BY <2>4, NewRowFacts DEF GetOrCreate, Improved
  <2>7. c(row) = [at |-> gateNow, status |-> GetOrCreate(u).status,
                  granted |-> GetOrCreate(u).granted, known |-> row # NoUserRow]
    BY DEF Cached
  <2>8. c(row) \in CachedStates
    <3>1. GetOrCreate(u).status \in Statuses /\ GetOrCreate(u).granted \in BOOLEAN
      BY <2>4 DEF Improved, UserRows
    <3>2. (row # NoUserRow) \in BOOLEAN /\ gateNow \in Int
      BY AccessBounds
    <3> QED
      BY <2>7, <3>1, <3>2 DEF CachedStates
  <2>9. gateNow \in Nat
    BY AccessBounds
  <2> DEFINE e == c(row)
             k == l(row)
  <2>10. Agrees(u, e, row, k)
    <3>1. CASE row = NoUserRow
      <4>1. GetOrCreate(u) = NewRow /\ ~NewRow.granted /\ row.status = "none"
        BY <3>1, <2>6, NewRowFacts
      <4>2. e.at = gateNow /\ ~e.known /\ ~e.granted
        BY <3>1, <2>7, <4>1
      <4>3. k = gateNow /\ e \in CachedStates
        BY <3>1, <2>8
      <4> HIDE DEF e, k
      <4> QED
        BY <4>1, <4>2, <4>3, <2>9 DEF Agrees
    <3>2. CASE row # NoUserRow
      <4>1. e.at = gateNow /\ e.known /\ e.granted = row.granted /\ e.status = row.status
            /\ e \in CachedStates
        BY <3>2, <2>5, <2>7, <2>8
      <4> HIDE DEF e, k
      <4> QED
        BY <3>2, <4>1, <2>9 DEF Agrees
    <3> QED
      BY <3>1, <3>2
  <2>11. /\ cache' = [cache EXCEPT ![u] = e] /\ lost' = [lost EXCEPT ![u] = k]
         /\ k \in {lost[u], gateNow}
    BY <2>1, <2>3
  <2> HIDE DEF e, k
  <2> QED
    BY <2>1, <2>2, <2>4, <2>10, <2>11, HandledKeeps
<1> QED
  BY <1>1, <1>2

\* An update that the rate limit refuses: it is stopped, or counted as one that
\* slipped past the limit by a failure.
LEMMA FloodKeeps ==
    ASSUME AccessInv, NEW u \in Users, NEW offer, Flood(u) \/ FloodFails(u, offer)
    PROVE  AccessInv'
<1> USE AccessBounds DEF AccessInv
<1>1. /\ InWindow(hits[u], EventWindow) \in Seq(Nat)
      /\ Remembers(InWindow(hits[u], EventWindow), log[u], EventWindow)
  BY WindowRemembers DEF LimitersInv
<1>2. /\ hits' = [hits EXCEPT ![u] = InWindow(hits[u], EventWindow)]
      /\ UNCHANGED <<gateNow, gateRestarts, gate, accessCode, cache, tries, blockedAt,
                     gateOffAt, log, guesses, lost>>
  BY DEF Flood, FloodFails, OverLimit, Succeeds
<1>3. /\ hits' \in [Users -> Seq(Nat)] /\ hits'[u] = InWindow(hits[u], EventWindow)
      /\ \A v \in Users : v # u => hits'[v] = hits[v]
  BY <1>1, <1>2
<1>4. ASSUME NEW v \in Users  PROVE Remembers(hits'[v], log[v], EventWindow)
  BY <1>1, <1>3 DEF LimitersInv
<1>5. LimitersInv'
  <2>1. ASSUME NEW v \in Users
        PROVE  /\ Remembers(hits'[v], log[v], EventWindow)
               /\ Remembers(tries[v], guesses[v], TryWindow)
    BY <1>4 DEF LimitersInv
  <2>2. UNCHANGED <<gateNow, log, tries, guesses>>
    BY <1>2
  <2> QED
    BY <2>1, <2>2 DEF LimitersInv, Remembers
<1>6. Writes(u, users[u]) /\ Agrees(u, cache[u], users[u], lost[u])
  BY OwnRowIsWritten, CacheAgrees
<1>7. Counted(u)
  <2>1. CASE Flood(u)
    BY <2>1, StoppedIsCounted DEF Flood, Succeeds
  <2>2. CASE FloodFails(u, offer)
    BY <2>2, HandledIsCounted DEF FloodFails
  <2> QED
    BY <2>1, <2>2
<1>8. PICK r : /\ users' = [users EXCEPT ![u] = r] /\ Writes(u, r) /\ Agrees(u, cache[u], r, lost[u])
  <2>1. CASE Flood(u)
    BY <2>1, <1>6 DEF Flood, Stopped
  <2>2. CASE FloodFails(u, offer)
    <3>1. Handled(u, offer, users[u])
      BY <2>2 DEF FloodFails
    <3>2. PICK r : /\ users' = [users EXCEPT ![u] = r] /\ Writes(u, r)
                   /\ r.granted = users[u].granted /\ r.status = users[u].status
                   /\ users[u] # NoUserRow => r # NoUserRow
      BY <3>1, <1>6, HandledFacts
    <3> QED
      BY <3>2, <1>6, AgreesOn
  <2> QED
    BY <2>1, <2>2
<1>9. users' \in [Users -> UserRows] /\ RowsInv'
  BY <1>8, RowsStayTrue
<1>10. cache' \in [Users -> CachedStates] /\ CachedInv'
  <2>1. cache' = [cache EXCEPT ![u] = cache[u]] /\ lost' = [lost EXCEPT ![u] = lost[u]]
    BY <1>2 DEF AccessTypes
  <2> QED
    BY <2>1, <1>2, <1>8, CacheStaysTrue
<1>11. /\ {failed', pastLock', pastLimit'} \subseteq [Users -> Nat]
       /\ \A v \in Users : pastLock'[v] <= failed'[v] /\ pastLimit'[v] <= failed'[v]
  BY <1>7, CountsStayTrue
<1>12. AccessTypes'
  BY <1>2, <1>3, <1>9, <1>10, <1>11 DEF AccessTypes
<1>13. FloodsAreBounded'
  BY <1>2, <1>11 DEF FloodsAreBounded, Spread
<1> QED
  BY <1>5, <1>9, <1>10, <1>11, <1>12, <1>13 DEF LocksTakeEffect

\* A request of the Mini App reads the row, or makes one.
LEMMA OpenMiniAppKeeps ==
    ASSUME AccessInv, NEW u \in Users, OpenMiniApp(u)
    PROVE  AccessInv'
<1> USE DEF AccessInv
<1> DEFINE r == GetOrCreate(u)
<1>1. users' = [users EXCEPT ![u] = r] /\ Improved(u, r)
  BY CreatedIsImproved DEF OpenMiniApp
<1>2. UNCHANGED <<gateNow, gateRestarts, gate, accessCode, cache, hits, tries, blockedAt,
                  gateOffAt, log, guesses, failed, lost, pastLock, pastLimit>>
  BY DEF OpenMiniApp
<1>3. /\ r # NoUserRow
      /\ r = users[u] \/ (r.status = "active" /\ ~users[u].granted)
  <2>1. r # NoUserRow
    <3>1. r.status # "none"
      BY <1>1 DEF Improved
    <3> HIDE DEF r
    <3> QED
      BY <3>1, NewRowFacts
  <2>2. CASE users[u] = NoUserRow
    BY <2>1, <2>2, NewRowFacts DEF GetOrCreate
  <2>3. CASE users[u] # NoUserRow
    <3>1. r = users[u]
      BY <2>3 DEF GetOrCreate
    <3> QED
      BY <2>1, <3>1
  <2> QED
    BY <2>2, <2>3
<1>4. Agrees(u, cache[u], users[u], lost[u])
  BY CacheAgrees
<1> HIDE DEF r
<1>5. Agrees(u, cache[u], r, lost[u])
  BY <1>3, <1>4 DEF Agrees
<1>6. /\ users' \in [Users -> UserRows] /\ RowsInv' /\ CachedInv'
  <2>1. cache' = [cache EXCEPT ![u] = cache[u]] /\ lost' = [lost EXCEPT ![u] = lost[u]]
    BY <1>2 DEF AccessTypes
  <2> QED
    BY <2>1, <1>1, <1>2, <1>5, RowsStayTrue, CacheStaysTrue DEF Writes
<1>7. AccessTypes'
  BY <1>2, <1>6 DEF AccessTypes
<1> QED
  BY <1>2, <1>6, <1>7 DEF LimitersInv, Remembers, LocksTakeEffect, FloodsAreBounded

\* An administrator changes a status: a block is noted at its time.
LEMMA SetUserStatusKeeps ==
    ASSUME AccessInv, NEW u \in Users, NEW status \in {"active", "blocked"},
           SetUserStatus(u, status)
    PROVE  AccessInv'
<1> USE AccessBounds DEF AccessInv
<1>1. UNCHANGED <<gateNow, gateRestarts, gate, accessCode, cache, hits, tries, gateOffAt,
                  log, guesses, failed, lost, pastLock, pastLimit>>
  BY DEF SetUserStatus
<1>2. /\ users' \in [Users -> UserRows] /\ users'[u] = [users[u] EXCEPT !.status = status]
      /\ \A v \in Users : v # u => users'[v] = users[v]
  BY ZenonT(30) DEF SetUserStatus, AccessTypes, UserRows, Statuses
<1>3. /\ users'[u].status = status /\ users'[u].granted = users[u].granted
      /\ \A v \in Users : users'[v].code = users[v].code /\ users'[v].referrer = users[v].referrer
  <2>1. users[u] \in UserRows
    BY DEF AccessTypes
  <2>2. /\ users'[u].status = status /\ users'[u].granted = users[u].granted
        /\ users'[u].code = users[u].code /\ users'[u].referrer = users[u].referrer
    BY <1>2, <2>1 DEF UserRows
  <2> QED
    BY <1>2, <2>2
<1>4. /\ blockedAt' \in [Users -> {Never} \cup 0 .. gateNow]
      /\ \A v \in Users : v # u => blockedAt'[v] = blockedAt[v]
      /\ status = "blocked" => blockedAt'[u] = gateNow
  BY DEF SetUserStatus, AccessTypes
<1>5. users'[u] # NoUserRow /\ users[u] # NoUserRow
  BY <1>3, NewRowFacts DEF SetUserStatus
<1>6. RowsInv'
  <2>1. ASSUME NEW v \in Users  PROVE users'[v].status = "none" => users'[v] = NoUserRow
    <3>1. CASE v = u
      BY <3>1, <1>3
    <3>2. CASE v # u
      BY <3>2, <1>2 DEF RowsInv
    <3> QED
      BY <3>1, <3>2
  <2>2. ASSUME NEW v \in Users
        PROVE  /\ users'[v].referrer # v
               /\ users'[v].referrer # NoUser => users'[users'[v].referrer].code
    <3>1. users[v].referrer \in Users \cup {NoUser}
      BY DEF AccessTypes, UserRows
    <3> QED
      BY <3>1, <1>3 DEF RowsInv
  <2> QED
    BY <2>1, <2>2 DEF RowsInv
<1>7. CachedInv'
  <2>1. ASSUME NEW v \in Users
        PROVE  /\ cache[v].at \in {Never} \cup 0 .. gateNow
               /\ cache[v].at # Never =>
                    /\ IF cache[v].known THEN users'[v] # NoUserRow ELSE lost[v] >= cache[v].at
                    /\ cache[v].status = "active" /\ users'[v].status = "blocked" =>
                          blockedAt'[v] >= cache[v].at
                    /\ cache[v].granted /\ ~users'[v].granted /\ gate =>
                          gateOffAt >= cache[v].at \/ lost[v] >= cache[v].at
    <3>1. Agrees(v, cache[v], users[v], lost[v])
      BY CacheAgrees
    <3>2. CASE v # u
      BY <3>1, <3>2, <1>2, <1>4 DEF Agrees
    <3>3. CASE v = u
      BY <3>1, <3>3, <1>3, <1>4, <1>5 DEF Agrees, Never
    <3> QED
      BY <3>2, <3>3
  <2> QED
    BY <2>1, <1>1 DEF CachedInv
<1>8. AccessTypes'
  BY <1>1, <1>2, <1>4 DEF AccessTypes
<1> QED
  BY <1>1, <1>6, <1>7, <1>8, ZenonT(30) DEF LimitersInv, Remembers, LocksTakeEffect, FloodsAreBounded

\* The gate is switched, or its code changed.
LEMMA SetAccessSettingsKeeps ==
    ASSUME AccessInv, NEW code \in GlobalCodes, NEW enabled \in BOOLEAN,
           SetAccessSettings(code, enabled)
    PROVE  AccessInv'
<1> USE AccessBounds DEF AccessInv, SetAccessSettings
<1>1. gateOffAt' \in {Never} \cup 0 .. gateNow
  BY DEF AccessTypes
<1>2. ASSUME NEW v \in Users, cache[v].at # Never, cache[v].granted, ~users[v].granted
      PROVE  gateOffAt' >= cache[v].at \/ lost[v] >= cache[v].at
  <2>1. cache[v].at \in 0 .. gateNow
    BY <1>2 DEF CachedInv
  <2>2. CASE gate
    <3>1. gateOffAt' = gateOffAt
      BY <2>2
    <3> QED
      BY <1>2, <2>2, <3>1 DEF CachedInv
  <2>3. CASE ~gate
    BY <2>1, <2>3
  <2> QED
    BY <2>2, <2>3
<1>3. CachedInv'
  BY <1>2 DEF CachedInv
<1>4. AccessTypes'
  BY <1>1 DEF AccessTypes
<1> QED
  BY <1>3, <1>4 DEF RowsInv, LimitersInv, Remembers, LocksTakeEffect, FloodsAreBounded

\* Time passes.
LEMMA GateTickKeeps ==
    ASSUME AccessInv, GateTick
    PROVE  AccessInv'
<1> USE AccessBounds DEF AccessInv
<1>1. UNCHANGED <<gateRestarts, gate, accessCode, users, cache, hits, tries, blockedAt,
                  log, guesses, failed, lost, pastLock, pastLimit>>
  BY DEF GateTick
<1>2. /\ gateNow' = gateNow + 1 /\ gateNow' \in 0 .. MaxGateClock
      /\ 0 .. gateNow \subseteq 0 .. gateNow' /\ gateNow' \in 0 .. gateNow'
  BY AccessAssumption DEF GateTick, AccessTypes
<1>3. gateOffAt' \in {Never} \cup 0 .. gateNow' /\ (gate => gateOffAt' = gateOffAt)
  BY <1>2 DEF GateTick, AccessTypes
<1>4. AccessTypes'
  <2>1. blockedAt' \in [Users -> {Never} \cup 0 .. gateNow']
    BY <1>1, <1>2 DEF AccessTypes
  <2>2. /\ lost' \in [Users -> {Never} \cup 0 .. gateNow']
        /\ gateOffAt' \in {Never} \cup 0 .. gateNow'
    BY <1>1, <1>2, <1>3 DEF AccessTypes
  <2> QED
    BY <2>1, <2>2, <1>1, <1>2 DEF AccessTypes
<1>5. CachedInv'
  BY <1>1, <1>2, <1>3 DEF CachedInv
<1>6. LimitersInv'
  <2> SUFFICES ASSUME NEW v \in Users
      PROVE  /\ Remembers(hits[v], log[v], EventWindow)'
             /\ Remembers(tries[v], guesses[v], TryWindow)'
    BY DEF LimitersInv
  <2>1. ASSUME NEW q \in Seq(Nat), NEW l \in Seq(Nat), NEW w \in Nat, Remembers(q, l, w)
        PROVE  /\ Len(q) <= Len(l)
               /\ \A i \in 1 .. Len(q) : q[i] = l[Len(l) - Len(q) + i]
               /\ \A i \in 1 .. Len(l) - Len(q) : l[i] < gateNow' - w
               /\ \A i \in 1 .. Len(l) : l[i] <= gateNow'
               /\ \A i, j \in 1 .. Len(l) : i < j => l[i] <= l[j]
    <3>1. \A i \in 1 .. Len(l) : l[i] \in Nat
      BY SMTT(30)
    <3>2. \A i \in 1 .. Len(l) - Len(q) : i \in 1 .. Len(l)
      OBVIOUS
    <3>3. gateNow \in Nat /\ gateNow' = gateNow + 1
      BY <1>2
    <3>4. ASSUME NEW i \in 1 .. Len(l) - Len(q)  PROVE l[i] < gateNow' - w
      <4>1. l[i] \in Nat /\ l[i] < gateNow - w
        BY <2>1, <3>1, <3>2 DEF Remembers
      <4> QED
        BY <4>1, <3>3, SMTT(30)
    <3>5. ASSUME NEW i \in 1 .. Len(l)  PROVE l[i] <= gateNow'
      <4>1. l[i] \in Nat /\ l[i] <= gateNow
        BY <2>1, <3>1 DEF Remembers
      <4> QED
        BY <4>1, <3>3, SMTT(30)
    <3> QED
      BY <2>1, <3>4, <3>5 DEF Remembers
  <2>2. /\ Remembers(hits[v], log[v], EventWindow)
        /\ Remembers(tries[v], guesses[v], TryWindow)
    BY DEF LimitersInv
  <2>3. Remembers(hits[v], log[v], EventWindow)'
    BY <2>1, <2>2, <1>1 DEF Remembers
  <2>4. Remembers(tries[v], guesses[v], TryWindow)'
    BY <2>1, <2>2, <1>1 DEF Remembers
  <2> QED
    BY <2>3, <2>4
<1> QED
  BY <1>1, <1>4, <1>5, <1>6 DEF RowsInv, LocksTakeEffect, FloodsAreBounded

\* The bot starts again: it remembers nobody, and no event.
LEMMA GateRestartKeeps ==
    ASSUME AccessInv, GateRestart
    PROVE  AccessInv'
<1> USE AccessBounds DEF AccessInv
<1>1. /\ UNCHANGED <<gateNow, gate, accessCode, users, blockedAt, gateOffAt, failed, lost, pastLock, pastLimit>>
      /\ cache' = [u \in Users |-> NotCached]
      /\ \A u \in Users : hits'[u] = <<>> /\ tries'[u] = <<>> /\ log'[u] = <<>> /\ guesses'[u] = <<>>
      /\ {hits', tries', log', guesses'} \subseteq [Users -> Seq(Nat)]
  BY DEF GateRestart
<1>2. gateRestarts' \in 0 .. MaxGateRestarts
  BY AccessAssumption DEF GateRestart, AccessTypes
<1>3. cache' \in [Users -> CachedStates] /\ CachedInv'
  BY <1>1 DEF CachedInv, CachedStates, Statuses, NotCached, Never
<1>4. Len(<<>>) = 0 /\ \A i : i \notin 1 .. 0
  OBVIOUS
<1>5. LimitersInv'
  <2> SUFFICES ASSUME NEW v \in Users
      PROVE  /\ Remembers(hits[v], log[v], EventWindow)'
             /\ Remembers(tries[v], guesses[v], TryWindow)'
    BY DEF LimitersInv
  <2>1. hits'[v] = <<>> /\ log'[v] = <<>> /\ tries'[v] = <<>> /\ guesses'[v] = <<>>
    BY <1>1
  <2>2. 0 - 0 = 0 /\ 0 <= 0
    OBVIOUS
  <2> QED
    BY <2>1, <2>2, <1>4 DEF Remembers
<1>6. FloodsAreBounded'
  BY <1>1, <1>4, SMTT(30) DEF FloodsAreBounded, Spread
<1>7. AccessTypes'
  BY <1>1, <1>2, <1>3 DEF AccessTypes
<1> QED
  BY <1>1, <1>3, <1>5, <1>6, <1>7 DEF RowsInv, LocksTakeEffect

\* The invariant of what happens before every update: the rows, what the cache
\* may still say of them, and what the limiters remember.
THEOREM AccessInvariant == AccessSpec => []AccessInv
<1>1. AccessInv /\ [AccessNext]_accessVars => AccessInv'
  <2> SUFFICES ASSUME AccessInv, [AccessNext]_accessVars PROVE AccessInv'
    OBVIOUS
  <2> USE AccessBounds DEF AccessInv
  <2>1. ASSUME NEW u \in Actors, Update(u)  PROVE AccessInv'
    <3>1. u \in Users
      OBVIOUS
    <3>2. CASE \E offer \in Offers : \/ Flood(u) \/ FloodFails(u, offer)
      BY <3>1, <3>2, FloodKeeps
    <3>3. CASE \E offer \in Offers : \/ Blocked(u) \/ BlockedFails(u, offer)
                                    \/ PassCached(u, offer)
      BY <3>1, <3>3, StatusStepsKeep
    <3>4. CASE \E offer \in Offers : \/ PassGate(u, offer) \/ AskCode(u, offer)
                                    \/ AskCodeFails(u, offer) \/ GateFails(u, offer)
      BY <3>1, <3>4, GateStepsKeep
    <3>5. CASE \E offer \in Offers : TryCode(u, offer) \/ TryCodeFails(u, offer)
      BY <3>1, <3>5, CodeStepsKeep
    <3>6. CASE \E offer \in Offers : SyncFails(u, offer) \/ SyncCommitFails(u, offer)
      BY <3>1, <3>6, SyncFailsKeeps
    <3>7. CASE Flood(u)
      BY <3>1, <3>7, FloodKeeps
    <3>8. CASE Blocked(u)
      BY <3>1, <3>8, StatusStepsKeep
    <3> QED
      BY <2>1, <3>2, <3>3, <3>4, <3>5, <3>6, <3>7, <3>8 DEF Update
  <2>2. ASSUME NEW u \in Actors, OpenMiniApp(u)  PROVE AccessInv'
    BY <2>2, OpenMiniAppKeeps
  <2>3. ASSUME NEW u \in Actors, NEW status \in {"active", "blocked"}, SetUserStatus(u, status)
        PROVE  AccessInv'
    BY <2>3, SetUserStatusKeeps
  <2>4. ASSUME NEW code \in GlobalCodes, NEW enabled \in BOOLEAN, SetAccessSettings(code, enabled)
        PROVE  AccessInv'
    BY <2>4, SetAccessSettingsKeeps
  <2>5. CASE GateTick
    BY <2>5, GateTickKeeps
  <2>6. CASE GateRestart
    BY <2>6, GateRestartKeeps
  <2>7. CASE UNCHANGED accessVars
    BY <2>7 DEF accessVars, AccessTypes, RowsInv, CachedInv, LimitersInv, Remembers,
       LocksTakeEffect, FloodsAreBounded
  <2> QED
    BY <2>1, <2>2, <2>3, <2>4, <2>5, <2>6, <2>7 DEF AccessNext
<1> QED
  BY InitAccess, <1>1, PTL DEF AccessSpec

\* Whatever the delays and the failures: an update of a user who has been blocked,
\* or without access before a gate that is on, for Sync ticks reaches a handler
\* only where preprocess fails for that update; earlier failures, whose grants
\* or rows were rolled back after they were cached, let no later one through.
THEOREM LocksAreFelt == AccessSpec => []LocksTakeEffect
<1>1. AccessInv => LocksTakeEffect
  BY DEF AccessInv
<1> QED
  BY AccessInvariant, <1>1, PTL

\* In any window no more events are let through than the limit, for any limits
\* and whatever the gaps, and of those refused handlers see no more than the
\* refusals that could not be sent.
THEOREM FloodsAreHeld == AccessSpec => []FloodsAreBounded
<1>1. AccessInv => FloodsAreBounded
  BY DEF AccessInv
<1> QED
  BY AccessInvariant, <1>1, PTL

-----------------------------------------------------------------------------
(* What is spent: CardImages.                                               *)

\* The constants that the arithmetic below needs.
LEMMA CardsBounds ==
  /\ ImageCost \in Nat \ {0} /\ TextCosts \subseteq Nat /\ Budgets \subseteq Nat
  /\ TextBudget \in Nat /\ Week \in Nat /\ MaxCardClock \in Nat /\ Attempts \in Nat \ {0}
  /\ MaxTexts \in Nat /\ MaxCardActs \in Nat /\ MaxCrashes \in Nat
  /\ Welcome \notin Categories /\ Unset \notin Cards
  BY CardsAssumption

\* The ledger changes by a charge only, at a cost.
LEMMA CardsChange ==
  ASSUME [CardsNext]_cardsVars
  PROVE  \/ usage' = usage
         \/ usage' # usage /\ Store /\ cardNow' = cardNow
         \/ \E x \in {0, 1} : Refused(x)
         \/ \E p \in Providers, cost \in TextCosts : WriteText(p, cost)
  BY DEF CardsNext, cardsVars, store, StartTask, StopBatch, BeginCard, BeginWelcome, SkipWelcome,
     CardsCrash, CardTick, Generated, Retry, Hide, Regenerate, UploadFile, UploadCommit, SetBudget, Store

\* A charge adds to the weeks that are open.
LEMMA ChargeIsTyped ==
  ASSUME CardsTyped, NEW k \in Kinds, NEW cost \in Nat, Charge(k, cost)
  PROVE  /\ usage' \in [Kinds -> [0..MaxCardClock -> Nat]]
         /\ \A j \in Kinds : j # k => usage'[j] = usage[j]
         /\ \A s \in 0..MaxCardClock :
               usage'[k][s] = IF s <= cardNow /\ cardNow <= s + Week THEN usage[k][s] + cost ELSE usage[k][s]
<1> DEFINE charged == [s \in 0..MaxCardClock |->
                         IF s <= cardNow /\ cardNow <= s + Week THEN usage[k][s] + cost ELSE usage[k][s]]
<1>1. usage \in [Kinds -> [0..MaxCardClock -> Nat]]
      BY DEF CardsTyped
<1>2. usage[k] \in [0..MaxCardClock -> Nat]
      BY <1>1
<1>3. charged \in [0..MaxCardClock -> Nat]
  <2>1. \A s \in 0..MaxCardClock : usage[k][s] \in Nat
        BY <1>2
  <2>2. \A n \in Nat : n + cost \in Nat
        OBVIOUS
  <2>3. \A s \in 0..MaxCardClock :
           (IF s <= cardNow /\ cardNow <= s + Week THEN usage[k][s] + cost ELSE usage[k][s]) \in Nat
        BY <2>1, <2>2
  <2>4. QED BY <2>3
<1>4. usage' = [usage EXCEPT ![k] = charged]
      BY DEF Charge
<1>5. usage'[k] = charged
      BY <1>1, <1>4
<1>6. usage' \in [Kinds -> [0..MaxCardClock -> Nat]] /\ \A j \in Kinds : j # k => usage'[j] = usage[j]
  <2> HIDE DEF charged
  <2> QED BY <1>1, <1>3, <1>4
<1>7. QED BY <1>5, <1>6

\* Every step keeps the shape of rows, ledger and tasks.
LEMMA CardsAreTyped ==
  ASSUME CardsTyped, [CardsNext]_cardsVars
  PROVE  CardsTyped'
<1> USE CardsBounds
<1>k. "image" \in Kinds /\ "text" \in Kinds
      BY DEF Kinds
<1>1. usage' \in [Kinds -> [0..MaxCardClock -> Nat]]
  <2>1. CASE usage' = usage
        BY <2>1 DEF CardsTyped
  <2>2. CASE Store \/ \E x \in {0, 1} : Refused(x)
        BY <1>k, <2>2, ChargeIsTyped DEF Store, Refused, Ledger
  <2>3. CASE \E p \in Providers, cost \in TextCosts : WriteText(p, cost)
        BY <1>k, <2>3, ChargeIsTyped DEF WriteText
  <2>4. QED BY <2>1, <2>2, <2>3, CardsChange
<1>t. /\ \A c \in Cards : cardRows[c] \in CardRow /\ files[c] \in SUBSET Exts
      /\ {"png"} \subseteq Exts /\ {"png", "jpg"} = Exts
      BY DEF CardsTyped, Exts
<1>r. ASSUME NEW c \in Cards, NEW r \in CardRow, cardRows' = [cardRows EXCEPT ![c] = r]
      PROVE  cardRows' \in [Cards -> CardRow]
      BY <1>r DEF CardsTyped
<1>f. ASSUME NEW c \in Cards, NEW x \in SUBSET Exts, files' = [files EXCEPT ![c] = x]
      PROVE  files' \in [Cards -> SUBSET Exts]
      BY <1>f DEF CardsTyped
<1>w. WithoutShown \in [Cards -> SUBSET Exts]
      BY DEF CardsTyped, WithoutShown, Cards
<1>2. ASSUME StartTask PROVE CardsTyped'
      BY <1>1, <1>2 DEF CardsTyped, StartTask, admin, store
<1>3. ASSUME StopBatch PROVE CardsTyped'
      BY <1>1, <1>3 DEF CardsTyped, StopBatch, admin, store
<1>4. ASSUME NEW c \in Cards, Call(c), todo' \subseteq todo, pc = "batch",
             UNCHANGED <<cardNow, texts, admin, store, made, paid, recorded, crashes>>
      PROVE  CardsTyped'
  <2>1. c # Unset /\ 1 \in 0..Attempts
        OBVIOUS
  <2>2. QED BY <1>1, <1>4, <2>1 DEF CardsTyped, Call, admin, store
<1>5. ASSUME BeginCard \/ BeginWelcome PROVE CardsTyped'
  <2>1. \A i \in DOMAIN Deck : Deck[i] \in Cards
        BY CardsAssumption DEF Categories, Cards
  <2>2. Welcome \in Cards
        BY DEF Cards
  <2>3. QED BY <1>4, <1>5, <2>1, <2>2 DEF BeginCard, BeginWelcome
<1>6. ASSUME SkipWelcome \/ CardTick PROVE CardsTyped'
  <2>1. CASE SkipWelcome
        BY <1>1, <2>1 DEF CardsTyped, SkipWelcome, admin, store
  <2>2. CASE CardTick
    <3>1. cardNow' \in 0..MaxCardClock
          BY <2>2 DEF CardsTyped, CardTick
    <3>2. QED BY <1>1, <2>2, <3>1 DEF CardsTyped, CardTick, admin, task, store
  <2>3. QED BY <1>6, <2>1, <2>2
<1>7. ASSUME CardsCrash PROVE CardsTyped'
      BY <1>1, <1>7 DEF CardsTyped, CardsCrash, admin, store
<1>8. ASSUME NEW x \in Exts, Generated(x) PROVE CardsTyped'
  <2>1. x # Unset /\ card \in Cards
        BY <1>8 DEF CardsTyped, Generated, Exts, Unset
  <2>2. files' \in [Cards -> SUBSET Exts]
        BY <1>8, <1>f, <1>t, <2>1 DEF Generated
  <2>3. QED BY <1>1, <1>8, <2>1, <2>2 DEF CardsTyped, Generated, admin
<1>9. ASSUME NEW x \in {0, 1}, Retry(x) PROVE CardsTyped'
      BY <1>1, <1>9 DEF CardsTyped, Retry, Retries, admin, store
<1>10. ASSUME Store PROVE CardsTyped'
  <2>1. card \in Cards /\ made \in Exts
        BY <1>10 DEF CardsTyped, Store
  <2>2. cardRows' = [cardRows EXCEPT ![card] = [cardRows[card] EXCEPT !.status = "ready", !.path = made]]
        BY <1>10, <2>1 DEF CardsTyped, Store
  <2>3. [cardRows[card] EXCEPT !.status = "ready", !.path = made] \in CardRow
        BY <1>t, <2>1 DEF CardRow
  <2>4. cardRows' \in [Cards -> CardRow]
        BY <1>r, <2>1, <2>2, <2>3
  <2>5. QED BY <1>1, <1>10, <2>4, SMTT(30) DEF CardsTyped, Store, Ledger, Ended, admin
<1>11. ASSUME NEW x \in {0, 1}, Refused(x) PROVE CardsTyped'
  <2>1. card \in Cards
        BY <1>11 DEF CardsTyped, Refused
  <2> DEFINE r == [cardRows[card] EXCEPT !.status = IF card = Welcome THEN @ ELSE "failed"]
  <2>2. cardRows' = [cardRows EXCEPT ![card] = r]
        BY <1>11, <2>1 DEF CardsTyped, Refused
  <2>3. r \in CardRow
        BY <1>t, <2>1 DEF CardRow
  <2>4. cardRows' \in [Cards -> CardRow]
    <3> HIDE DEF r
    <3> QED BY <1>r, <2>1, <2>2, <2>3
  <2>5. /\ paid' \in Nat /\ recorded' \in Nat /\ attempt' \in 0..Attempts
        /\ pc' \in {"idle", "batch"} /\ card' = Unset /\ made' = Unset
    <3>1. x \in Nat /\ paid \in Nat /\ recorded \in Nat /\ 0 \in 0..Attempts
          BY DEF CardsTyped
    <3>2. paid' = paid + x /\ recorded' = recorded + 1 /\ attempt' = 0 /\ card' = Unset /\ made' = Unset
          BY <1>11 DEF Refused, Ledger, Ended
    <3>3. pc' \in {"idle", "batch"}
          BY <1>11 DEF Refused, Ended
    <3>4. paid' \in Nat /\ recorded' \in Nat
          BY <3>1, <3>2
    <3>5. QED BY <3>1, <3>2, <3>3, <3>4
  <2>6. UNCHANGED <<cardNow, texts, admin, files, todo, crashes>>
        BY <1>11 DEF Refused
  <2>7. QED BY <1>1, <2>4, <2>5, <2>6 DEF CardsTyped, admin
<1>12. ASSUME NEW c \in Cards, Hide(c) PROVE CardsTyped'
  <2> DEFINE r == [cardRows[c] EXCEPT !.hidden = ~@]
  <2>1. cardRows' = [cardRows EXCEPT ![c] = r]
        BY <1>12 DEF CardsTyped, Hide
  <2>2. r \in CardRow
        BY <1>t DEF CardRow
  <2>3. cardRows' \in [Cards -> CardRow]
    <3> HIDE DEF r
    <3> QED BY <1>r, <2>1, <2>2
  <2>4. /\ cardActs' \in 0..MaxCardActs /\ UNCHANGED <<cardNow, task, usage, files, budget>>
        /\ UNCHANGED <<uploading, topBudget, texts>>
        BY <1>12, CardsBounds, SMTT(30) DEF CardsTyped, Hide, CardAct
  <2>5. QED BY <2>3, <2>4 DEF CardsTyped, task
<1>13. ASSUME NEW c \in Cards, Regenerate(c) PROVE CardsTyped'
  <2> DEFINE r == [cardRows[c] EXCEPT !.status = Unset, !.path = Unset]
  <2>1. cardRows' = [cardRows EXCEPT ![c] = r]
        BY <1>13 DEF CardsTyped, Regenerate
  <2>2. r \in CardRow
        BY <1>t DEF CardRow
  <2>3. cardRows' \in [Cards -> CardRow]
    <3> HIDE DEF r
    <3> QED BY <1>r, <2>1, <2>2
  <2>4. files' \in [Cards -> SUBSET Exts]
        BY <1>13, <1>w DEF CardsTyped, Regenerate
  <2>5. /\ cardActs' \in 0..MaxCardActs
        /\ UNCHANGED <<cardNow, texts, task, budget, uploading, topBudget>>
    <3>1. UNCHANGED <<cardNow, texts, task, budget, uploading, topBudget>>
          BY <1>13 DEF Regenerate
    <3>2. cardActs < MaxCardActs /\ cardActs' = cardActs + 1
          BY <1>13 DEF Regenerate, CardAct
    <3>3. cardActs \in 0..MaxCardActs
          BY DEF CardsTyped
    <3>4. cardActs' \in 0..MaxCardActs
          BY <3>2, <3>3
    <3>5. QED BY <3>1, <3>4
  <2>6. QED BY <1>1, <2>3, <2>4, <2>5 DEF CardsTyped, task
<1>14. ASSUME NEW c \in Cards, UploadFile(c) PROVE CardsTyped'
  <2>1. files' \in [Cards -> SUBSET Exts]
        BY <1>14, <1>w, <1>t DEF CardsTyped, UploadFile
  <2>2. QED BY <1>1, <1>14, <2>1 DEF CardsTyped, UploadFile, CardAct, task
<1>15. ASSUME NEW c \in Cards, UploadCommit(c) PROVE CardsTyped'
  <2> DEFINE r == [cardRows[c] EXCEPT !.status = "ready", !.path = "png"]
  <2>1. cardRows' = [cardRows EXCEPT ![c] = r]
        BY <1>15 DEF CardsTyped, UploadCommit, Uploaded
  <2>2. r \in CardRow
        BY <1>t DEF CardRow
  <2>3. cardRows' \in [Cards -> CardRow]
    <3> HIDE DEF r
    <3> QED BY <1>r, <2>1, <2>2
  <2>4. QED BY <1>1, <1>15, <2>3 DEF CardsTyped, UploadCommit, task
<1>16. ASSUME NEW b \in Budgets, SetBudget(b) PROVE CardsTyped'
      BY <1>1, <1>16 DEF CardsTyped, SetBudget, CardAct, task, store
<1>17. ASSUME NEW p \in Providers, NEW cost \in TextCosts, WriteText(p, cost) PROVE CardsTyped'
      BY <1>1, <1>17 DEF CardsTyped, WriteText, admin, task
<1>18. CASE UNCHANGED cardsVars
      BY <1>18 DEF CardsTyped, cardsVars, admin, task, store
<1>19. QED BY <1>2, <1>3, <1>5, <1>6, <1>7, <1>8, <1>9, <1>10, <1>11, <1>12, <1>13, <1>14,
              <1>15, <1>16, <1>17, <1>18 DEF CardsNext

\* A charge counts in every week it falls into, of those that are not over.
LEMMA ChargesNest ==
  ASSUME CardsTyped, WeeksNest, NEW kind \in Kinds, NEW cost \in Nat, Charge(kind, cost), cardNow' = cardNow
  PROVE  WeeksNest'
<1> SUFFICES ASSUME NEW k \in Kinds, NEW s \in 0..MaxCardClock, NEW t \in 0..MaxCardClock,
                    s <= t, cardNow <= s + Week
             PROVE  usage'[k][t] <= usage'[k][s]
    BY DEF WeeksNest
<1>1. usage[k][t] <= usage[k][s]
      BY DEF WeeksNest
<1>2. CASE k # kind
      BY <1>1, <1>2, ChargeIsTyped
<1>3. CASE k = kind
  <2>1. /\ usage'[k][t] = IF t <= cardNow /\ cardNow <= t + Week THEN usage[k][t] + cost ELSE usage[k][t]
        /\ usage'[k][s] = IF s <= cardNow /\ cardNow <= s + Week THEN usage[k][s] + cost ELSE usage[k][s]
        BY <1>3, ChargeIsTyped
  <2>2. usage[k][t] \in Nat /\ usage[k][s] \in Nat
        BY DEF CardsTyped
  <2>3. t <= cardNow => s <= cardNow
        BY DEF CardsTyped
  <2>4. QED BY <1>1, <2>1, <2>2, <2>3
<1>4. QED BY <1>2, <1>3

\* A week begun earlier, of those that hold the present, is charged no less.
LEMMA WeeksStayNested ==
  ASSUME CardsTyped, WeeksNest, [CardsNext]_cardsVars
  PROVE  WeeksNest'
<1>k. "image" \in Kinds /\ "text" \in Kinds
      BY DEF Kinds
<1>c. 0 \in Nat /\ ImageCost \in Nat /\ TextCosts \subseteq Nat
      BY CardsBounds
<1>1. ASSUME Store \/ (\E x \in {0, 1} : Refused(x)) PROVE WeeksNest'
      BY <1>1, <1>k, <1>c, ChargesNest DEF Store, Refused, Ledger
<1>2. ASSUME NEW p \in Providers, NEW cost \in TextCosts, WriteText(p, cost) PROVE WeeksNest'
      BY <1>2, <1>k, <1>c, ChargesNest DEF WriteText
<1>3. ASSUME usage' = usage, cardNow' = cardNow PROVE WeeksNest'
      BY <1>3 DEF WeeksNest
<1>4. ASSUME CardTick PROVE WeeksNest'
  <2>1. usage' = usage /\ cardNow' = cardNow + 1 /\ cardNow \in Nat
        BY <1>4 DEF CardTick, store, CardsTyped
  <2>2. \A s \in 0..MaxCardClock : cardNow + 1 <= s + Week => cardNow <= s + Week
        BY <2>1, CardsBounds
  <2>3. QED BY <2>1, <2>2 DEF WeeksNest
<1>5. ASSUME \/ StartTask \/ StopBatch \/ BeginCard \/ BeginWelcome \/ SkipWelcome \/ CardsCrash
             \/ \E x \in Exts : Generated(x)
             \/ \E x \in {0, 1} : Retry(x)
      PROVE  WeeksNest'
  <2>1. usage' = usage /\ cardNow' = cardNow
        BY <1>5 DEF store, StartTask, StopBatch, BeginCard, BeginWelcome, SkipWelcome, CardsCrash,
           Generated, Retry
  <2>2. QED BY <1>3, <2>1
<1>6. ASSUME \/ \E c \in Cards : Hide(c) \/ Regenerate(c) \/ UploadFile(c) \/ UploadCommit(c)
             \/ \E b \in Budgets : SetBudget(b)
      PROVE  WeeksNest'
  <2>1. usage' = usage /\ cardNow' = cardNow
        BY <1>6 DEF store, Hide, Regenerate, UploadFile, UploadCommit, SetBudget
  <2>2. QED BY <1>3, <2>1
<1>7. CASE UNCHANGED cardsVars
      BY <1>3, <1>7 DEF cardsVars, store
<1>8. QED BY <1>1, <1>2, <1>4, <1>5, <1>6, <1>7 DEF CardsNext

\* No week that is not over has more charged to it than the one that ends now.
LEMMA SpentIsMost ==
  ASSUME CardsTyped, WeeksNest, NEW k \in Kinds
  PROVE  /\ Spent(k) \in Nat
         /\ \A t \in 0..MaxCardClock : cardNow <= t + Week => usage[k][t] <= Spent(k)
<1> DEFINE w == IF cardNow < Week THEN 0 ELSE cardNow - Week
<1>1. w \in 0..MaxCardClock /\ cardNow <= w + Week
      BY CardsBounds DEF CardsTyped
<1>2. \A t \in 0..MaxCardClock : cardNow <= t + Week => w <= t
      BY CardsBounds DEF CardsTyped
<1>3. Spent(k) = usage[k][w]
      BY DEF Spent
<1> HIDE DEF w
<1>4. usage[k][w] \in Nat
      BY <1>1 DEF CardsTyped
<1>5. QED BY <1>1, <1>2, <1>3, <1>4 DEF WeeksNest

\* What the batch and the banner were found to fit into.
LEMMA AffordedFits ==
  ASSUME CardsTyped, WeeksNest, ImageFits, Spent("image") + ImageCost <= budget
  PROVE  \A t \in 0..MaxCardClock :
            cardNow <= t + Week => usage["image"][t] + ImageCost <= topBudget
<1> SUFFICES ASSUME NEW t \in 0..MaxCardClock, cardNow <= t + Week
             PROVE  usage["image"][t] + ImageCost <= topBudget
    OBVIOUS
<1>1. "image" \in Kinds
      BY DEF Kinds
<1>2. Spent("image") \in Nat /\ usage["image"][t] <= Spent("image")
      BY <1>1, SpentIsMost
<1>3. usage["image"][t] \in Nat
      BY <1>1 DEF CardsTyped
<1>4. ImageCost \in Nat /\ budget \in Nat /\ topBudget \in Nat /\ budget <= topBudget
      BY CardsBounds DEF CardsTyped, ImageFits
<1>5. QED BY <1>2, <1>3, <1>4

\* An image that was started fits until it is charged, whatever is done to the
\* budget; and what is charged stays within the highest one.
LEMMA ImagesFit ==
  ASSUME CardsTyped, WeeksNest, ImageFits, [CardsNext]_cardsVars,
         \A s \in 0..MaxCardClock : usage["image"][s] <= topBudget
  PROVE  ImageFits' /\ \A s \in 0..MaxCardClock : usage'["image"][s] <= topBudget'
<1> DEFINE Bounded == \A s \in 0..MaxCardClock : usage["image"][s] <= topBudget
           Fits == \A t \in 0..MaxCardClock : cardNow <= t + Week => usage["image"][t] + ImageCost <= topBudget
<1>k. "image" \in Kinds /\ "text" \in Kinds
      BY DEF Kinds
<1>n. /\ ImageCost \in Nat /\ budget \in Nat /\ topBudget \in Nat /\ cardNow \in Nat /\ Week \in Nat
      /\ \A s \in 0..MaxCardClock : usage["image"][s] \in Nat
      BY <1>k, CardsBounds DEF CardsTyped
<1>b. Bounded /\ budget <= topBudget
      BY DEF ImageFits
<1>p. pc \in {"call", "store"} => Fits
      BY DEF ImageFits
<1> HIDE DEF Bounded, Fits
<1>1. ASSUME UNCHANGED <<budget, topBudget, cardNow, usage>>, pc' \in {"call", "store"} => Fits
      PROVE  ImageFits' /\ Bounded'
  <2>1. Bounded'
        BY <1>1, <1>b DEF Bounded
  <2>2. ImageFits'
        BY <1>1, <1>b DEF ImageFits, Fits
  <2>3. QED BY <2>1, <2>2
<1>2. ASSUME \/ StartTask \/ StopBatch \/ SkipWelcome \/ CardsCrash
             \/ \E x \in Exts : Generated(x)
             \/ \E x \in {0, 1} : Retry(x)
             \/ \E c \in Cards : Hide(c) \/ Regenerate(c) \/ UploadFile(c) \/ UploadCommit(c)
      PROVE  ImageFits' /\ Bounded'
  <2>1. /\ UNCHANGED <<budget, topBudget, cardNow, usage>>
        /\ pc' \in {"call", "store"} => pc \in {"call", "store"}
    <3>1. CASE \/ StartTask \/ StopBatch \/ SkipWelcome \/ CardsCrash
          BY <3>1 DEF StartTask, StopBatch, SkipWelcome, CardsCrash, store, admin
    <3>2. CASE (\E x \in Exts : Generated(x)) \/ \E x \in {0, 1} : Retry(x)
          BY <3>2 DEF Generated, Retry, store, admin
    <3>3. CASE \E c \in Cards : Hide(c) \/ Regenerate(c) \/ UploadFile(c) \/ UploadCommit(c)
          BY <3>3 DEF Hide, Regenerate, UploadFile, UploadCommit, task
    <3>4. QED BY <1>2, <3>1, <3>2, <3>3
  <2>2. QED BY <1>1, <1>p, <2>1
<1>3. ASSUME BeginCard \/ BeginWelcome PROVE ImageFits' /\ Bounded'
  <2>1. UNCHANGED <<budget, topBudget, cardNow, usage>>
        BY <1>3 DEF BeginCard, BeginWelcome, store, admin
  <2>2. Spent("image") \in Nat /\ Spent("text") \in Nat
        BY <1>k, SpentIsMost
  <2>3. Spent("image") + ImageCost <= budget
    <3>1. CASE BeginWelcome
          BY <3>1 DEF BeginWelcome, Affordable
    <3>2. CASE BeginCard
      <4>1. Spent("image") + Spent("text") + ImageCost <= budget
            BY <3>2 DEF BeginCard, SpentAtAll
      <4>2. \A i, t, n, b \in Nat : i + t + n <= b => i + n <= b
            OBVIOUS
      <4>3. QED BY <1>n, <2>2, <4>1, <4>2
    <3>3. QED BY <1>3, <3>1, <3>2
  <2>4. Fits
        BY <2>3, AffordedFits DEF Fits
  <2>5. QED BY <1>1, <2>1, <2>4
<1>4. ASSUME Store PROVE ImageFits' /\ Bounded'
  <2>1. UNCHANGED <<budget, topBudget, cardNow>> /\ pc = "store" /\ pc' \notin {"call", "store"}
        BY <1>4 DEF Store, Ended, admin
  <2>2. \A s \in 0..MaxCardClock :
           usage'["image"][s] = IF s <= cardNow /\ cardNow <= s + Week THEN usage["image"][s] + ImageCost
                                                                         ELSE usage["image"][s]
        BY <1>4, <1>k, <1>n, ChargeIsTyped DEF Store, Ledger
  <2>3. \A s \in 0..MaxCardClock : usage'["image"][s] <= topBudget
        BY <1>b, <1>p, <2>1, <2>2 DEF Bounded, Fits
  <2>4. QED BY <1>b, <2>1, <2>3 DEF ImageFits, Bounded
<1>5. ASSUME NEW x \in {0, 1}, Refused(x) PROVE ImageFits' /\ Bounded'
  <2>1. UNCHANGED <<budget, topBudget, cardNow>> /\ pc' \notin {"call", "store"}
        BY <1>5 DEF Refused, Ended, admin
  <2>2. \A s \in 0..MaxCardClock :
           usage'["image"][s] = IF s <= cardNow /\ cardNow <= s + Week THEN usage["image"][s] + 0
                                                                         ELSE usage["image"][s]
        BY <1>5, <1>k, ChargeIsTyped DEF Refused, Ledger
  <2>3. \A s \in 0..MaxCardClock : usage'["image"][s] <= topBudget
        BY <1>b, <1>n, <2>2 DEF Bounded
  <2>4. QED BY <1>b, <2>1, <2>3 DEF ImageFits, Bounded
<1>6. ASSUME NEW b \in Budgets, SetBudget(b) PROVE ImageFits' /\ Bounded'
  <2>1. /\ budget' = b /\ topBudget' = IF b > topBudget THEN b ELSE topBudget
        /\ UNCHANGED <<cardNow, usage, pc>>
        BY <1>6 DEF SetBudget, task, store
  <2>2. b \in Nat
        BY CardsBounds
  <2>3. topBudget' \in Nat /\ topBudget <= topBudget' /\ budget' <= topBudget'
        BY <1>n, <2>1, <2>2
  <2>4. Bounded'
        BY <1>b, <1>n, <2>1, <2>3 DEF Bounded
  <2>5. pc' \in {"call", "store"} => Fits'
    <3> SUFFICES ASSUME pc' \in {"call", "store"}, NEW t \in 0..MaxCardClock, cardNow' <= t + Week
                 PROVE  usage'["image"][t] + ImageCost <= topBudget'
        BY DEF Fits
    <3>1. usage["image"][t] + ImageCost <= topBudget
          BY <1>p, <2>1 DEF Fits
    <3>2. usage["image"][t] + ImageCost \in Nat
          BY <1>n
    <3>3. QED BY <1>n, <2>1, <2>3, <3>1, <3>2
  <2>6. QED BY <2>3, <2>4, <2>5 DEF ImageFits, Fits
<1>7. ASSUME NEW p \in Providers, NEW cost \in TextCosts, WriteText(p, cost) PROVE ImageFits' /\ Bounded'
  <2>1. UNCHANGED <<budget, topBudget, cardNow, pc>>
        BY <1>7 DEF WriteText, admin, task
  <2>2. usage'["image"] = usage["image"]
        BY <1>7, <1>k, CardsBounds, ChargeIsTyped DEF WriteText
  <2>3. QED BY <1>b, <1>p, <2>1, <2>2 DEF ImageFits, Bounded, Fits
<1>8. ASSUME CardTick PROVE ImageFits' /\ Bounded'
  <2>1. UNCHANGED <<budget, topBudget, usage, pc>> /\ cardNow' = cardNow + 1
        BY <1>8 DEF CardTick, admin, task, store
  <2>2. \A t \in 0..MaxCardClock : cardNow' <= t + Week => cardNow <= t + Week
        BY <1>n, <2>1
  <2>3. QED BY <1>b, <1>p, <2>1, <2>2 DEF ImageFits, Bounded, Fits
<1>9. ASSUME UNCHANGED cardsVars PROVE ImageFits' /\ Bounded'
  <2>1. UNCHANGED <<budget, topBudget, cardNow, usage, pc>>
        BY <1>9 DEF cardsVars, admin, task, store
  <2>2. QED BY <1>1, <1>p, <2>1
<1>10. ImageFits' /\ Bounded'
      BY <1>2, <1>3, <1>4, <1>5, <1>6, <1>7, <1>8, <1>9 DEF CardsNext
<1>11. QED BY <1>10 DEF Bounded

\* Texts overrun their budget by less than one text.
TextsFit ==
  TextBudget > 0 => \A s \in 0..MaxCardClock, c \in TextCosts :
     (\A d \in TextCosts : d <= c) => usage["text"][s] < TextBudget + (IF c = 0 THEN 1 ELSE c)

\* A text is asked for only while the week has something left.
LEMMA TextsStayBounded ==
  ASSUME CardsTyped, WeeksNest, TextsFit, [CardsNext]_cardsVars
  PROVE  TextsFit'
<1>k. "image" \in Kinds /\ "text" \in Kinds /\ "image" # "text"
      BY DEF Kinds
<1>1. ASSUME usage'["text"] = usage["text"] PROVE TextsFit'
      BY <1>1 DEF TextsFit
<1>2. ASSUME NEW p \in Providers, NEW cost \in TextCosts, WriteText(p, cost) PROVE TextsFit'
  <2> SUFFICES ASSUME TextBudget > 0, NEW s \in 0..MaxCardClock, NEW c \in TextCosts,
                      \A d \in TextCosts : d <= c
               PROVE  usage'["text"][s] < TextBudget + (IF c = 0 THEN 1 ELSE c)
      BY DEF TextsFit
  <2>1. usage["text"][s] < TextBudget + (IF c = 0 THEN 1 ELSE c)
        BY DEF TextsFit
  <2>2. cost \in Nat /\ c \in Nat /\ cost <= c /\ TextBudget \in Nat
        BY CardsBounds
  <2>3. usage'["text"][s] = IF s <= cardNow /\ cardNow <= s + Week THEN usage["text"][s] + cost
                                                                    ELSE usage["text"][s]
        BY <1>2, <1>k, <2>2, ChargeIsTyped DEF WriteText
  <2>4. CASE s <= cardNow /\ cardNow <= s + Week
    <3>1. usage["text"][s] <= Spent("text") /\ Spent("text") \in Nat
          BY <1>k, <2>4, SpentIsMost
    <3>2. usage["text"][s] \in Nat
          BY <1>k DEF CardsTyped
    <3>3. Spent("text") < TextBudget \/ Spent("text") + cost <= TextBudget
          BY <1>2 DEF WriteText, TextAllowed
    <3>4. \A u, n, b, x, y \in Nat : u <= n /\ x <= y /\ (n < b \/ n + x <= b)
                                      => u + x < b + (IF y = 0 THEN 1 ELSE y)
          OBVIOUS
    <3>5. usage["text"][s] + cost < TextBudget + (IF c = 0 THEN 1 ELSE c)
          BY <2>2, <3>1, <3>2, <3>3, <3>4
    <3>6. QED BY <2>3, <2>4, <3>5
  <2>5. QED BY <2>1, <2>3, <2>4
<1>3. ASSUME Store \/ (\E x \in {0, 1} : Refused(x)) PROVE TextsFit'
  <2>1. usage'["text"] = usage["text"]
        BY <1>3, <1>k, CardsBounds, ChargeIsTyped DEF Store, Refused, Ledger
  <2>2. QED BY <1>1, <2>1
<1>4. ASSUME \/ StartTask \/ StopBatch \/ BeginCard \/ BeginWelcome \/ SkipWelcome \/ CardsCrash \/ CardTick
             \/ \E x \in Exts : Generated(x)
             \/ \E x \in {0, 1} : Retry(x)
      PROVE  TextsFit'
  <2>1. usage' = usage
        BY <1>4 DEF store, StartTask, StopBatch, BeginCard, BeginWelcome, SkipWelcome, CardsCrash, CardTick,
           Generated, Retry
  <2>2. QED BY <1>1, <2>1
<1>5. ASSUME \/ \E c \in Cards : Hide(c) \/ Regenerate(c) \/ UploadFile(c) \/ UploadCommit(c)
             \/ \E b \in Budgets : SetBudget(b)
      PROVE  TextsFit'
  <2>1. usage' = usage
        BY <1>5 DEF store, Hide, Regenerate, UploadFile, UploadCommit, SetBudget
  <2>2. QED BY <1>1, <2>1
<1>6. CASE UNCHANGED cardsVars
      BY <1>1, <1>6 DEF cardsVars, store
<1>7. QED BY <1>2, <1>3, <1>4, <1>5, <1>6 DEF CardsNext

\* What Google may bill for the call under way.
UnderWay == CASE pc = "call" -> attempt - 1 [] pc = "store" -> Attempts [] OTHER -> 0

\* It is known from where the task stands.
LEMMA UnderWayIs ==
  ASSUME CardsTyped, CallsAreCounted
  PROVE  /\ UnderWay \in Nat /\ UnderWay <= Attempts
         /\ pc = "call" => UnderWay = attempt - 1 /\ attempt \in 1..Attempts
         /\ pc = "store" => UnderWay = Attempts
         /\ pc \notin {"call", "store"} => UnderWay = 0
<1>1. attempt \in 0..Attempts /\ Attempts \in Nat /\ (pc = "call" => attempt > 0)
      BY CardsBounds DEF CardsTyped, CallsAreCounted
<1>2. CASE pc = "call"
  <2>1. UnderWay = attempt - 1
        BY <1>2 DEF UnderWay
  <2>2. QED BY <1>1, <1>2, <2>1
<1>3. CASE pc = "store"
  <2>1. UnderWay = Attempts
        BY <1>3 DEF UnderWay
  <2>2. QED BY <1>1, <1>3, <2>1
<1>4. CASE pc \notin {"call", "store"}
  <2>1. UnderWay = 0
        BY <1>4 DEF UnderWay
  <2>2. QED BY <1>1, <1>4, <2>1
<1>5. QED BY <1>2, <1>3, <1>4

\* Each step pays for what it has Google bill: the next attempt, a row, a crash.
LEMMA CallsStayCounted ==
  ASSUME CardsTyped, CallsAreCounted, [CardsNext]_cardsVars
  PROVE  CallsAreCounted'
<1> DEFINE rows == recorded + crashes
<1>n. /\ paid \in Nat /\ recorded \in Nat /\ crashes \in Nat /\ Attempts \in Nat \ {0} /\ rows \in Nat
      /\ attempt \in 0..Attempts
      BY CardsBounds DEF CardsTyped
<1>i. paid <= Attempts * rows + UnderWay
      BY DEF CallsAreCounted, UnderWay
<1>u. /\ UnderWay \in Nat /\ UnderWay <= Attempts
      /\ pc = "call" => UnderWay = attempt - 1 /\ attempt \in 1..Attempts
      /\ pc = "store" => UnderWay = Attempts
      /\ pc \notin {"call", "store"} => UnderWay = 0
      BY UnderWayIs
<1>m. Attempts * rows \in Nat /\ Attempts * (rows + 1) = Attempts * rows + Attempts
      BY <1>n
<1>g. CallsAreCounted' <=> /\ pc' = "call" => attempt' > 0
                           /\ paid' <= Attempts * (recorded' + crashes') + UnderWay'
      BY DEF CallsAreCounted, UnderWay
<1> HIDE DEF rows
<1>1. ASSUME UNCHANGED <<paid, recorded, crashes>>, pc \notin {"call", "store"},
             \/ pc' \notin {"call", "store"}
             \/ pc' = "call" /\ attempt' = 1
      PROVE  CallsAreCounted'
  <2>1. UnderWay' = 0
        BY <1>1 DEF UnderWay
  <2>2. recorded' + crashes' = rows
        BY <1>1 DEF rows
  <2>3. paid' <= Attempts * (recorded' + crashes') + UnderWay'
        BY <1>1, <1>i, <1>m, <1>u, <2>1, <2>2
  <2>4. QED BY <1>1, <1>g, <2>3
<1>2. ASSUME StartTask \/ StopBatch \/ BeginCard \/ BeginWelcome \/ SkipWelcome PROVE CallsAreCounted'
  <2>1. UNCHANGED <<paid, recorded, crashes>>
        BY <1>2 DEF StartTask, StopBatch, BeginCard, BeginWelcome, SkipWelcome
  <2>2. pc \notin {"call", "store"}
        BY <1>2 DEF StartTask, StopBatch, BeginCard, BeginWelcome, SkipWelcome
  <2>3. \/ pc' \notin {"call", "store"}
        \/ pc' = "call" /\ attempt' = 1
        BY <1>2 DEF StartTask, StopBatch, BeginCard, BeginWelcome, SkipWelcome, Call
  <2>4. QED BY <1>1, <2>1, <2>2, <2>3
<1>3. ASSUME NEW x \in Exts, Generated(x) PROVE CallsAreCounted'
  <2>1. /\ pc = "call" /\ pc' = "store" /\ paid' = paid + 1
        /\ UNCHANGED <<recorded, crashes>>
        BY <1>3 DEF Generated
  <2>2. UnderWay' = Attempts
        BY <2>1 DEF UnderWay
  <2>3. recorded' + crashes' = rows
        BY <2>1 DEF rows
  <2>4. paid' <= Attempts * (recorded' + crashes') + UnderWay'
        BY <1>n, <1>i, <1>m, <1>u, <2>1, <2>2, <2>3
  <2>5. QED BY <1>g, <2>1, <2>4
<1>4. ASSUME NEW x \in {0, 1}, Retry(x) PROVE CallsAreCounted'
  <2>1. /\ pc = "call" /\ attempt < Attempts /\ attempt' = attempt + 1 /\ paid' = paid + x
        /\ UNCHANGED <<pc, recorded, crashes>>
        BY <1>4 DEF Retry, Retries
  <2>2. UnderWay' = attempt'- 1
        BY <2>1 DEF UnderWay
  <2>3. recorded' + crashes' = rows
        BY <2>1 DEF rows
  <2>4. paid' <= Attempts * (recorded' + crashes') + UnderWay'
        BY <1>n, <1>i, <1>m, <1>u, <2>1, <2>2, <2>3
  <2>5. attempt' > 0
        BY <1>n, <2>1
  <2>6. QED BY <1>g, <2>4, <2>5
<1>5. ASSUME recorded' + crashes' = rows + 1, pc' \notin {"call", "store"}, paid' <= Attempts * rows + Attempts
      PROVE  CallsAreCounted'
  <2>1. UnderWay' = 0
        BY <1>5 DEF UnderWay
  <2>2. paid' <= Attempts * (recorded' + crashes') + UnderWay'
        BY <1>m, <1>n, <1>5, <2>1
  <2>3. QED BY <1>5, <1>g, <2>2
<1>6. ASSUME Store PROVE CallsAreCounted'
  <2>1. paid' = paid /\ recorded' = recorded + 1 /\ crashes' = crashes /\ pc' \notin {"call", "store"}
        BY <1>6 DEF Store, Ledger, Ended
  <2>2. paid' <= Attempts * rows + Attempts
        BY <1>n, <1>i, <1>m, <1>u, <2>1
  <2>3. recorded' + crashes' = rows + 1
        BY <1>n, <2>1 DEF rows
  <2>4. QED BY <1>5, <2>1, <2>2, <2>3
<1>7. ASSUME NEW x \in {0, 1}, Refused(x) PROVE CallsAreCounted'
  <2>1. paid' = paid + x /\ recorded' = recorded + 1 /\ crashes' = crashes /\ pc' \notin {"call", "store"}
        BY <1>7 DEF Refused, Ledger, Ended
  <2>2. pc = "call"
        BY <1>7 DEF Refused
  <2>3. paid' <= Attempts * rows + Attempts
        BY <1>n, <1>i, <1>m, <1>u, <2>1, <2>2
  <2>4. recorded' + crashes' = rows + 1
        BY <1>n, <2>1 DEF rows
  <2>5. QED BY <1>5, <2>1, <2>3, <2>4
<1>8. ASSUME CardsCrash PROVE CallsAreCounted'
  <2>1. paid' = paid /\ recorded' = recorded /\ crashes' = crashes + 1 /\ pc' \notin {"call", "store"}
        BY <1>8 DEF CardsCrash
  <2>2. paid' <= Attempts * rows + Attempts
        BY <1>n, <1>i, <1>m, <1>u, <2>1
  <2>3. recorded' + crashes' = rows + 1
        BY <1>n, <2>1 DEF rows
  <2>4. QED BY <1>5, <2>1, <2>2, <2>3
<1>9. ASSUME UNCHANGED task PROVE CallsAreCounted'
      BY <1>9 DEF task, CallsAreCounted
<1>10. ASSUME \/ CardTick
              \/ \E c \in Cards : Hide(c) \/ Regenerate(c) \/ UploadFile(c) \/ UploadCommit(c)
              \/ \E b \in Budgets : SetBudget(b)
              \/ \E p \in Providers, cost \in TextCosts : WriteText(p, cost)
       PROVE  CallsAreCounted'
  <2>1. UNCHANGED task
        BY <1>10 DEF CardTick, Hide, Regenerate, UploadFile, UploadCommit, SetBudget, WriteText
  <2>2. QED BY <1>9, <2>1
<1>11. CASE UNCHANGED cardsVars
       BY <1>9, <1>11 DEF cardsVars
<1>12. QED BY <1>2, <1>3, <1>4, <1>6, <1>7, <1>8, <1>10, <1>11 DEF CardsNext

\* What was counted is what EveryCallIsRecorded says.
LEMMA CountedIsRecorded ==
  ASSUME CardsTyped, CallsAreCounted
  PROVE  EveryCallIsRecorded
<1> DEFINE rows == recorded + crashes
<1>1. paid \in Nat /\ rows \in Nat /\ Attempts \in Nat \ {0}
      BY CardsBounds DEF CardsTyped
<1>2. paid <= Attempts * rows + UnderWay
      BY DEF CallsAreCounted, UnderWay
<1>3. Attempts * rows \in Nat /\ Attempts * (rows + 1) = Attempts * rows + Attempts
      BY <1>1
<1>4. UnderWay \in Nat /\ UnderWay <= Attempts /\ (pc \notin {"call", "store"} => UnderWay = 0)
      BY UnderWayIs
<1>5. EveryCallIsRecorded <=> paid <= Attempts * (rows + (IF pc \in {"call", "store"} THEN 1 ELSE 0))
      BY DEF EveryCallIsRecorded
<1> HIDE DEF rows
<1>6. CASE pc \in {"call", "store"}
  <2>1. paid <= Attempts * (rows + 1)
        BY <1>1, <1>2, <1>3, <1>4
  <2>2. QED BY <1>5, <1>6, <2>1
<1>7. CASE pc \notin {"call", "store"}
  <2>1. rows + 0 = rows /\ paid <= Attempts * rows
        BY <1>1, <1>2, <1>3, <1>4, <1>7
  <2>2. QED BY <1>5, <1>7, <2>1
<1>8. QED BY <1>6, <1>7

\* The files of categories stay; a path is set once its file is there.
LEMMA FilesStayThere ==
  ASSUME CardsTyped, FilesAreThere, [CardsNext]_cardsVars
  PROVE  FilesAreThere'
<1>t. /\ Categories \subseteq Cards /\ Welcome \in Cards /\ Welcome \notin Categories /\ Unset \notin Cards
      /\ cardRows \in [Cards -> CardRow] /\ files \in [Cards -> SUBSET Exts]
      BY CardsBounds DEF Cards, CardsTyped
<1>f. /\ \A c \in Categories : cardRows[c].path # Unset => cardRows[c].path \in files[c]
      /\ pc = "store" /\ card \in Categories => made \in files[card]
      /\ \A c \in uploading \cap Categories : "png" \in files[c]
      BY DEF FilesAreThere
<1>1. ASSUME \A c \in Categories : files[c] \subseteq files'[c],
             \A c \in Categories : \/ cardRows'[c].path = Unset
                                  \/ cardRows'[c].path = cardRows[c].path
                                  \/ cardRows'[c].path \in files[c],
             pc' = "store" /\ card' \in Categories =>
                \/ pc = "store" /\ card' = card /\ made' = made
                \/ made' \in files'[card'],
             \A c \in uploading' \cap Categories : c \in uploading \/ "png" \in files'[c]
      PROVE  FilesAreThere'
  <2>1. \A c \in Categories : cardRows'[c].path # Unset => cardRows'[c].path \in files'[c]
        BY <1>1, <1>f
  <2>2. pc' = "store" /\ card' \in Categories => made' \in files'[card']
        BY <1>1, <1>f
  <2>3. \A c \in uploading' \cap Categories : "png" \in files'[c]
        BY <1>1, <1>f
  <2>4. QED BY <2>1, <2>2, <2>3 DEF FilesAreThere
<1>2. ASSUME \/ StartTask \/ StopBatch \/ BeginCard \/ BeginWelcome \/ SkipWelcome \/ CardsCrash
             \/ \E x \in {0, 1} : Retry(x)
      PROVE  FilesAreThere'
  <2>1. UNCHANGED <<files, cardRows, uploading>>
        BY <1>2 DEF store, admin, StartTask, StopBatch, BeginCard, BeginWelcome, SkipWelcome, CardsCrash, Retry
  <2>2. pc' # "store"
        BY <1>2 DEF StartTask, StopBatch, BeginCard, BeginWelcome, SkipWelcome, CardsCrash, Retry, Call
  <2>3. QED BY <1>1, <2>1, <2>2
<1>3. ASSUME NEW x \in Exts, Generated(x) PROVE FilesAreThere'
  <2>1. card \in Cards
        BY <1>3 DEF CardsTyped, Generated
  <2>2. /\ files' = [files EXCEPT ![card] = @ \cup {x}] /\ made' = x /\ card' = card
        /\ UNCHANGED <<cardRows, uploading>>
        BY <1>3 DEF Generated, admin
  <2>3. x \in files'[card]
        BY <1>t, <2>1, <2>2
  <2>4. \A c \in Categories : files[c] \subseteq files'[c]
        BY <1>t, <2>1, <2>2
  <2>5. QED BY <1>1, <2>2, <2>3, <2>4
<1>4. ASSUME Store PROVE FilesAreThere'
  <2>1. /\ pc = "store" /\ pc' # "store" /\ UNCHANGED <<files, uploading>>
        /\ cardRows' = [cardRows EXCEPT ![card].status = "ready", ![card].path = made]
        BY <1>4 DEF Store, Ended, admin
  <2>2. \A c \in Categories : cardRows'[c].path = IF c = card THEN made ELSE cardRows[c].path
        BY <1>t, <2>1 DEF CardRow
  <2>3. QED BY <1>1, <1>f, <2>1, <2>2
<1>5. ASSUME NEW x \in {0, 1}, Refused(x) PROVE FilesAreThere'
  <2>1. /\ pc' # "store" /\ UNCHANGED <<files, uploading>>
        /\ cardRows' = [cardRows EXCEPT ![card].status = IF card = Welcome THEN @ ELSE "failed"]
        BY <1>5 DEF Refused, Ended, admin
  <2>2. \A c \in Categories : cardRows'[c].path = cardRows[c].path
        BY <1>t, <2>1 DEF CardRow
  <2>3. QED BY <1>1, <2>1, <2>2
<1>6. ASSUME NEW c \in Cards, Hide(c) PROVE FilesAreThere'
  <2>1. /\ UNCHANGED <<files, uploading, pc, card, made>>
        /\ cardRows' = [cardRows EXCEPT ![c].hidden = ~@]
        BY <1>6 DEF Hide, task
  <2>2. \A d \in Categories : cardRows'[d].path = cardRows[d].path
        BY <1>t, <2>1 DEF CardRow
  <2>3. QED BY <1>1, <2>1, <2>2
<1>w. \A c \in Categories : WithoutShown[c] = files[c]
      BY <1>t DEF WithoutShown
<1>7. ASSUME NEW c \in Cards, Regenerate(c) PROVE FilesAreThere'
  <2>1. /\ UNCHANGED <<uploading, pc, card, made>>
        /\ cardRows' = [cardRows EXCEPT ![c].status = Unset, ![c].path = Unset]
        /\ files' = IF c = Welcome THEN WithoutShown ELSE files
        BY <1>7 DEF Regenerate, task
  <2>2. \A d \in Categories : cardRows'[d].path = IF d = c THEN Unset ELSE cardRows[d].path
        BY <1>t, <2>1 DEF CardRow
  <2>3. \A d \in Categories : files'[d] = files[d]
        BY <1>w, <2>1
  <2>4. QED BY <1>1, <2>1, <2>2, <2>3
<1>8. ASSUME NEW c \in Cards, UploadFile(c) PROVE FilesAreThere'
  <2> DEFINE F == IF c = Welcome THEN WithoutShown ELSE files
  <2>1. /\ UNCHANGED <<cardRows, pc, card, made>> /\ uploading' = uploading \cup {c}
        /\ files' = [F EXCEPT ![c] = @ \cup {"png"}]
        BY <1>8 DEF UploadFile, task
  <2>2. DOMAIN F = Cards /\ \A d \in Categories : F[d] = files[d]
        BY <1>t, <1>w DEF WithoutShown
  <2> HIDE DEF F
  <2>3. \A d \in Categories : files'[d] = IF d = c THEN F[d] \cup {"png"} ELSE F[d]
        BY <1>t, <2>1, <2>2
  <2>4. QED BY <1>1, <2>1, <2>2, <2>3
<1>9. ASSUME NEW c \in Cards, UploadCommit(c) PROVE FilesAreThere'
  <2>1. /\ UNCHANGED <<files, pc, card, made>> /\ uploading' = uploading \ {c} /\ c \in uploading
        /\ cardRows' = [cardRows EXCEPT ![c].status = "ready", ![c].path = "png"]
        BY <1>9 DEF UploadCommit, Uploaded, task
  <2>2. \A d \in Categories : cardRows'[d].path = IF d = c THEN "png" ELSE cardRows[d].path
        BY <1>t, <2>1 DEF CardRow
  <2>3. QED BY <1>1, <1>f, <2>1, <2>2
<1>10. ASSUME UNCHANGED <<files, cardRows, uploading, pc, card, made>> PROVE FilesAreThere'
       BY <1>10 DEF FilesAreThere
<1>11. ASSUME \/ CardTick
              \/ \E b \in Budgets : SetBudget(b)
              \/ \E p \in Providers, cost \in TextCosts : WriteText(p, cost)
              \/ UNCHANGED cardsVars
       PROVE  FilesAreThere'
  <2>1. UNCHANGED <<files, cardRows, uploading, pc, card, made>>
        BY <1>11 DEF CardTick, SetBudget, WriteText, cardsVars, admin, task, store
  <2>2. QED BY <1>10, <2>1
<1>12. QED BY <1>2, <1>3, <1>4, <1>5, <1>6, <1>7, <1>8, <1>9, <1>11 DEF CardsNext

\* The invariant of images and texts: what holds of the state, and of the money.
CardsInvariant == CardsInv /\ SpendIsBounded

LEMMA CardsStart == CardsInit => CardsInvariant
<1> SUFFICES ASSUME CardsInit PROVE CardsInvariant
    OBVIOUS
<1> USE CardsBounds
<1>1. usage \in [Kinds -> [0..MaxCardClock -> Nat]] /\ \A k \in Kinds, s \in 0..MaxCardClock : usage[k][s] = 0
      BY DEF CardsInit
<1>2. NewCard \in CardRow
      BY DEF NewCard, CardRow
<1>3. CardsTyped
  <2>1. cardRows \in [Cards -> CardRow] /\ files \in [Cards -> SUBSET Exts]
        BY <1>2 DEF CardsInit
  <2>2. QED BY <1>1, <2>1 DEF CardsInit, CardsTyped
<1>4. WeeksNest
      BY <1>1 DEF WeeksNest
<1>5. ImageFits
      BY DEF CardsInit, ImageFits
<1>6. CallsAreCounted
  <2>1. Attempts * 0 = 0
        OBVIOUS
  <2>2. QED BY <2>1 DEF CardsInit, CallsAreCounted
<1>7. FilesAreThere
      BY DEF CardsInit, FilesAreThere, NewCard, Cards
<1>8. SpendIsBounded
  <2>1. "image" \in Kinds /\ "text" \in Kinds
        BY DEF Kinds
  <2>2. \A s \in 0..MaxCardClock : usage["image"][s] = 0 /\ usage["text"][s] = 0
        BY <1>1, <2>1
  <2>3. topBudget \in Nat
        BY DEF CardsInit
  <2>4. QED BY <2>2, <2>3 DEF SpendIsBounded
<1>9. QED BY <1>3, <1>4, <1>5, <1>6, <1>7, <1>8 DEF CardsInvariant, CardsInv

LEMMA CardsKeep == CardsInvariant /\ [CardsNext]_cardsVars => CardsInvariant'
<1> SUFFICES ASSUME CardsInvariant, [CardsNext]_cardsVars PROVE CardsInvariant'
    OBVIOUS
<1>0. /\ CardsTyped /\ WeeksNest /\ ImageFits /\ CallsAreCounted /\ FilesAreThere
      /\ \A s \in 0..MaxCardClock : usage["image"][s] <= topBudget
      BY DEF CardsInvariant, CardsInv, SpendIsBounded
<1>1. CardsTyped'
      BY <1>0, CardsAreTyped
<1>2. WeeksNest'
      BY <1>0, WeeksStayNested
<1>3. ImageFits' /\ \A s \in 0..MaxCardClock : usage'["image"][s] <= topBudget'
      BY <1>0, ImagesFit
<1>4. TextsFit
      BY DEF CardsInvariant, SpendIsBounded, TextsFit
<1>5. TextsFit'
      BY <1>0, <1>4, TextsStayBounded
<1>6. CallsAreCounted'
      BY <1>0, CallsStayCounted
<1>7. FilesAreThere'
      BY <1>0, FilesStayThere
<1>8. SpendIsBounded'
      BY <1>3, <1>5 DEF SpendIsBounded, TextsFit
<1>9. QED BY <1>1, <1>2, <1>3, <1>6, <1>7, <1>8 DEF CardsInvariant, CardsInv

\* The state of images, uploads and the ledger, for any deck, costs, budgets and
\* number of attempts: a category that shows an image has its file.
THEOREM CardsInvariantHolds == CardsSpec => []CardsInv
<1>1. CardsInvariant => CardsInv
      BY DEF CardsInvariant
<1>2. QED BY CardsStart, CardsKeep, <1>1, PTL DEF CardsSpec

\* No week's images cost more than the highest budget, no week's texts overrun
\* theirs by a text, and Google bills nothing that is not accounted for.
THEOREM SpendingIsBounded == CardsSpec => []SpendIsBoundedAndRecorded
<1>1. CardsInvariant => SpendIsBoundedAndRecorded
      BY CountedIsRecorded DEF CardsInvariant, CardsInv, SpendIsBoundedAndRecorded
<1>2. QED BY CardsStart, CardsKeep, <1>1, PTL DEF CardsSpec
=============================================================================
