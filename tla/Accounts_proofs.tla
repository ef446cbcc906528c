--------------------------- MODULE Accounts_proofs ---------------------------
(***************************************************************************)
(* Proofs about a user's accounts, for any keys, addresses, accounts and   *)
(* requests: the conversation that connects one (Connect), and the trading *)
(* clients made of them (ClientCache).  And of the parts whose progress    *)
(* MCProgress checks, that together they keep the invariant of each.       *)
(***************************************************************************)
EXTENDS Connect, MCProgress, Activity_proofs, News_proofs, SequenceTheorems, TLAPS

\* A stored row names the signer of a key, so it is not that of no account.
LEMMA RowIsStored ==
  ASSUME NEW k \in Keys
  PROVE  RowOf(k) # NotStored
  BY ConnectAssumption DEF RowOf, NotStored

\* The account's address is the funder or the signer's.
LEMMA WalletIsAddress ==
  ASSUME NEW k \in Keys, NEW f \in Addresses \cup {NoAddress}
  PROVE  ResolvedWallet(k, f) \in Addresses
  BY ConnectAssumption DEF ResolvedWallet

LEMMA InitConnect == ConnectInit => ConnectInv
  BY ConnectAssumption DEF ConnectInit, ConnectInv, Blank, Stored, NotStored, SigTypes, AtKey

\* A step that leaves the accounts alone keeps the invariant if the types and
\* the funder of a key step are right after it.
LEMMA ConversationStep ==
  ASSUME ConnectInv, UNCHANGED <<accounts, active>>,
         conv' \in Steps \cup {"none"},
         state' \in [sig : SigTypes, funder : Addresses \cup {NoAddress}, key : Keys \cup {NoKey}],
         (state.sig \in ProxyTypes /\ AtKey => state.funder # NoAddress)'
  PROVE  ConnectInv'
  BY DEF ConnectInv, Stored

LEMMA ConnectStep == ConnectInv /\ [ConnectNext]_connectVars => ConnectInv'
<1> SUFFICES ASSUME ConnectInv, [ConnectNext]_connectVars PROVE ConnectInv'
    OBVIOUS
<1> USE ConnectAssumption
<1>0. /\ Blank \in [sig : SigTypes, funder : Addresses \cup {NoAddress}, key : Keys \cup {NoKey}]
      /\ Blank.sig \notin ProxyTypes
      BY DEF Blank, SigTypes, ProxyTypes
<1>1. CASE UNCHANGED connectVars
      BY <1>1 DEF connectVars, ConnectInv, Stored, AtKey
<1>2. CASE StartConnect
      BY <1>0, <1>2, ConversationStep DEF StartConnect, Says, ConnectInv, Steps, AtKey
<1>3. CASE Leave
      BY <1>0, <1>3, ConversationStep DEF Leave, Says, ClearConnect, ConnectInv, AtKey
<1>4. CASE ConvRestart
      BY <1>0, <1>4, ConversationStep DEF ConvRestart, AtKey
<1>5. CASE EnterBadKey
      BY <1>5, ConversationStep DEF EnterBadKey, ConnectInv, Steps, AtKey
<1>6. ASSUME NEW sig \in SigTypes, ChooseType(sig) PROVE ConnectInv'
  <2>1. /\ state' \in [sig : SigTypes, funder : Addresses \cup {NoAddress}, key : Keys \cup {NoKey}]
        /\ state'.sig = sig
        BY <1>0, <1>6 DEF ChooseType, Blank
  <2>2. QED BY <1>6, <2>1, ConversationStep
            DEF ChooseType, Says, NeedsFunder, ConnectInv, Steps, AtKey
<1>7. ASSUME NEW w \in Addresses, EnterFunder(w) PROVE ConnectInv'
      BY <1>7, ConversationStep DEF EnterFunder, Says, ConnectInv, Steps, AtKey
<1>8. ASSUME NEW w \in Addresses, Disconnect(w) PROVE ConnectInv'
      BY <1>8 DEF Disconnect, ConnectInv, NotStored, SigTypes, AtKey, Stored
<1>9. ASSUME NEW button \in {"cancel", "to_type", "to_funder"}, ConnNav(button) PROVE ConnectInv'
      BY <1>0, <1>9, ConversationStep DEF ConnNav, Says, ConnectInv, ClearConnect, Steps, AtKey
<1>10. ASSUME NEW k \in Keys, EnterKeyRaises(k) PROVE ConnectInv'
      BY <1>10, ConversationStep DEF EnterKeyRaises, ConnectInv, Steps, AtKey
<1>11. ASSUME NEW k \in Keys, EnterKeyFails(k) PROVE ConnectInv'
      BY <1>11, ConversationStep DEF EnterKeyFails, ConnectInv, Steps, AtKey
<1>12. ASSUME NEW k \in Keys, EnterKeyNoUser(k) PROVE ConnectInv'
      BY <1>12, ConversationStep DEF EnterKeyNoUser, ConnectInv, Steps, AtKey
<1>13. ASSUME NEW k \in Keys, EnterKey(k) PROVE ConnectInv'
  <2> DEFINE w == ResolvedWallet(k, state.funder)
  <2>1. /\ w \in Addresses
        /\ RowOf(k) \in [signer : Addresses \cup {NoAddress}, sig : SigTypes,
                         funder : Addresses \cup {NoAddress}]
        BY <1>13, WalletIsAddress DEF ConnectInv, RowOf
  <2>2. accounts' = [accounts EXCEPT ![w] = RowOf(k)] /\ active' = w
        BY <1>13 DEF EnterKey
  <2>3. w \in Stored'
        BY <2>1, <2>2, RowIsStored DEF ConnectInv, Stored
  <2>4. state'.sig = state.sig /\ state'.funder = state.funder
        BY <1>13 DEF EnterKey, ConnectInv
  <2>5. QED BY <1>13, <2>1, <2>2, <2>3, <2>4 DEF EnterKey, ConnectInv, Steps, AtKey
<1>14. QED
      BY <1>1, <1>2, <1>3, <1>4, <1>5, <1>6, <1>7, <1>8, <1>9, <1>10, <1>11, <1>12, <1>13
      DEF ConnectNext

\* The types of the conversation and its accounts; the active account is stored.
THEOREM ConnectInvariant == ConnectSpec => []ConnectInv
  BY InitConnect, ConnectStep, PTL DEF ConnectSpec

-----------------------------------------------------------------------------
\* However buttons of earlier steps are used, a stored account fits its type.
THEOREM AccountsFitTheirType == ConnectSpec => []RowsAreConsistent
<1>1. ConnectInit => RowsAreConsistent
      BY DEF ConnectInit, RowsAreConsistent, Stored
<1>2. ConnectInv /\ RowsAreConsistent /\ [ConnectNext]_connectVars => RowsAreConsistent'
  <2> SUFFICES ASSUME ConnectInv, RowsAreConsistent, [ConnectNext]_connectVars
               PROVE  RowsAreConsistent'
      OBVIOUS
  <2>1. ASSUME UNCHANGED accounts PROVE RowsAreConsistent'
        BY <2>1 DEF RowsAreConsistent, Stored, ClientBuilds
  <2>2. ASSUME NEW w \in Addresses, Disconnect(w) PROVE RowsAreConsistent'
        BY <2>2 DEF Disconnect, ConnectInv, RowsAreConsistent, Stored, ClientBuilds
  <2>3. ASSUME NEW k \in Keys, EnterKey(k) PROVE RowsAreConsistent'
    <3> DEFINE w == ResolvedWallet(k, state.funder)
    <3>1. w \in Addresses /\ accounts' = [accounts EXCEPT ![w] = RowOf(k)]
          BY <2>3, WalletIsAddress DEF EnterKey, ConnectInv
    <3>2. /\ RowOf(k).sig \in ProxyTypes => RowOf(k).funder # NoAddress
          /\ RowOf(k).funder # NoAddress => RowOf(k).funder = w
          /\ RowOf(k).funder = NoAddress => RowOf(k).signer = w
          BY <2>3 DEF EnterKey, ConnectInv, RowOf, ResolvedWallet
    <3>3. QED BY <3>1, <3>2 DEF ConnectInv, RowsAreConsistent, Stored, ClientBuilds
  <2>4. QED
        BY <2>1, <2>2, <2>3
        DEF ConnectNext, connectVars, StartConnect, Leave, ConvRestart, EnterBadKey, ChooseType,
            EnterFunder, ConnNav, EnterKeyRaises, EnterKeyFails, EnterKeyNoUser
<1>3. QED BY <1>1, <1>2, ConnectInvariant, PTL DEF ConnectSpec

\* Every way out of the conversation forgets the key.
THEOREM KeysAreForgotten == ConnectSpec => []KeyEndsWithConversation
<1>1. ConnectInit => KeyEndsWithConversation
      BY DEF ConnectInit, KeyEndsWithConversation, Blank
<1>2. ConnectInv /\ KeyEndsWithConversation /\ [ConnectNext]_connectVars => KeyEndsWithConversation'
      BY DEF ConnectNext, connectVars, ConnectInv, KeyEndsWithConversation, Blank, ClearConnect, AtKey, Says,
             StartConnect, Leave, ConvRestart, EnterBadKey, ChooseType, EnterFunder, ConnNav, Disconnect,
             EnterKeyRaises, EnterKeyFails, EnterKeyNoUser, EnterKey
<1>3. QED BY <1>1, <1>2, ConnectInvariant, PTL DEF ConnectSpec

-----------------------------------------------------------------------------
(* The clients.                                                             *)

Client == [account : Accounts, version : Nat, created : Nat]

\* A sequence without its k-th element.
LEMMA RemovedAt ==
  ASSUME NEW S, NEW s \in Seq(S), NEW k \in 1 .. Len(s)
  PROVE  /\ RemoveAt(s, k) \in Seq(S) /\ Len(RemoveAt(s, k)) = Len(s) - 1
         /\ \A i \in 1 .. Len(s) - 1 : RemoveAt(s, k)[i] = IF i < k THEN s[i] ELSE s[i + 1]
<1> DEFINE front == SubSeq(s, 1, k - 1)
           back == SubSeq(s, k + 1, Len(s))
<1>0. Len(s) \in Nat /\ k \in Int /\ \A i \in 1 .. Len(s) : s[i] \in S
      BY LenProperties, ElementOfSeq
<1>1. front \in Seq(S) /\ Len(front) = k - 1 /\ \A i \in 1 .. k - 1 : front[i] = s[i]
  <2>1. 1 \in Int /\ k - 1 \in Int /\ \A i \in 1 .. k - 1 : s[i] \in S
        BY <1>0
  <2>2. /\ front \in Seq(S) /\ Len(front) = (IF 1 <= k - 1 THEN k - 1 - 1 + 1 ELSE 0)
        /\ \A i \in 1 .. k - 1 - 1 + 1 : front[i] = s[1 + i - 1]
        BY <2>1, SubSeqProperties
  <2>3. QED BY <1>0, <2>2
<1>2. back \in Seq(S) /\ Len(back) = Len(s) - k /\ \A i \in 1 .. Len(s) - k : back[i] = s[k + i]
  <2>1. k + 1 \in Int /\ Len(s) \in Int /\ \A i \in k + 1 .. Len(s) : s[i] \in S
        BY <1>0
  <2>2. /\ back \in Seq(S) /\ Len(back) = (IF k + 1 <= Len(s) THEN Len(s) - (k + 1) + 1 ELSE 0)
        /\ \A i \in 1 .. Len(s) - (k + 1) + 1 : back[i] = s[(k + 1) + i - 1]
        BY <2>1, SubSeqProperties
  <2>3. QED BY <1>0, <2>2
<1>3. RemoveAt(s, k) = front \o back
      BY DEF RemoveAt
<1> HIDE DEF front, back
<1>4. /\ front \o back \in Seq(S) /\ Len(front \o back) = Len(s) - 1
      /\ \A i \in 1 .. Len(s) - 1 :
            (front \o back)[i] = IF i <= k - 1 THEN front[i] ELSE back[i - (k - 1)]
  <2>1. /\ front \o back \in Seq(S) /\ Len(front \o back) = Len(front) + Len(back)
        /\ \A i \in 1 .. Len(front) + Len(back) :
              (front \o back)[i] = IF i <= Len(front) THEN front[i] ELSE back[i - Len(front)]
        BY <1>1, <1>2, ConcatProperties
  <2>2. Len(front) = k - 1 /\ Len(front) + Len(back) = Len(s) - 1
        BY <1>0, <1>1, <1>2
  <2>3. QED BY <2>1, <2>2
<1>5. ASSUME NEW i \in 1 .. Len(s) - 1 PROVE RemoveAt(s, k)[i] = IF i < k THEN s[i] ELSE s[i + 1]
  <2>1. CASE i < k
        BY <1>0, <1>1, <1>3, <1>4, <2>1
  <2>2. CASE ~(i < k)
    <3>1. RemoveAt(s, k)[i] = back[i - (k - 1)] /\ i - (k - 1) \in 1 .. Len(s) - k
          BY <1>0, <1>3, <1>4, <2>2
    <3>2. back[i - (k - 1)] = s[k + (i - (k - 1))] /\ k + (i - (k - 1)) = i + 1
          BY <1>0, <1>2, <3>1
    <3>3. QED BY <2>2, <3>1, <3>2
  <2>3. QED BY <2>1, <2>2
<1>6. QED BY <1>3, <1>4, <1>5

\* What is cached is a client.
LEMMA CachedClients ==
  ASSUME CacheInv
  PROVE  \A i \in DOMAIN webCache : webCache[i] \in Client
<1>1. webCache \in Seq(Client)
      BY DEF CacheInv, CacheTypes, Client
<1>2. QED BY <1>1, LenProperties

\* A list of clients, each of another account, and of clients of the cache.
OfCache(s) ==
    /\ s \in Seq(Client)
    /\ \A i, j \in DOMAIN s : s[i].account = s[j].account => i = j
    /\ \A i \in DOMAIN s : \E j \in DOMAIN webCache : s[i] = webCache[j]

LEMMA CacheOfItself ==
  ASSUME CacheInv
  PROVE  OfCache(webCache)
  BY DEF CacheInv, CacheTypes, OfCache, Client

\* The other clients: none is of account a, and there is one less if one was.
LEMMA OthersOfCache ==
  ASSUME CacheInv, NEW a \in Accounts
  PROVE  /\ OfCache(Others(a)) /\ \A i \in DOMAIN Others(a) : Others(a)[i].account # a
         /\ Len(Others(a)) <= Len(webCache)
         /\ Places(a) # {} => Len(Others(a)) + 1 = Len(webCache)
<1>0. webCache \in Seq(Client) /\ Len(webCache) \in Nat /\ DOMAIN webCache = 1 .. Len(webCache)
      BY LenProperties DEF CacheInv, CacheTypes, Client
<1>1. CASE Places(a) = {}
  <2>1. Others(a) = webCache
        BY <1>1 DEF Others
  <2>2. \A i \in DOMAIN webCache : webCache[i].account # a
        BY <1>1 DEF Places
  <2>3. QED BY <1>0, <1>1, <2>1, <2>2, CacheOfItself
<1>2. CASE Places(a) # {}
  <2> DEFINE k == CHOOSE i \in Places(a) : TRUE
             t == RemoveAt(webCache, k)
             from(i) == IF i < k THEN i ELSE i + 1
  <2>1. k \in 1 .. Len(webCache) /\ webCache[k].account = a /\ Others(a) = t
        BY <1>0, <1>2 DEF Others, Places
  <2> HIDE DEF k
  <2>2. /\ t \in Seq(Client) /\ Len(t) = Len(webCache) - 1
        /\ \A i \in 1 .. Len(webCache) - 1 : t[i] = webCache[from(i)]
        BY <1>0, <2>1, RemovedAt
  <2>3. DOMAIN t = 1 .. Len(webCache) - 1
        BY <2>2, LenProperties
  <2> HIDE DEF t
  <2>4. \A i \in DOMAIN t : from(i) \in DOMAIN webCache /\ from(i) # k
        BY <1>0, <2>1, <2>3
  <2>5. \A i, j \in DOMAIN t : from(i) = from(j) => i = j
        BY <1>0, <2>1, <2>3
  <2> HIDE DEF from
  <2>6. \A i \in DOMAIN t : t[i].account # a
        BY <1>0, <2>1, <2>2, <2>3, <2>4 DEF CacheInv
  <2>7. \A i, j \in DOMAIN t : t[i].account = t[j].account => i = j
        BY <2>2, <2>3, <2>4, <2>5, SMTT(30) DEF CacheInv
  <2>8. OfCache(t)
        BY <2>2, <2>3, <2>4, <2>7 DEF OfCache
  <2>9. QED BY <1>0, <2>1, <2>2, <2>6, <2>8
<1>3. QED BY <1>1, <1>2

\* A client put at the end of the others, or its own moved there.
LEMMA AppendedCache ==
  ASSUME NEW a \in Accounts, NEW s \in Seq(Client), NEW e \in Client, e.account = a,
         \A i, j \in DOMAIN s : s[i].account = s[j].account => i = j,
         \A i \in DOMAIN s : s[i].account # a
  PROVE  LET t == Append(s, e)
         IN /\ t \in Seq(Client) /\ Len(t) = Len(s) + 1
            /\ \A i, j \in DOMAIN t : t[i].account = t[j].account => i = j
            /\ \A i \in DOMAIN t : t[i] = e \/ \E j \in DOMAIN s : t[i] = s[j]
<1> DEFINE t == Append(s, e)
<1>1. Len(s) \in Nat /\ DOMAIN s = 1 .. Len(s)
      BY LenProperties
<1>2. /\ t \in Seq(Client) /\ Len(t) = Len(s) + 1 /\ t[Len(s) + 1] = e
      /\ \A i \in 1 .. Len(s) : t[i] = s[i]
      BY <1>1, AppendProperties
<1>3. DOMAIN t = 1 .. Len(s) + 1
      BY <1>2, LenProperties
<1> HIDE DEF t
<1>4. \A i \in DOMAIN t : i = Len(s) + 1 \/ i \in DOMAIN s
      BY <1>1, <1>3
<1>5. \A i, j \in DOMAIN t : t[i].account = t[j].account => i = j
      BY <1>1, <1>2, <1>4
<1>6. \A i \in DOMAIN t : t[i] = e \/ \E j \in DOMAIN s : t[i] = s[j]
      BY <1>1, <1>2, <1>4
<1>7. QED BY <1>2, <1>5, <1>6 DEF t

\* A list without its first client.
LEMMA TailOfCache ==
  ASSUME NEW t \in Seq(Client), t # <<>>, \A i, j \in DOMAIN t : t[i].account = t[j].account => i = j
  PROVE  /\ Tail(t) \in Seq(Client) /\ Len(Tail(t)) = Len(t) - 1
         /\ \A i, j \in DOMAIN Tail(t) : Tail(t)[i].account = Tail(t)[j].account => i = j
         /\ \A i \in DOMAIN Tail(t) : \E j \in DOMAIN t : Tail(t)[i] = t[j]
<1>1. Len(t) \in Nat /\ DOMAIN t = 1 .. Len(t)
      BY LenProperties
<1>2. Tail(t) \in Seq(Client) /\ Len(Tail(t)) = Len(t) - 1 /\ \A i \in 1 .. Len(Tail(t)) : Tail(t)[i] = t[i + 1]
      BY HeadTailProperties
<1>3. DOMAIN Tail(t) = 1 .. Len(Tail(t)) /\ Len(Tail(t)) \in Nat
      BY <1>2, LenProperties
<1>4. \A i \in DOMAIN Tail(t) : i + 1 \in DOMAIN t /\ Tail(t)[i] = t[i + 1]
      BY <1>1, <1>2, <1>3
<1>5. \A i, j \in DOMAIN Tail(t) : Tail(t)[i].account = Tail(t)[j].account => i = j
  <2>1. \A i, j \in DOMAIN Tail(t) : Tail(t)[i].account = Tail(t)[j].account => i + 1 = j + 1
        BY <1>4
  <2>2. QED BY <1>3, <2>1
<1>6. QED BY <1>2, <1>4, <1>5

\* What the cache is to be: clients of another account each, within its limit,
\* each of them old or the one that is new.
CacheOf(s, e) ==
    /\ s \in Seq(Client) /\ Len(s) <= MaxClients
    /\ \A i, j \in DOMAIN s : s[i].account = s[j].account => i = j
    /\ \A i \in DOMAIN s : s[i] = e \/ \E j \in DOMAIN webCache : s[i] = webCache[j]

\* _put keeps the cache within its limit.
LEMMA PutIsOfCache ==
  ASSUME CacheInv, NEW a \in Accounts, NEW v \in Nat
  PROVE  CacheOf(Put(a, v), [account |-> a, version |-> v, created |-> now])
<1> DEFINE e == [account |-> a, version |-> v, created |-> now]
           t == Append(Others(a), e)
<1>1. e \in Client /\ e.account = a
      BY DEF CacheInv, CacheTypes, Client
<1>2. /\ OfCache(Others(a)) /\ \A i \in DOMAIN Others(a) : Others(a)[i].account # a
      /\ Len(Others(a)) <= Len(webCache)
      BY OthersOfCache
<1>3. /\ t \in Seq(Client) /\ Len(t) = Len(Others(a)) + 1
      /\ \A i, j \in DOMAIN t : t[i].account = t[j].account => i = j
      /\ \A i \in DOMAIN t : t[i] = e \/ \E j \in DOMAIN Others(a) : t[i] = Others(a)[j]
      BY <1>1, <1>2, AppendedCache DEF OfCache
<1> HIDE DEF t
<1>4. Len(webCache) \in Nat /\ Len(webCache) <= MaxClients /\ Len(Others(a)) \in Nat /\ MaxClients \in Nat
      BY <1>2, LenProperties, CacheAssumption DEF CacheInv, CacheTypes, OfCache
<1>5. \A i \in DOMAIN t : t[i] = e \/ \E j \in DOMAIN webCache : t[i] = webCache[j]
      BY <1>2, <1>3 DEF OfCache
<1>6. CASE Len(t) > MaxClients
  <2>1. t # <<>>
        BY <1>3, <1>4, EmptySeq
  <2>2. Put(a, v) = Tail(t)
        BY <1>6 DEF Put, t
  <2>3. /\ Tail(t) \in Seq(Client) /\ Len(Tail(t)) = Len(t) - 1
        /\ \A i, j \in DOMAIN Tail(t) : Tail(t)[i].account = Tail(t)[j].account => i = j
        /\ \A i \in DOMAIN Tail(t) : \E j \in DOMAIN t : Tail(t)[i] = t[j]
        BY <1>3, <2>1, TailOfCache
  <2>4. Len(Tail(t)) <= MaxClients
    <3>1. Len(t) \in Nat /\ Len(t) <= MaxClients + 1
          BY <1>2, <1>3, <1>4
    <3>2. QED BY <1>4, <2>3, <3>1
  <2>5. \A i \in DOMAIN Tail(t) : Tail(t)[i] = e \/ \E j \in DOMAIN webCache : Tail(t)[i] = webCache[j]
        BY <1>5, <2>3
  <2>6. QED BY <2>2, <2>3, <2>4, <2>5 DEF CacheOf
<1>7. CASE ~(Len(t) > MaxClients)
  <2>1. Put(a, v) = t
        BY <1>7 DEF Put, t
  <2>2. QED BY <1>3, <1>4, <1>5, <1>7, <2>1 DEF CacheOf
<1>8. QED BY <1>6, <1>7

\* A hit moves a client to the end.
LEMMA HitIsOfCache ==
  ASSUME CacheInv, NEW a \in Accounts, NEW e \in Cached(a)
  PROVE  CacheOf(Append(Others(a), Touch(e)), e)
<1>1. webCache \in Seq(Client) /\ Len(webCache) \in Nat /\ Len(webCache) <= MaxClients /\ MaxClients \in Nat
      BY LenProperties, CacheAssumption DEF CacheInv, CacheTypes, Client
<1>2. e \in Client /\ e.account = a /\ Touch(e) = e /\ Places(a) # {}
      BY <1>1, LenProperties DEF Cached, Places, Touch
<1>3. /\ OfCache(Others(a)) /\ \A i \in DOMAIN Others(a) : Others(a)[i].account # a
      /\ Len(Others(a)) + 1 = Len(webCache)
      BY <1>2, OthersOfCache
<1> DEFINE t == Append(Others(a), e)
<1>4. /\ t \in Seq(Client) /\ Len(t) = Len(Others(a)) + 1
      /\ \A i, j \in DOMAIN t : t[i].account = t[j].account => i = j
      /\ \A i \in DOMAIN t : t[i] = e \/ \E j \in DOMAIN Others(a) : t[i] = Others(a)[j]
      BY <1>2, <1>3, AppendedCache DEF OfCache
<1> HIDE DEF t
<1>5. CacheOf(t, e)
      BY <1>1, <1>3, <1>4 DEF CacheOf, OfCache
<1>6. QED BY <1>2, <1>5 DEF t

LEMMA InitCache == CacheInit => CacheInv /\ StalenessInv
<1> SUFFICES ASSUME CacheInit PROVE CacheInv /\ StalenessInv
    OBVIOUS
<1> USE CacheAssumption
<1>1. webCache = <<>> /\ webCache \in Seq(Client) /\ Len(webCache) = 0 /\ DOMAIN webCache = {}
      BY EmptySeq DEF CacheInit
<1>2. replaced \in [Accounts -> Seq(Nat)] /\ \A a \in Accounts : replaced[a] = <<>>
      BY EmptySeq DEF CacheInit
<1>3. CacheTypes
      BY <1>1, <1>2 DEF CacheInit, CacheTypes, NotCached, Client
<1>4. Building = {}
      BY DEF CacheInit, Building
<1>5. \A a \in Accounts : \A r \in Requests : lock[a] = r <=> r \in Building /\ wants[r] = a
      BY <1>4 DEF CacheInit, Nobody
<1>6. StalenessInv
      BY <1>1, <1>2 DEF CacheInit, StalenessInv
<1>7. QED BY <1>1, <1>3, <1>5, <1>6 DEF CacheInv

\* Age is a time, of a version that was replaced.
LEMMA AgeType ==
  ASSUME CacheInv, StalenessInv, NEW a \in Accounts, NEW v \in Nat
  PROVE  Age(a, v) \in 0 .. now /\ Worse(a, v) \in 0 .. MaxClock
<1>1. now \in Nat /\ now <= MaxClock /\ MaxClock \in Nat /\ staleness \in 0 .. MaxClock
      BY CacheAssumption DEF CacheInv, CacheTypes
<1>2. replaced[a] \in Seq(Nat) /\ Len(replaced[a]) \in Nat /\ DOMAIN replaced[a] = 1 .. Len(replaced[a])
      BY LenProperties DEF CacheInv, CacheTypes
<1>3. CASE v < Len(replaced[a])
  <2>1. v + 1 \in DOMAIN replaced[a]
        BY <1>2, <1>3
  <2>2. replaced[a][v + 1] \in Nat /\ replaced[a][v + 1] <= now
        BY <1>2, <2>1, ElementOfSeq DEF StalenessInv
  <2>3. Age(a, v) \in 0 .. now
        BY <1>1, <1>3, <2>2 DEF Age
  <2>4. QED BY <1>1, <2>3 DEF Worse
<1>4. CASE ~(v < Len(replaced[a]))
  <2>1. Age(a, v) = 0
        BY <1>4 DEF Age
  <2>2. QED BY <1>1, <2>1 DEF Worse
<1>5. QED BY <1>3, <1>4

\* A client that was current when it was made is not stale for longer than since.
LEMMA AgeOfCurrent ==
  ASSUME CacheInv, StalenessInv, NEW a \in Accounts, NEW v \in Nat, NEW t \in 0 .. now, CurrentUntil(a, v, t)
  PROVE  Age(a, v) <= now - t
<1>1. now \in Nat
      BY DEF CacheInv, CacheTypes
<1>2. replaced[a] \in Seq(Nat) /\ Len(replaced[a]) \in Nat
      BY LenProperties DEF CacheInv, CacheTypes
<1>3. CASE v < Len(replaced[a])
  <2>1. t <= replaced[a][v + 1] /\ replaced[a][v + 1] \in Nat
    <3>1. v + 1 \in 1 .. Len(replaced[a])
          BY <1>2, <1>3
    <3>2. QED BY <1>2, <1>3, <3>1, ElementOfSeq DEF CurrentUntil
  <2>2. QED BY <1>1, <1>3, <2>1 DEF Age
<1>4. CASE ~(v < Len(replaced[a]))
      BY <1>1, <1>4 DEF Age
<1>5. QED BY <1>3, <1>4

LEMMA CacheStep == CacheInv /\ StalenessInv /\ [CacheNext]_cacheVars => CacheInv'
<1> SUFFICES ASSUME CacheInv, StalenessInv, [CacheNext]_cacheVars PROVE CacheInv'
    OBVIOUS
<1> USE CacheAssumption
<1>1. CASE UNCHANGED cacheVars
      BY <1>1 DEF cacheVars, CacheInv, CacheTypes, Building
<1>2. ASSUME NEW a \in Accounts, StoreCredentials(a) PROVE CacheInv'
  <2>1. replaced' \in [Accounts -> Seq(Nat)]
    <3>1. replaced[a] \in Seq(Nat) /\ now \in Nat
          BY DEF CacheInv, CacheTypes
    <3>2. Append(replaced[a], now) \in Seq(Nat)
          BY <3>1, AppendProperties
    <3>3. QED BY <1>2, <3>2 DEF StoreCredentials, CacheInv, CacheTypes
  <2>2. botCache' \in [Accounts -> Nat \cup {NotCached}] /\ version' \in [Accounts -> Nat]
        BY <1>2 DEF StoreCredentials, Invalidate, CacheInv, CacheTypes
  <2>3. QED BY <1>2, <2>1, <2>2, SMTT(30) DEF StoreCredentials, CacheInv, CacheTypes, Building
<1>3. ASSUME NEW a \in Accounts, DeleteAccount(a) PROVE CacheInv'
  <2>1. replaced' \in [Accounts -> Seq(Nat)]
    <3>1. replaced[a] \in Seq(Nat) /\ now \in Nat
          BY DEF CacheInv, CacheTypes
    <3>2. Append(replaced[a], now) \in Seq(Nat)
          BY <3>1, AppendProperties
    <3>3. QED BY <1>3, <3>2 DEF DeleteAccount, CacheInv, CacheTypes
  <2>2. botCache' \in [Accounts -> Nat \cup {NotCached}] /\ version' \in [Accounts -> Nat]
        BY <1>3 DEF DeleteAccount, CacheInv, CacheTypes
  <2>3. QED BY <1>3, <2>1, <2>2 DEF DeleteAccount, CacheInv, CacheTypes, Building
<1>4. ASSUME NEW a \in Accounts, BotTrade(a) \/ BotDrops(a) PROVE CacheInv'
  <2>1. \E v \in Nat \cup {NotCached} : botCache' = [botCache EXCEPT ![a] = v]
        BY <1>4 DEF BotTrade, BotDrops, CacheInv, CacheTypes
  <2>2. botCache' \in [Accounts -> Nat \cup {NotCached}]
        BY <2>1 DEF CacheInv, CacheTypes
  <2>3. UNCHANGED <<now, rows, version, replaced, webCache, lock, pc, wants, loaded, staleness>>
        BY <1>4 DEF BotTrade, BotDrops
  <2>4. QED BY <2>2, <2>3 DEF CacheInv, CacheTypes, Building
<1>5. ASSUME NEW r \in Requests, NEW a \in Accounts, Resolve(r, a) PROVE CacheInv'
  <2>1. pc' = [pc EXCEPT ![r] = "lock"] /\ wants' = [wants EXCEPT ![r] = a] /\ pc[r] = "idle"
        BY <1>5 DEF Resolve
  <2>2. CacheTypes'
        BY <1>5, <2>1 DEF Resolve, CacheInv, CacheTypes
  <2>3. \A b \in Accounts : \A s \in Requests : lock[b] = s <=> s \in Building' /\ wants'[s] = b
        BY <2>1 DEF CacheInv, CacheTypes, Building
  <2>4. QED BY <1>5, <2>2, <2>3 DEF Resolve, CacheInv
<1>6. ASSUME NEW e, NEW r \in Requests, CacheOf(webCache', e), wants[r] \in Accounts,
             UNCHANGED <<now, rows, version, replaced, botCache>>, staleness' \in 0 .. MaxClock,
             pc[r] # "idle", pc' = [pc EXCEPT ![r] = "idle"], wants' = [wants EXCEPT ![r] = NoAccount],
             loaded' \in [Requests -> Nat],
             \/ pc[r] = "lock" /\ lock' = lock
             \/ r \in Building /\ lock' = [lock EXCEPT ![wants[r]] = Nobody]
      PROVE  CacheInv'
  <2>1. lock' \in [Accounts -> Requests \cup {Nobody}]
    <3>1. lock \in [Accounts -> Requests \cup {Nobody}]
          BY DEF CacheInv, CacheTypes
    <3>2. lock' = lock \/ lock' = [lock EXCEPT ![wants[r]] = Nobody]
          BY <1>6
    <3>3. QED BY <3>1, <3>2
  <2>2. CacheTypes'
        BY <1>6, <2>1, SMTT(30) DEF CacheInv, CacheTypes, CacheOf, Client
  <2>3. \A b \in Accounts : \A s \in Requests : lock'[b] = s <=> s \in Building' /\ wants'[s] = b
    <3>1. CASE pc[r] = "lock" /\ lock' = lock
          BY <1>6, <3>1, SMTT(30) DEF CacheInv, CacheTypes, Building
    <3>2. CASE r \in Building /\ lock' = [lock EXCEPT ![wants[r]] = Nobody]
          BY <1>6, <3>2 DEF CacheInv, CacheTypes, Building, Nobody
    <3>3. QED BY <1>6, <3>1, <3>2
  <2>4. QED BY <1>6, <2>2, <2>3 DEF CacheInv, CacheOf
<1>7. ASSUME NEW r \in Requests, Hit(r) PROVE CacheInv'
  <2>1. wants[r] \in Accounts
        BY <1>7 DEF Hit, CacheInv, CacheTypes
  <2>2. PICK e \in Cached(wants[r]) :
            webCache' = Append(Others(wants[r]), Touch(e)) /\ staleness' = Worse(wants[r], e.version)
        BY <1>7 DEF Hit
  <2>3. CacheOf(webCache', e)
        BY <2>1, <2>2, HitIsOfCache
  <2>4. e.version \in Nat
    <3>1. e \in Client
          BY CachedClients DEF Cached, Places
    <3>2. QED BY <3>1 DEF Client
  <2>5. staleness' \in 0 .. MaxClock
        BY <2>1, <2>2, <2>4, AgeType
  <2>6. QED BY <1>6, <1>7, <2>1, <2>3, <2>5 DEF Hit, CacheInv, CacheTypes
<1>8. ASSUME NEW r \in Requests, Miss(r) PROVE CacheInv'
  <2> DEFINE a == wants[r]
  <2>1. /\ a \in Accounts /\ pc[r] = "lock" /\ lock[a] = Nobody
        /\ lock' = [lock EXCEPT ![a] = r] /\ pc' = [pc EXCEPT ![r] = "load"] /\ webCache' = Others(a)
        /\ UNCHANGED <<now, rows, version, replaced, botCache, wants, loaded, staleness>>
        BY <1>8 DEF Miss, Free, CacheInv, CacheTypes
  <2>2. OfCache(webCache') /\ Len(webCache') <= Len(webCache)
        BY <2>1, OthersOfCache
  <2>3. Len(webCache') <= MaxClients
        BY <2>2, LenProperties DEF OfCache, CacheInv, CacheTypes
  <2>4. CacheTypes'
        BY <2>1, <2>2 DEF CacheInv, CacheTypes, OfCache, Client
  <2>5. \A b \in Accounts : \A s \in Requests : lock'[b] = s <=> s \in Building' /\ wants'[s] = b
        BY <2>1 DEF CacheInv, CacheTypes, Building, Nobody
  <2>6. QED BY <2>2, <2>3, <2>4, <2>5 DEF CacheInv, OfCache
<1>9. ASSUME NEW r \in Requests, Load(r) PROVE CacheInv'
  <2>1. /\ pc[r] = "load" /\ wants[r] \in Accounts /\ loaded' = [loaded EXCEPT ![r] = version[wants[r]]]
        /\ pc' = [pc EXCEPT ![r] = "build"]
        /\ UNCHANGED <<now, rows, version, replaced, botCache, webCache, lock, wants, staleness>>
        BY <1>9 DEF Load, CacheInv, CacheTypes
  <2>2. CacheTypes'
        BY <2>1 DEF CacheInv, CacheTypes
  <2>3. Building' = Building
        BY <2>1 DEF CacheInv, CacheTypes, Building
  <2>4. QED BY <2>1, <2>2, <2>3 DEF CacheInv
<1>10. ASSUME NEW r \in Requests, Fail(r) PROVE CacheInv'
  <2>1. /\ pc[r] \in {"load", "build"} /\ wants[r] \in Accounts /\ lock' = [lock EXCEPT ![wants[r]] = Nobody]
        /\ pc' = [pc EXCEPT ![r] = "idle"] /\ wants' = [wants EXCEPT ![r] = NoAccount]
        /\ loaded' = [loaded EXCEPT ![r] = 0]
        /\ UNCHANGED <<now, rows, version, replaced, botCache, webCache, staleness>>
        BY <1>10 DEF Fail, Released, CacheInv, CacheTypes
  <2>2. CacheOf(webCache', 0) /\ staleness' \in 0 .. MaxClock /\ loaded' \in [Requests -> Nat]
        BY <2>1, CacheOfItself DEF CacheInv, CacheTypes, CacheOf, OfCache
  <2>3. QED BY <1>6, <2>1, <2>2 DEF Building
<1>11. ASSUME NEW r \in Requests, Build(r) PROVE CacheInv'
  <2>1. /\ pc[r] = "build" /\ wants[r] \in Accounts /\ lock' = [lock EXCEPT ![wants[r]] = Nobody]
        /\ pc' = [pc EXCEPT ![r] = "idle"] /\ wants' = [wants EXCEPT ![r] = NoAccount]
        /\ webCache' = Put(wants[r], loaded[r]) /\ staleness' = Worse(wants[r], loaded[r])
        /\ loaded' = [loaded EXCEPT ![r] = 0]
        /\ UNCHANGED <<now, rows, version, replaced, botCache>>
        BY <1>11 DEF Build, Released, CacheInv, CacheTypes
  <2>2. loaded[r] \in Nat /\ loaded' \in [Requests -> Nat]
        BY <2>1 DEF CacheInv, CacheTypes
  <2>3. CacheOf(webCache', [account |-> wants[r], version |-> loaded[r], created |-> now])
        BY <2>1, <2>2, PutIsOfCache
  <2>4. staleness' \in 0 .. MaxClock
        BY <2>1, <2>2, AgeType
  <2>5. QED BY <1>6, <2>1, <2>2, <2>3, <2>4 DEF Building
<1>12. CASE Tick
      BY <1>12 DEF Tick, CacheInv, CacheTypes, Building
<1>13. QED
  BY <1>1, <1>2, <1>3, <1>4, <1>5, <1>7, <1>8, <1>9, <1>10, <1>11, <1>12
  DEF CacheNext

\* A change of credentials replaces the newest version now, and no older one
\* again.
LEMMA ChangeKeepsCurrent ==
  ASSUME CacheInv, StalenessInv, NEW a \in Accounts,
         version' = [version EXCEPT ![a] = @ + 1], replaced' = [replaced EXCEPT ![a] = Append(@, now)],
         UNCHANGED <<now, webCache, pc, wants, loaded>>
  PROVE  StalenessInv'
<1>1. replaced[a] \in Seq(Nat) /\ Len(replaced[a]) \in Nat /\ now \in Nat
      BY LenProperties DEF CacheInv, CacheTypes
<1>2. /\ Len(Append(replaced[a], now)) = Len(replaced[a]) + 1
      /\ Append(replaced[a], now)[Len(replaced[a]) + 1] = now
      /\ \A i \in 1 .. Len(replaced[a]) : Append(replaced[a], now)[i] = replaced[a][i]
      /\ Append(replaced[a], now) \in Seq(Nat)
      BY <1>1, AppendProperties
<1>3. DOMAIN Append(replaced[a], now) = 1 .. Len(replaced[a]) + 1 /\ DOMAIN replaced[a] = 1 .. Len(replaced[a])
      BY <1>1, <1>2, LenProperties
<1>4. replaced'[a] = Append(replaced[a], now) /\ \A b \in Accounts \ {a} : replaced'[b] = replaced[b]
      BY DEF CacheInv, CacheTypes
<1>5. ASSUME NEW b \in Accounts
      PROVE  Len(replaced'[b]) = version'[b] /\ \A i \in DOMAIN replaced'[b] : replaced'[b][i] <= now
  <2>1. CASE b = a
    <3>1. Len(replaced'[b]) = version'[b]
          BY <1>2, <1>4, <2>1 DEF StalenessInv, CacheInv, CacheTypes
    <3>2. ASSUME NEW i \in DOMAIN replaced'[b] PROVE replaced'[b][i] <= now
      <4>1. i = Len(replaced[a]) + 1 \/ i \in DOMAIN replaced[a]
            BY <1>1, <1>3, <1>4, <2>1
      <4>2. QED BY <1>1, <1>2, <1>3, <1>4, <2>1, <4>1 DEF StalenessInv
    <3>3. QED BY <3>1, <3>2
  <2>2. CASE b # a
        BY <1>4, <2>2 DEF StalenessInv, CacheInv, CacheTypes
  <2>3. QED BY <2>1, <2>2
<1>6. ASSUME NEW b \in Accounts, NEW v \in Nat, NEW t \in Nat, t <= now, CurrentUntil(b, v, t)
      PROVE  CurrentUntil(b, v, t)'
  <2>1. CASE b = a
    <3>1. SUFFICES ASSUME v < Len(replaced[a]) + 1 PROVE t <= Append(replaced[a], now)[v + 1]
          BY <1>2, <1>4, <2>1 DEF CurrentUntil
    <3>2. CASE v = Len(replaced[a])
          BY <1>2, <1>6, <3>2
    <3>3. CASE v < Len(replaced[a])
      <4>1. v + 1 \in 1 .. Len(replaced[a])
            BY <1>1, <3>3
      <4>2. Append(replaced[a], now)[v + 1] = replaced[a][v + 1]
            BY <1>2, <4>1
      <4>3. QED BY <1>6, <2>1, <3>3, <4>2 DEF CurrentUntil
    <3>4. QED BY <1>1, <3>1, <3>2, <3>3
  <2>2. CASE b # a
        BY <1>4, <1>6, <2>2 DEF CurrentUntil
  <2>3. QED BY <2>1, <2>2
<1>7. ASSUME NEW i \in DOMAIN webCache
      PROVE  LET e == webCache[i] IN e.created <= now /\ CurrentUntil(e.account, e.version, e.created)'
  <2>1. webCache[i] \in Client
        BY CachedClients
  <2>2. QED BY <1>6, <2>1 DEF StalenessInv, Client
<1>8. ASSUME NEW r \in Requests, pc[r] = "build" PROVE CurrentUntil(wants[r], loaded[r], now)'
  <2>1. wants[r] \in Accounts /\ loaded[r] \in Nat /\ CurrentUntil(wants[r], loaded[r], now)
        BY <1>8 DEF StalenessInv, CacheInv, CacheTypes
  <2>2. QED BY <1>1, <1>6, <2>1
<1>9. QED BY <1>5, <1>7, <1>8 DEF StalenessInv

\* Every step keeps the clients as current as they were.
LEMMA StalenessStep == CacheInv /\ StalenessInv /\ [CacheNext]_cacheVars => StalenessInv'
<1> SUFFICES ASSUME CacheInv, StalenessInv, [CacheNext]_cacheVars PROVE StalenessInv'
    OBVIOUS
<1>1. ASSUME UNCHANGED <<now, version, replaced, webCache>>,
             \A r \in Requests : pc'[r] = "build" => CurrentUntil(wants'[r], loaded'[r], now)
      PROVE  StalenessInv'
      BY <1>1 DEF StalenessInv, CurrentUntil
<1>2. CASE UNCHANGED <<now, version, replaced, webCache, pc, wants, loaded>>
      BY <1>2 DEF StalenessInv, CurrentUntil
<1>3. ASSUME NEW a \in Accounts, StoreCredentials(a) \/ DeleteAccount(a) PROVE StalenessInv'
  <2>1. /\ version' = [version EXCEPT ![a] = @ + 1] /\ replaced' = [replaced EXCEPT ![a] = Append(@, now)]
        /\ UNCHANGED <<now, webCache, pc, wants, loaded>>
        BY <1>3 DEF StoreCredentials, DeleteAccount
  <2>2. QED BY <2>1, ChangeKeepsCurrent
<1>4. ASSUME NEW r \in Requests, NEW a \in Accounts, Resolve(r, a) PROVE StalenessInv'
  <2>1. \A s \in Requests : pc'[s] = "build" => CurrentUntil(wants'[s], loaded'[s], now)
        BY <1>4 DEF Resolve, StalenessInv, CacheInv, CacheTypes
  <2>2. QED BY <1>1, <1>4, <2>1 DEF Resolve
<1>5. ASSUME NEW r \in Requests, Hit(r) PROVE StalenessInv'
  <2>1. wants[r] \in Accounts
        BY <1>5 DEF Hit, CacheInv, CacheTypes
  <2>2. PICK e \in Cached(wants[r]) : webCache' = Append(Others(wants[r]), Touch(e))
        BY <1>5 DEF Hit
  <2>3. CacheOf(webCache', e)
        BY <2>1, <2>2, HitIsOfCache
  <2>4. \E i \in DOMAIN webCache : e = webCache[i]
        BY DEF Cached, Places
  <2>5. \A s \in Requests : pc'[s] = "build" => CurrentUntil(wants'[s], loaded'[s], now)
        BY <1>5 DEF Hit, StalenessInv, CacheInv, CacheTypes
  <2>6. \A i \in DOMAIN webCache' :
            LET c == webCache'[i] IN c.created <= now /\ CurrentUntil(c.account, c.version, c.created)
        BY <2>3, <2>4 DEF CacheOf, StalenessInv
  <2>7. UNCHANGED <<now, version, replaced>>
        BY <1>5 DEF Hit
  <2>8. QED BY <2>5, <2>6, <2>7 DEF StalenessInv, CurrentUntil
<1>6. ASSUME NEW r \in Requests, Miss(r) PROVE StalenessInv'
  <2>1. OfCache(webCache')
        BY <1>6, OthersOfCache DEF Miss, CacheInv, CacheTypes
  <2>2. \A s \in Requests : pc'[s] = "build" => CurrentUntil(wants'[s], loaded'[s], now)
        BY <1>6 DEF Miss, StalenessInv, CacheInv, CacheTypes
  <2>3. \A i \in DOMAIN webCache' :
            LET c == webCache'[i] IN c.created <= now /\ CurrentUntil(c.account, c.version, c.created)
        BY <2>1 DEF OfCache, StalenessInv
  <2>4. UNCHANGED <<now, version, replaced>>
        BY <1>6 DEF Miss
  <2>5. QED BY <2>2, <2>3, <2>4 DEF StalenessInv, CurrentUntil
<1>7. ASSUME NEW r \in Requests, Load(r) PROVE StalenessInv'
  <2>1. CurrentUntil(wants[r], version[wants[r]], now)
    <3>1. wants[r] \in Accounts
          BY <1>7 DEF Load, CacheInv, CacheTypes
    <3>2. Len(replaced[wants[r]]) = version[wants[r]] /\ version[wants[r]] \in Nat
          BY <3>1 DEF StalenessInv, CacheInv, CacheTypes
    <3>3. QED BY <3>2 DEF CurrentUntil
  <2>2. \A s \in Requests : pc'[s] = "build" => CurrentUntil(wants'[s], loaded'[s], now)
        BY <1>7, <2>1 DEF Load, StalenessInv, CacheInv, CacheTypes
  <2>3. QED BY <1>1, <1>7, <2>2 DEF Load
<1>8. ASSUME NEW r \in Requests, Fail(r) PROVE StalenessInv'
  <2>1. \A s \in Requests : pc'[s] = "build" => CurrentUntil(wants'[s], loaded'[s], now)
        BY <1>8 DEF Fail, StalenessInv, CacheInv, CacheTypes
  <2>2. QED BY <1>1, <1>8, <2>1 DEF Fail
<1>9. ASSUME NEW r \in Requests, Build(r) PROVE StalenessInv'
  <2> DEFINE e == [account |-> wants[r], version |-> loaded[r], created |-> now]
  <2>1. pc[r] = "build" /\ wants[r] \in Accounts /\ loaded[r] \in Nat
        BY <1>9 DEF Build, CacheInv, CacheTypes
  <2>2. CacheOf(webCache', e)
        BY <1>9, <2>1, PutIsOfCache DEF Build
  <2>3. e.created <= now /\ CurrentUntil(e.account, e.version, e.created)
        BY <2>1 DEF StalenessInv, CacheInv, CacheTypes
  <2>4. \A s \in Requests : pc'[s] = "build" => CurrentUntil(wants'[s], loaded'[s], now)
        BY <1>9 DEF Build, StalenessInv, CacheInv, CacheTypes
  <2>5. \A i \in DOMAIN webCache' :
            LET c == webCache'[i] IN c.created <= now /\ CurrentUntil(c.account, c.version, c.created)
    <3> HIDE DEF e
    <3>1. QED BY <2>2, <2>3 DEF CacheOf, StalenessInv
  <2>6. UNCHANGED <<now, version, replaced>>
        BY <1>9 DEF Build
  <2>7. QED BY <2>4, <2>5, <2>6 DEF StalenessInv, CurrentUntil
<1>10. CASE Tick
  <2>1. /\ now' = now + 1 /\ now \in Nat /\ Building = {}
        /\ UNCHANGED <<version, replaced, webCache, pc, wants, loaded>>
        BY <1>10 DEF Tick, CacheInv, CacheTypes
  <2>2. \A r \in Requests : pc[r] # "build"
        BY <2>1 DEF Building
  <2>3. \A a \in Accounts : \A i \in DOMAIN replaced[a] : replaced[a][i] \in Nat
        BY LenProperties DEF CacheInv, CacheTypes
  <2>4. \A i \in DOMAIN webCache : webCache[i].created \in Nat
        BY CachedClients DEF Client
  <2>5. QED BY <2>1, <2>2, <2>3, <2>4 DEF StalenessInv, CurrentUntil
<1>11. QED
  BY <1>2, <1>3, <1>4, <1>5, <1>6, <1>7, <1>8, <1>9, <1>10
  DEF CacheNext, cacheVars, BotTrade, BotDrops

\* The cache within its limit, a lock held exactly by the request that builds;
\* and nothing cached that was replaced before it was made.
THEOREM CacheInvariant == CacheSpec => [](CacheInv /\ StalenessInv)
<1>1. CacheInv /\ StalenessInv /\ [CacheNext]_cacheVars => (CacheInv /\ StalenessInv)'
      BY CacheStep, StalenessStep
<1>2. QED BY <1>1, InitCache, PTL DEF CacheSpec

\* Two requests that build for one account would hold one lock.
LEMMA BuiltOnce == CacheInv => OneBuildPerAccount
<1> SUFFICES ASSUME CacheInv, NEW r \in Building, NEW s \in Building, wants[r] = wants[s] PROVE r = s
    BY DEF OneBuildPerAccount
<1>1. wants[r] \in Accounts /\ r \in Requests /\ s \in Requests
      BY DEF CacheInv, CacheTypes, Building
<1>2. lock[wants[r]] = r /\ lock[wants[r]] = s
      BY <1>1 DEF CacheInv
<1>3. QED BY <1>2

\* The client of an account is built once for concurrent requests.
THEOREM AccountsAreBuiltOnce == CacheSpec => []OneBuildPerAccount
  BY BuiltOnce, CacheInvariant, PTL

LEMMA CurrentStep == CacheInv /\ StalenessInv /\ ClientsAreCurrent /\ [CacheNext]_cacheVars => ClientsAreCurrent'
<1> SUFFICES ASSUME CacheInv, StalenessInv, ClientsAreCurrent, [CacheNext]_cacheVars PROVE ClientsAreCurrent'
    OBVIOUS
<1> USE DEF ClientsAreCurrent
<1>1. BotSignsWithCurrentKeys'
  <2>1. CASE UNCHANGED <<rows, version, botCache>>
        BY <2>1 DEF BotSignsWithCurrentKeys
  <2>2. ASSUME NEW a \in Accounts, StoreCredentials(a) PROVE BotSignsWithCurrentKeys'
        BY <2>2 DEF StoreCredentials, Invalidate, BotSignsWithCurrentKeys
  <2>3. ASSUME NEW a \in Accounts, DeleteAccount(a) PROVE BotSignsWithCurrentKeys'
        BY <2>3 DEF DeleteAccount, BotSignsWithCurrentKeys, CacheInv, CacheTypes
  <2>4. ASSUME NEW a \in Accounts, BotTrade(a) PROVE BotSignsWithCurrentKeys'
        BY <2>4 DEF BotTrade, BotSignsWithCurrentKeys, CacheInv, CacheTypes
  <2>5. ASSUME NEW a \in Accounts, BotDrops(a) PROVE BotSignsWithCurrentKeys'
        BY <2>5 DEF BotDrops, BotSignsWithCurrentKeys, CacheInv, CacheTypes
  <2>6. QED
    BY <2>1, <2>2, <2>3, <2>4, <2>5
    DEF CacheNext, cacheVars, Resolve, Hit, Miss, Load, Fail, Build, Tick
<1>2. StalenessInv /\ now \in Nat /\ Ttl \in Nat /\ staleness \in Nat
      BY CacheAssumption DEF CacheInv, CacheTypes
<1>3. StaleClientsAreBounded'
  <2>1. CASE UNCHANGED staleness
        BY <2>1 DEF StaleClientsAreBounded
  <2>2. ASSUME NEW r \in Requests, Hit(r) PROVE StaleClientsAreBounded'
    <3>1. PICK e \in Cached(wants[r]) : ~Expired(e) /\ staleness' = Worse(wants[r], e.version)
          BY <2>2 DEF Hit
    <3>2. PICK i \in DOMAIN webCache : e = webCache[i] /\ e.account = wants[r]
          BY DEF Cached, Places
    <3>3. e \in Client /\ wants[r] \in Accounts
          BY <3>2, CachedClients DEF Client
    <3>4. e.created \in 0 .. now /\ CurrentUntil(wants[r], e.version, e.created)
          BY <1>2, <3>2, <3>3 DEF StalenessInv, Client
    <3>5. Age(wants[r], e.version) <= now - e.created /\ Age(wants[r], e.version) \in Nat
          BY <3>3, <3>4, AgeOfCurrent, AgeType DEF Client
    <3>6. now - e.created <= Ttl
          BY <1>2, <3>1, <3>4 DEF Expired
    <3>7. Age(wants[r], e.version) <= Ttl
          BY <1>2, <3>4, <3>5, <3>6
    <3>8. QED BY <3>1, <3>7 DEF Worse, StaleClientsAreBounded
  <2>3. ASSUME NEW r \in Requests, Build(r) PROVE StaleClientsAreBounded'
    <3>1. pc[r] = "build" /\ wants[r] \in Accounts /\ loaded[r] \in Nat /\ staleness' = Worse(wants[r], loaded[r])
          BY <2>3 DEF Build, CacheInv, CacheTypes
    <3>2. CurrentUntil(wants[r], loaded[r], now) /\ now \in 0 .. now
          BY <1>2, <3>1 DEF StalenessInv
    <3>3. Age(wants[r], loaded[r]) <= now - now /\ Age(wants[r], loaded[r]) \in Nat
          BY <3>1, <3>2, AgeOfCurrent, AgeType
    <3>4. Age(wants[r], loaded[r]) <= Ttl
          BY <1>2, <3>3
    <3>5. QED BY <3>1, <3>4 DEF Worse, StaleClientsAreBounded
  <2>4. QED
    BY <2>1, <2>2, <2>3
    DEF CacheNext, cacheVars, StoreCredentials, DeleteAccount, BotTrade, BotDrops, Resolve, Miss, Load, Fail, Tick
<1>4. QED BY <1>1, <1>3

\* The bot signs with the credentials of the database, and the Mini App goes on
\* with replaced ones for at most the TTL.
THEOREM CredentialsAreCurrent == CacheSpec => []ClientsAreCurrent
<1>1. CacheInit => ClientsAreCurrent
      BY CacheAssumption DEF CacheInit, ClientsAreCurrent, BotSignsWithCurrentKeys, StaleClientsAreBounded
<1>2. QED BY <1>1, CurrentStep, CacheInvariant, PTL DEF CacheSpec

-----------------------------------------------------------------------------
(* The parts of MCProgress together: ClientCache, Crawler and Activity.     *)

\* Whichever part moves, each takes a step of its own or none.
LEMMA PartsMoveAlone ==
  [ProgressNext]_progressVars =>
     [ActivityNext]_activityVars /\ [CacheNext]_cacheVars /\ [CrawlNext]_crawlVars
<1>1. CASE RecordingAlone /\ ActivityNext
      BY <1>1 DEF RecordingAlone
<1>2. CASE ClientsAlone /\ CacheNext
      BY <1>2 DEF ClientsAlone
<1>3. CASE CrawlAlone /\ CrawlNext
      BY <1>3 DEF CrawlAlone
<1>4. CASE UNCHANGED progressVars
      BY <1>4 DEF progressVars
<1>5. QED BY <1>1, <1>2, <1>3, <1>4 DEF ProgressNext

\* Beside the jobs and requests of the others too, a row of statistics is held by
\* the recording that read it, an account is built once for concurrent requests
\* and an article stored once.
THEOREM PartsKeepTheirInvariants == ProgressSpec => []ProgressInv
<1>1. ProgressInit => ProgressInv
      BY BuiltOnce, ActivityStarts, InitCache, InitCrawl DEF ProgressInit, ProgressInv
<1>2. ProgressInv /\ [ProgressNext]_progressVars => ProgressInv'
  <2>1. (CacheInv => OneBuildPerAccount)'
        BY BuiltOnce, PTL
  <2>2. QED BY <2>1, PartsMoveAlone, ActivityStep, CacheStep, StalenessStep, CrawlStep DEF ProgressInv
<1>3. QED BY <1>1, <1>2, PTL DEF ProgressSpec
=============================================================================
