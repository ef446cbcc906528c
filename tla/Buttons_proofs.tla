--------------------------- MODULE Buttons_proofs ---------------------------
(***************************************************************************)
(* Proofs about what buttons stand for: in the bet funnel (BetFunnel),     *)
(* for any markets, lists, links and wallets; under the news (NewsCta),    *)
(* for any headlines, events and pools; on the screens of positions and    *)
(* orders (OrderDesk), for any answers of Polymarket.  FunnelInv is        *)
(* inductive: a generation is used for one list or one bet and never       *)
(* again by the same process (ChatInv), so a button that resolves at all   *)
(* resolves to what its message showed.  The bets under a news item are    *)
(* the ranks of events that share its words, fixed once it is matched.     *)
(* The index on a button of the newest list is that of its row in the      *)
(* stash.                                                                  *)
(***************************************************************************)
EXTENDS BetFunnel, NewsCta, OrderDesk, FiniteSetTheorems, SequenceTheorems,
        WellFoundedInduction, TLAPS

\* What resolves is the line of the present list.
LEMMA ResolvedLine ==
  ASSUME NEW d, d.mkts \in Seq(Markets), NEW gen, NEW idx, Resolve(d, gen, idx) # NoMarket
  PROVE  /\ d.gen = gen /\ idx \in DOMAIN d.mkts
         /\ Resolve(d, gen, idx) = d.mkts[idx] /\ Resolve(d, gen, idx) \in Markets
<1>1. d.gen = gen /\ idx \in DOMAIN d.mkts /\ Resolve(d, gen, idx) = d.mkts[idx]
      BY DEF Resolve
<1>2. QED BY <1>1, LenProperties

\* Placing a bet stores d and asks for at most the one prompt of the button.
LEMMA PlacedPrompt ==
  ASSUME NEW d, NEW b, NEW side, NEW placed \in BOOLEAN, PlaceBetAmount(d, b, side, placed)
  PROVE  /\ data' = d
         /\ \/ UNCHANGED prompts
            \/ Resolve(d, b.gen, b.idx) # NoMarket /\ prompts' = prompts \cup {Prompt(d, b, side)}
  BY DEF PlaceBetAmount, MayPlace

\* The bet of link l, with the intent pid, is entered: one generation further,
\* wallets offered in buttons, or a prompt without a wallet.
BetEntered(l, pid) ==
    /\ data.gen < MaxGen /\ data' = EnterBet(l, pid)
    /\ \E offer \in SUBSET accts :
          sent' = sent \cup {Button("picker", data.gen + 1, 1, Outcome[l][1], l, a) : a \in offer}
    /\ \/ UNCHANGED prompts
       \/ prompts' = prompts \cup
            {Prompt(EnterBet(l, pid), Button("picker", data.gen + 1, 1, Outcome[l][1], l, NoAccount),
                    Outcome[l][2])}

LEMMA BetShown ==
  ASSUME FunnelInv, NEW l \in Links, NEW pid, NEW shown \in BOOLEAN, ShowMarketForBet(l, pid, shown)
  PROVE  UNCHANGED <<data, sent, prompts>> \/ BetEntered(l, pid)
<1> DEFINE d == EnterBet(l, pid)
           button(a) == Button("picker", d.gen, 1, Outcome[l][1], l, a)
<1>1. CASE UNCHANGED <<data, sent, prompts>>
      BY <1>1
<1>2. CASE ~UNCHANGED <<data, sent, prompts>>
  <2>1. d.gen = data.gen + 1
        BY DEF EnterBet, NewList, FunnelInv, FunnelTypes
  <2>2. data.gen < MaxGen - epoch
        BY <1>2 DEF ShowMarketForBet
  <2>3. data.gen < MaxGen
        BY <2>2, FunnelConstants DEF BetFunnelAssumption, FunnelInv, FunnelTypes
  <2>4. PICK listed \in {accts, {}} :
            \/ /\ Cardinality(listed) > 1 /\ shown
               /\ data' = d /\ prompts' = prompts
               /\ sent' = sent \cup {button(a) : a \in listed}
            \/ /\ Cardinality(listed) <= 1
               /\ PlaceBetAmount(d, button(NoAccount), Outcome[l][2], shown)
               /\ sent' = sent
        BY <1>2 DEF ShowMarketForBet
  <2>5. CASE /\ data' = d /\ prompts' = prompts
             /\ sent' = sent \cup {button(a) : a \in listed}
        BY <2>1, <2>3, <2>5 DEF BetEntered
  <2>6. CASE PlaceBetAmount(d, button(NoAccount), Outcome[l][2], shown) /\ sent' = sent
    <3>1. data' = d
          BY <2>6, PlacedPrompt
    <3>2. prompts' = prompts \/ prompts' = prompts \cup {Prompt(d, button(NoAccount), Outcome[l][2])}
          BY <2>6, PlacedPrompt
    <3>3. \E offer \in SUBSET accts :
             sent' = sent \cup {Button("picker", data.gen + 1, 1, Outcome[l][1], l, a) : a \in offer}
      <4>1. sent' = sent \cup {Button("picker", data.gen + 1, 1, Outcome[l][1], l, a) : a \in {}}
            BY <2>6
      <4>2. {} \in SUBSET accts
            OBVIOUS
      <4>3. QED BY <4>1, <4>2
    <3>4. QED BY <2>1, <2>3, <3>1, <3>2, <3>3 DEF BetEntered
  <2>7. QED BY <2>4, <2>5, <2>6
<1>3. QED BY <1>1, <1>2

\* Entering a bet leaves user_data in shape, and the buttons.
LEMMA BetEnteredTypes ==
  ASSUME FunnelInv, NEW l \in Links, NEW pid \in Links \cup {NoLink}, BetEntered(l, pid)
  PROVE  /\ sent \subseteq sent' /\ sent' \subseteq Buttons
         /\ data' \in [gen : 0 .. MaxGen, mkts : Seq(Markets), bet : StashedBets,
                       awaiting : SUBSET (Buttons \X Sides), late : BOOLEAN, armed : BOOLEAN]
         /\ data'.gen = data.gen + 1 /\ data'.mkts = <<Outcome[l][1]>> /\ data'.awaiting = {}
         /\ data'.bet = [gen |-> data.gen + 1, link |-> l, pid |-> pid, account |-> NoAccount]
<1> USE FunnelConstants DEF BetFunnelAssumption
<1>1. Outcome[l][1] \in Markets /\ Outcome[l] \in Markets \X Sides
      OBVIOUS
<1>2. <<Outcome[l][1]>> \in Seq(Markets)
      BY <1>1
<1>3. data.gen \in Nat /\ data.gen + 1 \in 0 .. MaxGen /\ data.gen + 1 \in Nat \ {0}
      BY DEF BetEntered, FunnelInv, FunnelTypes
<1>4. data' = EnterBet(l, pid)
      BY DEF BetEntered
<1>5. /\ data'.gen = data.gen + 1 /\ data'.mkts = <<Outcome[l][1]>> /\ data'.awaiting = {}
      /\ data'.bet = [gen |-> data.gen + 1, link |-> l, pid |-> pid, account |-> NoAccount]
      BY <1>4 DEF EnterBet, NewList, FunnelInv, FunnelTypes
<1>6. data' \in [gen : 0 .. MaxGen, mkts : Seq(Markets), bet : StashedBets,
                 awaiting : SUBSET (Buttons \X Sides), late : BOOLEAN, armed : BOOLEAN]
      BY <1>2, <1>3, <1>4 DEF EnterBet, NewList, StashedBets, FunnelInv, FunnelTypes
<1>7. epoch \in Nat
      BY DEF FunnelInv, FunnelTypes
<1>8. \A a \in accts : Button("picker", data.gen + 1, 1, Outcome[l][1], l, a) \in Buttons
      BY <1>1, <1>3, <1>7 DEF Button, Buttons, FunnelInv, FunnelTypes
<1>9. sent \subseteq sent' /\ sent' \subseteq Buttons
      BY <1>8 DEF BetEntered, FunnelInv, FunnelTypes
<1>10. QED BY <1>5, <1>6, <1>9

DataType == [gen : 0 .. MaxGen, mkts : Seq(Markets), bet : StashedBets, awaiting : SUBSET (Buttons \X Sides),
             late : BOOLEAN, armed : BOOLEAN]
IntentsType == [Links -> [status : IntentStatus, id : Nat, left : Nat]]

\* A step that adds buttons, and awaits no other text message, keeps the types.
LEMMA TypesKept ==
  ASSUME FunnelInv, epoch' \in 0 .. MaxRestarts, data' \in DataType, data'.awaiting \in {data.awaiting, {}},
         sent \subseteq sent', sent' \subseteq Buttons, accts' \subseteq Accounts,
         offered' \subseteq Links, intents' \in IntentsType
  PROVE  FunnelTypes'
<1>1. CASE data'.awaiting = {}
  <2>1. Cardinality(data'.awaiting) <= 1
        BY <1>1, FS_EmptySet
  <2>2. QED BY <1>1, <2>1 DEF FunnelTypes, DataType, IntentsType
<1>2. CASE data'.awaiting = data.awaiting
  <2>1. data'.awaiting \subseteq {b \in sent' : b.kind = "amounts"} \X Sides
        BY <1>2 DEF FunnelInv, FunnelTypes
  <2>2. Cardinality(data'.awaiting) <= 1
        BY <1>2 DEF FunnelInv, FunnelTypes
  <2>3. QED BY <2>1, <2>2 DEF FunnelTypes, DataType, IntentsType
<1>3. QED BY <1>1, <1>2

\* What the types give a step that leaves some of the state alone.
LEMMA TypesOf ==
  ASSUME FunnelInv
  PROVE  /\ epoch \in 0 .. MaxRestarts /\ data \in DataType /\ sent \subseteq Buttons /\ accts \subseteq Accounts
         /\ offered \subseteq Links /\ intents \in IntentsType
  BY DEF FunnelInv, FunnelTypes, DataType, IntentsType

LEMMA InitFunnel == Init => FunnelInv
<1> SUFFICES ASSUME Init PROVE FunnelInv
    OBVIOUS
<1> USE FunnelConstants DEF BetFunnelAssumption
<1>1. data \in DataType /\ Cardinality(data.awaiting) <= 1
      BY EmptySeq, FS_EmptySet DEF Init, Fresh, NoBet, StashedBets, DataType
<1>2. intents \in IntentsType /\ Rows = {}
      BY DEF Init, NoRow, Rows, IntentsType, IntentStatus
<1>3. FunnelTypes
      BY <1>1, <1>2 DEF Init, Fresh, FunnelTypes, DataType, IntentsType
<1>4. ChatInv
      BY DEF Init, Fresh, NoBet, ChatInv
<1>5. IsFiniteSet(Rows) /\ {intents[l].id : l \in Rows} = 1 .. Cardinality(Rows)
      BY <1>2, FS_EmptySet
<1>6. IntentsInv
      BY <1>5 DEF Init, Fresh, NoBet, Idle, IntentsInv
<1>7. QED BY <1>3, <1>4, <1>6 DEF FunnelInv

\* The newest of the intents that wait is one of them.
LEMMA LatestIsPending ==
  ASSUME FunnelInv, LivePending # {}
  PROVE  LatestPending \in LivePending
<1> DEFINE n == Cardinality(Rows)
           Behind == {n - intents[l].id : l \in LivePending}
<1>1. LivePending \subseteq Rows
      BY DEF LivePending, Rows
<1>2. n \in Nat /\ \A l \in LivePending : intents[l].id \in 1 .. n
      BY <1>1, FS_CardinalityType DEF FunnelInv, IntentsInv
<1>3. Behind \subseteq Nat /\ Behind # {}
      BY <1>2
<1>4. PICK k \in Behind : \A m \in Behind : ~ (<<m, k>> \in OpToRel(<, Nat))
      BY <1>3, NatLessThanWellFounded, WFMin, Zenon
<1>5. \A m, o \in Nat : m < o => <<m, o>> \in OpToRel(<, Nat)
      BY Zenon DEF OpToRel
<1>6. \A m \in Behind : k <= m
  <2>1. \A m \in Behind : ~ (m < k)
        BY <1>3, <1>4, <1>5
  <2>2. k \in Nat /\ \A m \in Behind : m \in Nat
        BY <1>3, <1>4
  <2> HIDE DEF Behind
  <2>3. QED BY <2>1, <2>2
<1>7. PICK l \in LivePending : k = n - intents[l].id
      BY <1>4
<1>8. ASSUME NEW j \in LivePending PROVE intents[j].id <= intents[l].id
  <2>1. k <= n - intents[j].id
        BY <1>6
  <2>2. QED BY <1>2, <1>7, <2>1
<1>9. QED BY <1>8 DEF LatestPending

\* A resumption, and the tap of a link, enter a bet of a link that exists.
LEMMA ShowMarketTypes ==
  ASSUME FunnelInv, NEW l \in Links, NEW pid \in Links \cup {NoLink}, NEW shown \in BOOLEAN,
         ShowMarketForBet(l, pid, shown)
  PROVE  /\ data' \in DataType /\ data'.awaiting \in {data.awaiting, {}}
         /\ sent \subseteq sent' /\ sent' \subseteq Buttons
<1>1. CASE UNCHANGED <<data, sent>>
      BY <1>1, TypesOf
<1>2. CASE BetEntered(l, pid)
      BY <1>2, BetEnteredTypes DEF DataType
<1>3. QED BY <1>1, <1>2, BetShown

\* Every step keeps the types.
LEMMA TypesStep == FunnelInv /\ [Next]_vars => FunnelTypes'
<1> SUFFICES ASSUME FunnelInv, [Next]_vars PROVE FunnelTypes'
    OBVIOUS
<1> USE FunnelConstants DEF BetFunnelAssumption
<1>1. CASE UNCHANGED vars
      BY <1>1, TypesOf, TypesKept DEF vars
<1>2. ASSUME NEW mkts \in Lists, ShowMarkets(mkts) PROVE FunnelTypes'
  <2>1. epoch \in Nat /\ data.gen + 1 \in 0 .. MaxGen /\ data.gen + 1 \in Nat \ {0}
        BY <1>2, TypesOf DEF ShowMarkets, DataType
  <2>2. \A i \in DOMAIN mkts : i \in Nat /\ mkts[i] \in Markets
        BY LenProperties
  <2>3. data' \in DataType /\ data'.awaiting = data.awaiting
        BY <1>2, <2>1, TypesOf DEF ShowMarkets, NewList, DataType
  <2>4. \A i \in DOMAIN mkts : Button("list", data.gen + 1, i, mkts[i], NoLink, NoAccount) \in Buttons
        BY <2>1, <2>2 DEF Button, Buttons
  <2>5. sent \subseteq sent' /\ sent' \subseteq Buttons
        BY <1>2, <2>4, TypesOf DEF ShowMarkets
  <2>6. QED BY <1>2, <2>3, <2>5, TypesOf, TypesKept DEF ShowMarkets
<1>3. ASSUME NEW m \in Panels, ShowMarketById(m) PROVE FunnelTypes'
  <2>1. epoch \in Nat /\ data.gen + 1 \in 0 .. MaxGen /\ data.gen + 1 \in Nat \ {0}
        BY <1>3, TypesOf DEF ShowMarketById, DataType
  <2>2. m \in Markets /\ <<m>> \in Seq(Markets)
        OBVIOUS
  <2>3. data' \in DataType /\ data'.awaiting = data.awaiting
        BY <1>3, <2>1, <2>2, TypesOf DEF ShowMarketById, NewList, DataType
  <2>4. Button("amounts", data.gen + 1, 1, m, NoLink, NoAccount) \in Buttons
        BY <2>1, <2>2 DEF Button, Buttons
  <2>5. sent \subseteq sent' /\ sent' \subseteq Buttons
        BY <1>3, <2>4, TypesOf DEF ShowMarketById
  <2>6. QED BY <1>3, <2>3, <2>5, TypesOf, TypesKept DEF ShowMarketById
<1>4. ASSUME NEW b \in sent, OpenMarket(b) PROVE FunnelTypes'
  <2> DEFINE m == Resolve(data, b.gen, b.idx)
  <2>1. m \in Markets
        BY <1>4, ResolvedLine, TypesOf DEF OpenMarket, DataType
  <2>2. [b EXCEPT !.kind = "amounts", !.market = m] \in Buttons
        BY <2>1, TypesOf DEF Buttons
  <2>3. sent' = sent \cup {[b EXCEPT !.kind = "amounts", !.market = m]}
        BY <1>4 DEF OpenMarket
  <2>4. QED BY <1>4, <2>2, <2>3, TypesOf, TypesKept DEF OpenMarket
<1>5. ASSUME NEW b \in sent, OnBetAccount(b) PROVE FunnelTypes'
  <2>1. data' = [data EXCEPT !.bet.account = b.account]
        BY <1>5, PlacedPrompt DEF OnBetAccount
  <2>2. b.account \in Accounts
        BY <1>5, TypesOf DEF OnBetAccount
  <2>3. data' \in DataType /\ data'.awaiting = data.awaiting
        BY <2>1, <2>2, TypesOf DEF DataType, StashedBets
  <2>4. QED BY <1>5, <2>3, TypesOf, TypesKept DEF OnBetAccount
<1>6. ASSUME NEW b \in sent, NEW side \in Sides, OnBuyAmount(b, side) PROVE FunnelTypes'
  <2>1. data' = data
        BY <1>6, PlacedPrompt DEF OnBuyAmount
  <2>2. QED BY <1>6, <2>1, TypesOf, TypesKept DEF OnBuyAmount
<1>7. ASSUME NEW b \in sent, NEW side \in Sides, OnBuyCustom(b, side) PROVE FunnelTypes'
  <2>1. data' = [data EXCEPT !.awaiting = {<<b, side>>}, !.late = FALSE]
        BY <1>7 DEF OnBuyCustom
  <2>2. {<<b, side>>} \subseteq {c \in sent : c.kind = "amounts"} \X Sides
        BY <1>7 DEF OnBuyCustom
  <2>3. Cardinality({<<b, side>>}) <= 1
    <3>1. Cardinality({<<b, side>>}) = 1
          BY FS_Singleton, Zenon
    <3>2. QED BY <3>1
  <2>4. data' \in DataType /\ data'.awaiting = {<<b, side>>}
    <3>1. {<<b, side>>} \in SUBSET (Buttons \X Sides)
          BY TypesOf
    <3>2. QED BY <2>1, <3>1, TypesOf DEF DataType
  <2>5. QED BY <1>7, <2>2, <2>3, <2>4, TypesOf DEF OnBuyCustom, FunnelTypes, DataType, IntentsType
<1>8. CASE CustomLate
  <2>1. data' \in DataType /\ data'.awaiting = data.awaiting
        BY <1>8, TypesOf DEF CustomLate, DataType
  <2>2. QED BY <1>8, <2>1, TypesOf, TypesKept DEF CustomLate
<1>9. ASSUME NEW valid \in BOOLEAN, OnCustomAmount(valid) PROVE FunnelTypes'
  <2>1. data' = [data EXCEPT !.awaiting = {}, !.late = FALSE]
        BY <1>9, PlacedPrompt DEF OnCustomAmount
  <2>2. data' \in DataType /\ data'.awaiting = {}
        BY <2>1, TypesOf DEF DataType
  <2>3. QED BY <1>9, <2>2, TypesOf, TypesKept DEF OnCustomAmount
<1>10. ASSUME NEW l \in Links, OpenNewsBet(l) PROVE FunnelTypes'
      BY <1>10, ShowMarketTypes, TypesOf, TypesKept DEF OpenNewsBet
<1>11. ASSUME NEW l \in Links, DeferNewsBet(l) PROVE FunnelTypes'
  <2>1. data' \in DataType /\ data'.awaiting = data.awaiting
        BY <1>11, TypesOf DEF DeferNewsBet, DataType
  <2>2. UpsertIntent(l) \in IntentsType
    <3>1. Cardinality(Rows) \in Nat
          BY FS_CardinalityType DEF FunnelInv, IntentsInv
    <3>2. QED BY <3>1, TypesOf DEF UpsertIntent, IntentsType, IntentStatus
  <2>3. intents' \in IntentsType /\ offered' \subseteq Links
        BY <1>11, <2>2, TypesOf DEF DeferNewsBet
  <2>4. QED BY <1>11, <2>1, <2>3, TypesOf, TypesKept DEF DeferNewsBet
<1>12. CASE BeginConnect
  <2>1. data' \in DataType /\ data'.awaiting = {}
        BY <1>12, TypesOf DEF BeginConnect, DataType
  <2>2. QED BY <1>12, <2>1, TypesOf, TypesKept DEF BeginConnect
<1>13. ASSUME NEW a \in Accounts, Connected(a) PROVE FunnelTypes'
  <2>1. data' \in DataType /\ data'.awaiting = data.awaiting
        BY <1>13, TypesOf DEF Connected, DataType
  <2>2. QED BY <1>13, <2>1, TypesOf, TypesKept DEF Connected
<1>14. ASSUME NEW a \in Accounts, Disconnected(a) PROVE FunnelTypes'
      BY <1>14, TypesOf, TypesKept DEF Disconnected
<1>15. CASE ResumeShow
  <2>1. resuming.link \in Links
        BY <1>15 DEF ResumeShow, FunnelInv, IntentsInv, Rows
  <2>2. offered' \subseteq Links
        BY <1>15, <2>1, TypesOf DEF ResumeShow
  <2>3. QED BY <1>15, <2>1, <2>2, ShowMarketTypes, TypesOf, TypesKept DEF ResumeShow
<1>16. CASE ResumeMark
  <2>1. intents' \in IntentsType
        BY <1>16, TypesOf DEF ResumeMark, IntentsType, IntentStatus
  <2>2. QED BY <1>16, <2>1, TypesOf, TypesKept DEF ResumeMark
<1>17. ASSUME NEW p \in prompts, NEW placed \in BOOLEAN, Answer(p, placed) PROVE FunnelTypes'
  <2>1. intents' \in IntentsType
        BY <1>17, TypesOf, ZenonT(30) DEF Answer, IntentsType, IntentStatus
  <2>2. QED BY <1>17, <2>1, TypesOf, TypesKept DEF Answer
<1>18. CASE Tick
  <2>1. intents' \in IntentsType
    <3>1. \A l \in Links : intents[l].left \in Nat /\ intents[l] \in [status : IntentStatus, id : Nat, left : Nat]
          BY TypesOf DEF IntentsType
    <3>2. \A l \in Links : (IF intents[l].left > 0 THEN intents[l].left - 1 ELSE 0) \in Nat
          BY <3>1
    <3>3. intents' = [l \in Links |-> [intents[l] EXCEPT !.left = IF intents[l].left > 0 THEN intents[l].left - 1 ELSE 0]]
          BY <1>18 DEF Tick
    <3>4. QED BY <3>1, <3>2, <3>3 DEF IntentsType
  <2>2. QED BY <1>18, <2>1, TypesOf, TypesKept DEF Tick
<1>19. CASE ExpireStale
  <2>1. intents' \in IntentsType
        BY <1>19, TypesOf DEF ExpireStale, IntentsType, IntentStatus
  <2>2. QED BY <1>19, <2>1, TypesOf, TypesKept DEF ExpireStale
<1>20. CASE Restart
  <2>1. data' \in DataType /\ data'.awaiting = {}
        BY <1>20, EmptySeq DEF Restart, Fresh, NoBet, StashedBets, DataType
  <2>2. epoch' \in 0 .. MaxRestarts
        BY <1>20, TypesOf DEF Restart
  <2>3. QED BY <1>20, <2>1, <2>2, TypesOf, TypesKept DEF Restart
<1>21. QED
  BY <1>1, <1>2, <1>3, <1>4, <1>5, <1>6, <1>7, <1>8, <1>9, <1>10, <1>11, <1>12, <1>13, <1>14, <1>15,
     <1>16, <1>17, <1>18, <1>19, <1>20
  DEF Next

\* A step that leaves the chat and the list alone keeps what the buttons mean.
LEMMA ChatKept ==
  ASSUME FunnelInv, UNCHANGED <<epoch, sent>>, data'.gen = data.gen, data'.mkts = data.mkts,
         data'.bet.gen = data.bet.gen, data'.bet.link = data.bet.link
  PROVE  ChatInv'
  BY DEF FunnelInv, ChatInv, ButtonInv

\* A new generation, of a list or of a bet that has it: no button is of it but
\* those that are added.
LEMMA ChatGrows ==
  ASSUME FunnelInv, UNCHANGED epoch, NEW new, sent' = sent \cup new, data'.gen = data.gen + 1,
         \/ data'.bet.gen = data.bet.gen /\ data'.bet.link = data.bet.link
         \/ data'.bet.gen = data.gen + 1,
         \A b \in new : b.epoch = epoch /\ ButtonInv(data', b)
  PROVE  ChatInv'
<1>1. data.gen \in Nat /\ data.bet.gen \in Nat /\ epoch \in Nat
      BY TypesOf DEF DataType, StashedBets
<1>2. data'.bet.gen <= data'.gen
      BY <1>1 DEF FunnelInv, ChatInv
<1>3. ASSUME NEW b \in sent, b.epoch = epoch PROVE ButtonInv(data', b)
  <2>1. b.gen \in Nat /\ b.gen <= data.gen /\ ButtonInv(data, b)
        BY <1>3, TypesOf DEF FunnelInv, ChatInv, ButtonInv, Buttons
  <2>2. b.gen # data.gen + 1
        BY <1>1, <2>1
  <2>3. b.gen <= data'.gen /\ b.gen # data'.gen
        BY <1>1, <2>1, <2>2
  <2>4. QED BY <2>1, <2>2, <2>3 DEF ButtonInv
<1>4. \A b \in sent' : b.epoch <= epoch' /\ (b.epoch = epoch' => ButtonInv(data', b))
      BY <1>1, <1>3 DEF FunnelInv, ChatInv
<1>5. QED BY <1>2, <1>4 DEF ChatInv

\* Entering a bet: its wallets' buttons are of its generation.
LEMMA ChatOfBet ==
  ASSUME FunnelInv, UNCHANGED epoch, NEW l \in Links, NEW pid \in Links \cup {NoLink}, BetEntered(l, pid)
  PROVE  ChatInv'
<1> DEFINE button(a) == Button("picker", data.gen + 1, 1, Outcome[l][1], l, a)
<1>1. PICK offer \in SUBSET accts : sent' = sent \cup {button(a) : a \in offer}
      BY DEF BetEntered
<1>2. /\ data'.gen = data.gen + 1 /\ data'.mkts = <<Outcome[l][1]>>
      /\ data'.bet.gen = data.gen + 1 /\ data'.bet.link = l
  <2>1. /\ data'.gen = data.gen + 1 /\ data'.mkts = <<Outcome[l][1]>>
        /\ data'.bet = [gen |-> data.gen + 1, link |-> l, pid |-> pid, account |-> NoAccount]
        BY BetEnteredTypes
  <2>2. QED BY <2>1
<1>3. data.gen \in Nat
      BY TypesOf DEF DataType
<1>4. ASSUME NEW a \in offer PROVE button(a).epoch = epoch /\ ButtonInv(data', button(a))
      BY <1>2, <1>3 DEF Button, ButtonInv
<1>5. \A b \in {button(a) : a \in offer} : b.epoch = epoch /\ ButtonInv(data', b)
      BY <1>4
<1> HIDE DEF button
<1>6. QED BY <1>1, <1>2, <1>5, ChatGrows

LEMMA ChatOfShow ==
  ASSUME FunnelInv, UNCHANGED epoch, NEW l \in Links, NEW pid \in Links \cup {NoLink}, NEW shown \in BOOLEAN,
         ShowMarketForBet(l, pid, shown)
  PROVE  ChatInv'
<1>1. CASE UNCHANGED <<data, sent>>
      BY <1>1, ChatKept
<1>2. CASE BetEntered(l, pid)
      BY <1>2, ChatOfBet
<1>3. QED BY <1>1, <1>2, BetShown

\* Every step keeps what the buttons mean.
LEMMA ChatStep == FunnelInv /\ [Next]_vars => ChatInv'
<1> SUFFICES ASSUME FunnelInv, [Next]_vars PROVE ChatInv'
    OBVIOUS
<1> USE FunnelConstants DEF BetFunnelAssumption
<1>0. data \in DataType /\ data.gen \in Nat /\ data.bet.gen \in Nat /\ data.bet.gen <= data.gen /\ epoch \in Nat
      BY TypesOf DEF DataType, StashedBets, FunnelInv, ChatInv
<1>1. CASE UNCHANGED <<epoch, sent, data>>
      BY <1>1, ChatKept
<1>2. ASSUME NEW mkts \in Lists, ShowMarkets(mkts) PROVE ChatInv'
  <2> DEFINE new == {Button("list", data.gen + 1, i, mkts[i], NoLink, NoAccount) : i \in DOMAIN mkts}
  <2>1. data' = NewList(mkts) /\ sent' = sent \cup new /\ UNCHANGED epoch
        BY <1>2 DEF ShowMarkets
  <2>2. data'.gen = data.gen + 1 /\ data'.mkts = mkts /\ data'.bet = data.bet
        BY <1>0, <2>1 DEF NewList, DataType
  <2>3. ASSUME NEW i \in DOMAIN mkts
        PROVE  LET b == Button("list", data.gen + 1, i, mkts[i], NoLink, NoAccount)
               IN b.epoch = epoch /\ ButtonInv(data', b)
        BY <1>0, <2>2 DEF Button, ButtonInv
  <2>4. \A b \in new : b.epoch = epoch /\ ButtonInv(data', b)
        BY <2>3
  <2> HIDE DEF new
  <2>5. QED BY <2>1, <2>2, <2>4, ChatGrows
<1>3. ASSUME NEW m \in Panels, ShowMarketById(m) PROVE ChatInv'
  <2> DEFINE b == Button("amounts", data.gen + 1, 1, m, NoLink, NoAccount)
  <2>1. data' = NewList(<<m>>) /\ sent' = sent \cup {b} /\ UNCHANGED epoch
        BY <1>3 DEF ShowMarketById
  <2>2. data'.gen = data.gen + 1 /\ data'.mkts = <<m>> /\ data'.bet = data.bet
        BY <1>0, <2>1 DEF NewList, DataType
  <2>3. b.epoch = epoch /\ ButtonInv(data', b)
        BY <1>0, <2>2 DEF Button, ButtonInv
  <2> HIDE DEF b
  <2> DEFINE new == {b}
  <2>4. sent' = sent \cup new /\ \A c \in new : c.epoch = epoch /\ ButtonInv(data', c)
        BY <2>1, <2>3
  <2> HIDE DEF new
  <2>5. QED BY <2>1, <2>2, <2>4, ChatGrows
<1>4. ASSUME NEW b \in sent, OpenMarket(b) PROVE ChatInv'
  <2> DEFINE m == Resolve(data, b.gen, b.idx)
             c == [b EXCEPT !.kind = "amounts", !.market = m]
  <2>1. /\ sent' = sent \cup {c} /\ UNCHANGED <<epoch, data>> /\ b.kind \in {"list", "amounts"}
        /\ m # NoMarket
        BY <1>4 DEF OpenMarket
  <2>2. data.gen = b.gen /\ b.idx \in DOMAIN data.mkts /\ m = data.mkts[b.idx]
        BY <1>0, <2>1, ResolvedLine DEF DataType
  <2>3. b \in Buttons /\ b.epoch <= epoch
        BY TypesOf DEF FunnelInv, ChatInv
  <2>4. /\ c.kind = "amounts" /\ c.market = m /\ c.gen = b.gen /\ c.idx = b.idx /\ c.epoch = b.epoch
        /\ c.link = b.link /\ c.account = b.account
        BY <2>3 DEF Buttons
  <2>5. ASSUME c.epoch = epoch PROVE ButtonInv(data, c)
    <3>1. ButtonInv(data, b)
          BY <2>4, <2>5 DEF FunnelInv, ChatInv
    <3>2. QED BY <2>1, <2>2, <2>4, <3>1 DEF ButtonInv
  <2> HIDE DEF c, m
  <2>6. \A d \in sent' : d.epoch <= epoch /\ (d.epoch = epoch => ButtonInv(data, d))
        BY <2>1, <2>3, <2>4, <2>5 DEF FunnelInv, ChatInv
  <2>7. QED BY <1>0, <2>1, <2>6 DEF ChatInv, ButtonInv
<1>5. ASSUME NEW b \in sent, OnBetAccount(b) PROVE ChatInv'
  <2>1. data' = [data EXCEPT !.bet.account = b.account] /\ UNCHANGED <<epoch, sent>>
        BY <1>5, PlacedPrompt DEF OnBetAccount
  <2>2. /\ data'.gen = data.gen /\ data'.mkts = data.mkts
        /\ data'.bet.gen = data.bet.gen /\ data'.bet.link = data.bet.link
        BY <1>0, <2>1 DEF DataType, StashedBets
  <2>3. QED BY <2>1, <2>2, ChatKept
<1>6. ASSUME NEW b \in sent, NEW side \in Sides, OnBuyAmount(b, side) PROVE ChatInv'
      BY <1>1, <1>6, PlacedPrompt DEF OnBuyAmount
<1>7. ASSUME NEW valid \in BOOLEAN, OnCustomAmount(valid) PROVE ChatInv'
  <2>1. data' = [data EXCEPT !.awaiting = {}, !.late = FALSE] /\ UNCHANGED <<epoch, sent>>
        BY <1>7, PlacedPrompt DEF OnCustomAmount
  <2>2. QED BY <1>0, <2>1, ChatKept DEF DataType
<1>8. ASSUME NEW l \in Links, OpenNewsBet(l) PROVE ChatInv'
      BY <1>8, ChatOfShow DEF OpenNewsBet
<1>9. CASE ResumeShow
  <2>1. resuming.link \in Links
        BY <1>9 DEF ResumeShow, FunnelInv, IntentsInv, Rows
  <2>2. QED BY <1>9, <2>1, ChatOfShow DEF ResumeShow
<1>10. CASE Restart
  <2>1. epoch' = epoch + 1 /\ sent' = sent /\ data' = Fresh
        BY <1>10 DEF Restart
  <2>2. \A b \in sent : b.epoch \in Nat /\ b.epoch <= epoch
        BY TypesOf DEF Buttons, FunnelInv, ChatInv
  <2>3. \A b \in sent' : b.epoch <= epoch' /\ b.epoch # epoch'
        BY <1>0, <2>1, <2>2
  <2>4. QED BY <2>1, <2>3 DEF Fresh, NoBet, ChatInv
<1>11. ASSUME NEW b \in sent, NEW side \in Sides, OnBuyCustom(b, side) PROVE ChatInv'
  <2>1. data'.gen = data.gen /\ data'.mkts = data.mkts /\ data'.bet = data.bet
        BY <1>0, <1>11 DEF OnBuyCustom, DataType
  <2>2. QED BY <1>11, <2>1, ChatKept DEF OnBuyCustom
<1>12. ASSUME CustomLate \/ BeginConnect \/ (\E l \in Links : DeferNewsBet(l)) \/ \E a \in Accounts : Connected(a)
       PROVE  ChatInv'
  <2>1. UNCHANGED <<epoch, sent>>
        BY <1>12 DEF CustomLate, BeginConnect, DeferNewsBet, Connected
  <2>2. data'.gen = data.gen /\ data'.mkts = data.mkts /\ data'.bet = data.bet
        BY <1>0, <1>12 DEF CustomLate, BeginConnect, DeferNewsBet, Connected, DataType
  <2>3. QED BY <2>1, <2>2, ChatKept
<1>13. QED
  BY <1>1, <1>2, <1>3, <1>4, <1>5, <1>6, <1>7, <1>8, <1>9, <1>10, <1>11, <1>12
  DEF Next, vars, Disconnected, ResumeMark, Answer, Tick, ExpireStale

\* Rows, and what names them, are kept by a step that changes no id and makes
\* and unmakes no row, and awaits, prompts and resumes nothing new.
LEMMA IntentsKept ==
  ASSUME FunnelInv,
         \A l \in Links : /\ intents'[l].id = intents[l].id
                          /\ intents'[l].status = "none" <=> intents[l].status = "none",
         data'.bet.pid \in {data.bet.pid, NoLink}, prompts' \subseteq prompts,
         resuming' = Idle \/ UNCHANGED <<resuming, offered>>
  PROVE  IntentsInv'
<1>1. Rows' = Rows
      BY DEF Rows
<1>2. {intents'[l].id : l \in Rows'} = {intents[l].id : l \in Rows}
      BY <1>1 DEF Rows
<1>3. IsFiniteSet(Rows') /\ {intents'[l].id : l \in Rows'} = 1 .. Cardinality(Rows')
      BY <1>1, <1>2 DEF FunnelInv, IntentsInv
<1>4. {data'.bet.pid} \cup {p.pid : p \in prompts'} \subseteq Rows' \cup {NoLink}
      BY <1>1 DEF FunnelInv, IntentsInv
<1>5. (resuming'.pc # "idle" => resuming'.link \in Rows') /\ (resuming'.pc = "mark" => resuming'.link \in offered')
      BY <1>1 DEF FunnelInv, IntentsInv, Idle
<1>6. QED BY <1>3, <1>4, <1>5 DEF IntentsInv

\* A row that is new gets the next number.
LEMMA UpsertNumbers ==
  ASSUME FunnelInv, NEW l \in Links, intents' = UpsertIntent(l)
  PROVE  /\ Rows' = Rows \cup {l} /\ IsFiniteSet(Rows')
         /\ {intents'[k].id : k \in Rows'} = 1 .. Cardinality(Rows')
<1> DEFINE n == Cardinality(Rows)
<1>0. intents \in IntentsType /\ n \in Nat /\ IsFiniteSet(Rows)
      BY TypesOf, FS_CardinalityType DEF FunnelInv, IntentsInv
<1>1. /\ intents'[l].status = "pending" /\ \A k \in Links \ {l} : intents'[k] = intents[k]
      /\ intents'[l].id = IF l \in Rows THEN intents[l].id ELSE n + 1
      BY <1>0 DEF UpsertIntent, IntentsType
<1>2. Rows' = Rows \cup {l}
      BY <1>1 DEF Rows
<1>3. IsFiniteSet(Rows')
      BY <1>0, <1>2, FS_AddElement
<1>4. CASE l \in Rows
  <2>1. Rows' = Rows
        BY <1>2, <1>4
  <2>2. {intents'[k].id : k \in Rows'} = {intents[k].id : k \in Rows}
        BY <1>1, <1>4, <2>1 DEF Rows
  <2>3. QED BY <1>2, <1>3, <2>1, <2>2 DEF FunnelInv, IntentsInv
<1>5. CASE l \notin Rows
  <2>1. Cardinality(Rows') = n + 1
        BY <1>0, <1>2, <1>5, FS_AddElement
  <2>2. {intents'[k].id : k \in Rows'} = {intents[k].id : k \in Rows} \cup {n + 1}
    <3>1. intents'[l].id = n + 1 /\ \A k \in Rows : intents'[k].id = intents[k].id
          BY <1>1, <1>5 DEF Rows
    <3> HIDE DEF n
    <3>2. QED BY <1>2, <3>1
  <2>3. {intents[k].id : k \in Rows} = 1 .. n
        BY DEF FunnelInv, IntentsInv
  <2>4. (1 .. n) \cup {n + 1} = 1 .. n + 1
        BY <1>0
  <2>5. QED BY <1>2, <1>3, <2>1, <2>2, <2>3, <2>4
<1>6. QED BY <1>4, <1>5

\* Showing the bet of an intent names that row.
LEMMA IntentsOfShow ==
  ASSUME FunnelInv, UNCHANGED intents, NEW l \in Links, NEW pid \in Rows \cup {NoLink}, NEW shown \in BOOLEAN,
         ShowMarketForBet(l, pid, shown)
  PROVE  /\ Rows' = Rows /\ IsFiniteSet(Rows') /\ {intents'[k].id : k \in Rows'} = 1 .. Cardinality(Rows')
         /\ {data'.bet.pid} \cup {p.pid : p \in prompts'} \subseteq Rows' \cup {NoLink}
<1>1. Rows' = Rows /\ Rows \subseteq Links
      BY DEF Rows
<1>2. IsFiniteSet(Rows') /\ {intents'[k].id : k \in Rows'} = 1 .. Cardinality(Rows')
      BY <1>1 DEF FunnelInv, IntentsInv
<1>3. {data.bet.pid} \cup {p.pid : p \in prompts} \subseteq Rows' \cup {NoLink}
      BY <1>1 DEF FunnelInv, IntentsInv
<1>4. CASE UNCHANGED <<data, prompts>>
      BY <1>1, <1>2, <1>3, <1>4
<1>5. CASE BetEntered(l, pid)
  <2>1. data' = EnterBet(l, pid) /\ data'.bet = [gen |-> data.gen + 1, link |-> l, pid |-> pid, account |-> NoAccount]
        BY <1>1, <1>5, BetEnteredTypes DEF BetEntered
  <2>2. \A b, side : Prompt(EnterBet(l, pid), b, side).pid \in {pid, NoLink}
        BY <2>1 DEF Prompt, NoBet
  <2>3. \A p \in prompts' : p.pid \in Rows' \cup {NoLink}
        BY <1>1, <1>3, <1>5, <2>2 DEF BetEntered
  <2>4. data'.bet.pid = pid
        BY <2>1
  <2>5. QED BY <1>1, <1>2, <2>3, <2>4
<1>6. QED BY <1>1, <1>4, <1>5, BetShown

\* Every step keeps the intents and what names them.
LEMMA IntentsStep == FunnelInv /\ [Next]_vars => IntentsInv'
<1> SUFFICES ASSUME FunnelInv, [Next]_vars PROVE IntentsInv'
    OBVIOUS
<1>0. data \in DataType /\ intents \in IntentsType
      BY TypesOf
<1>1. CASE UNCHANGED <<intents, prompts, resuming, offered>> /\ data'.bet = data.bet
      BY <1>1, IntentsKept
<1>2. ASSUME NEW d \in {data, [data EXCEPT !.awaiting = {}, !.late = FALSE], data'}, NEW b, NEW side, NEW placed \in BOOLEAN,
             d.bet.pid = data.bet.pid, PlaceBetAmount(d, b, side, placed),
             UNCHANGED <<intents, resuming, offered>>
      PROVE  IntentsInv'
  <2>1. Rows' = Rows
        BY <1>2 DEF Rows
  <2>2. Prompt(d, b, side).pid \in {data.bet.pid, NoLink}
        BY <1>2 DEF Prompt, NoBet
  <2>3. {data'.bet.pid} \cup {p.pid : p \in prompts'} \subseteq Rows' \cup {NoLink}
        BY <1>2, <2>1, <2>2, PlacedPrompt DEF FunnelInv, IntentsInv
  <2>4. QED BY <1>2, <2>1, <2>3 DEF FunnelInv, IntentsInv
<1>3. ASSUME NEW b \in sent, OnBetAccount(b) PROVE IntentsInv'
  <2> DEFINE d == [data EXCEPT !.bet.account = b.account]
  <2>1. d.bet.pid = data.bet.pid
        BY <1>0 DEF DataType, StashedBets
  <2>2. PICK placed \in BOOLEAN : PlaceBetAmount(d, b, Outcome[data.bet.link][2], placed)
        BY <1>3 DEF OnBetAccount
  <2>3. d = data'
        BY <2>2, PlacedPrompt
  <2>4. UNCHANGED <<intents, resuming, offered>>
        BY <1>3 DEF OnBetAccount
  <2> HIDE DEF d
  <2>5. QED BY <1>2, <2>1, <2>2, <2>3, <2>4
<1>4. ASSUME NEW b \in sent, NEW side \in Sides, OnBuyAmount(b, side) PROVE IntentsInv'
      BY <1>2, <1>4 DEF OnBuyAmount
<1>5. ASSUME NEW valid \in BOOLEAN, OnCustomAmount(valid) PROVE IntentsInv'
  <2> DEFINE d == [data EXCEPT !.awaiting = {}, !.late = FALSE]
  <2>1. d.bet = data.bet /\ UNCHANGED <<intents, resuming, offered>>
        BY <1>0, <1>5 DEF OnCustomAmount, DataType
  <2>2. CASE data' = d /\ prompts' = prompts
        BY <1>1, <2>1, <2>2
  <2>3. ASSUME NEW t \in data.awaiting, NEW placed \in BOOLEAN, PlaceBetAmount(d, t[1], t[2], placed)
        PROVE  IntentsInv'
        BY <1>2, <2>1, <2>3
  <2>4. QED BY <1>5, <2>2, <2>3 DEF OnCustomAmount
<1>6. ASSUME NEW l \in Links, OpenNewsBet(l) PROVE IntentsInv'
  <2>1. UNCHANGED <<intents, resuming, offered>> /\ \E shown \in BOOLEAN : ShowMarketForBet(l, NoLink, shown)
        BY <1>6 DEF OpenNewsBet
  <2>2. QED BY <2>1, IntentsOfShow DEF IntentsInv, FunnelInv
<1>7. ASSUME NEW l \in Links, DeferNewsBet(l) PROVE IntentsInv'
  <2>1. resuming.pc = "idle" /\ UNCHANGED <<resuming, prompts>> /\ data'.bet = data.bet
        BY <1>0, <1>7 DEF DeferNewsBet, Idle, DataType
  <2>2. CASE intents' = intents /\ offered' = offered
        BY <1>1, <2>1, <2>2
  <2>3. CASE intents' = UpsertIntent(l)
        BY <2>1, <2>3, UpsertNumbers DEF FunnelInv, IntentsInv
  <2>4. QED BY <1>7, <2>2, <2>3 DEF DeferNewsBet
<1>8. ASSUME NEW a \in Accounts, Connected(a) PROVE IntentsInv'
  <2>1. UNCHANGED <<intents, prompts, offered>> /\ data'.bet = data.bet
        BY <1>0, <1>8 DEF Connected, DataType
  <2>2. CASE resuming' = Idle
        BY <2>1, <2>2, IntentsKept
  <2>3. CASE resuming' = [pc |-> "show", link |-> LatestPending] /\ LivePending # {}
    <3>1. Rows' = Rows
          BY <2>1 DEF Rows
    <3>2. LatestPending \in Rows
          BY <2>3, LatestIsPending DEF LivePending, Rows
    <3>3. QED BY <2>1, <2>3, <3>1, <3>2 DEF FunnelInv, IntentsInv
  <2>4. QED BY <1>8, <2>2, <2>3 DEF Connected
<1>9. CASE ResumeShow
  <2>1. resuming.link \in Rows /\ UNCHANGED intents
        BY <1>9 DEF ResumeShow, FunnelInv, IntentsInv
  <2>2. PICK shown \in BOOLEAN :
            /\ ShowMarketForBet(resuming.link, resuming.link, shown)
            /\ offered' = IF shown THEN offered \cup {resuming.link} ELSE offered
            /\ resuming' = AfterShow(shown)
        BY <1>9 DEF ResumeShow
  <2>3. /\ Rows' = Rows /\ IsFiniteSet(Rows') /\ {intents'[k].id : k \in Rows'} = 1 .. Cardinality(Rows')
        /\ {data'.bet.pid} \cup {p.pid : p \in prompts'} \subseteq Rows' \cup {NoLink}
    <3>1. resuming.link \in Links
          BY <2>1 DEF Rows
    <3>2. QED BY <2>1, <2>2, <3>1, IntentsOfShow
  <2>4. (resuming'.pc # "idle" => resuming'.link \in Rows') /\ (resuming'.pc = "mark" => resuming'.link \in offered')
    <3>1. CASE shown
      <4>1. resuming'.link = resuming.link \/ resuming'.pc = "idle"
            BY <2>2, <3>1 DEF AfterShow, FunnelInv
      <4>2. QED BY <2>1, <2>2, <2>3, <3>1, <4>1
    <3>2. CASE ~shown
          BY <2>2, <3>2 DEF AfterShow, Idle
    <3>3. QED BY <3>1, <3>2
  <2>5. QED BY <2>3, <2>4 DEF IntentsInv
<1>10. CASE ResumeMark
  <2>1. resuming.link \in Links /\ intents[resuming.link].status # "none"
        BY <1>10 DEF ResumeMark, FunnelInv, IntentsInv, Rows
  <2>2. \A l \in Links : /\ intents'[l].id = intents[l].id
                         /\ intents'[l].status = "none" <=> intents[l].status = "none"
        BY <1>0, <1>10, <2>1 DEF ResumeMark, IntentsType
  <2>3. QED BY <1>10, <2>2, IntentsKept DEF ResumeMark
<1>11. ASSUME NEW p \in prompts, NEW placed \in BOOLEAN, Answer(p, placed) PROVE IntentsInv'
  <2>1. p.pid \in Rows \cup {NoLink}
        BY DEF FunnelInv, IntentsInv
  <2>2. \A l \in Links : /\ intents'[l].id = intents[l].id
                         /\ intents'[l].status = "none" <=> intents[l].status = "none"
        BY <1>0, <1>11, <2>1 DEF Answer, IntentsType, Rows
  <2>3. QED BY <1>11, <2>2, IntentsKept DEF Answer
<1>12. CASE Tick
  <2>1. \A l \in Links : intents'[l].id = intents[l].id /\ intents'[l].status = intents[l].status
        BY <1>0, <1>12 DEF Tick, IntentsType
  <2>2. QED BY <1>12, <2>1, IntentsKept DEF Tick
<1>13. CASE ExpireStale
  <2>1. \A l \in Links : /\ intents'[l].id = intents[l].id
                         /\ intents'[l].status = "none" <=> intents[l].status = "none"
        BY <1>0, <1>13 DEF ExpireStale, Stale, IntentsType
  <2>2. QED BY <1>13, <2>1, IntentsKept DEF ExpireStale
<1>14. CASE Restart
      BY <1>14, IntentsKept DEF Restart, Fresh, NoBet
<1>15. ASSUME NEW mkts, data' = NewList(mkts) PROVE data'.bet = data.bet
      BY <1>0, <1>15 DEF NewList, DataType
<1>16. CASE BeginConnect \/ CustomLate \/ \E b \in sent, side \in Sides : OnBuyCustom(b, side)
  <2>1. UNCHANGED <<intents, prompts, resuming, offered>> /\ data'.bet = data.bet
        BY <1>0, <1>16 DEF BeginConnect, CustomLate, OnBuyCustom, DataType
  <2>2. QED BY <1>1, <2>1
<1>17. QED
  BY <1>1, <1>3, <1>4, <1>5, <1>6, <1>7, <1>8, <1>9, <1>10, <1>11, <1>12, <1>13, <1>14, <1>15, <1>16
  DEF Next, vars, ShowMarkets, ShowMarketById, OpenMarket, Disconnected

\* A button that resolves is of the present generation; a picker's is of the
\* link that user_data has for it; numbers, rows and resumptions fit.
THEOREM FunnelInvariant == Spec => []FunnelInv
<1>1. FunnelInv /\ [Next]_vars => FunnelInv'
      BY TypesStep, ChatStep, IntentsStep DEF FunnelInv
<1>2. QED BY <1>1, InitFunnel, PTL DEF Spec

\* What the property says of one prompt.
Means(p) ==
    p.button.epoch = epoch =>
        /\ p.market = p.button.market /\ p.link = p.button.link /\ p.account = p.button.account
        /\ p.link # NoLink => <<p.market, p.side>> = Outcome[p.link]

LEMMA MeaningOfPrompts == ButtonsKeepTheirMeaning <=> \A p \in prompts : Means(p)
  BY DEF ButtonsKeepTheirMeaning, TapsMeanWhatWasShown, NewsBetsKeepTheirOutcome, Means

\* A prompt that comes from a button's line, as the message showed it, and from
\* the bet of its generation or from none, means what the message showed.
LEMMA PromptMeans ==
  ASSUME FunnelInv, NEW d, d.mkts \in Seq(Markets), NEW b, NEW side, Resolve(d, b.gen, b.idx) # NoMarket,
         b.kind = "picker" => IsNews(d, b.gen), b.epoch = epoch => ButtonInv(d, b),
         b.epoch = epoch /\ IsNews(d, b.gen) => d.bet.account = b.account /\ side = Outcome[d.bet.link][2]
  PROVE  Means(Prompt(d, b, side))
<1> DEFINE p == Prompt(d, b, side)
<1>1. SUFFICES ASSUME b.epoch = epoch
               PROVE  /\ p.market = b.market /\ p.link = b.link /\ p.account = b.account
                      /\ p.link # NoLink => <<p.market, p.side>> = Outcome[p.link]
      BY DEF Prompt, Means
<1>2. p.market = b.market
      BY <1>1, ResolvedLine DEF Prompt, ButtonInv
<1>3. CASE IsNews(d, b.gen)
  <2>1. b.kind = "picker" /\ b.link = d.bet.link /\ b.link \in Links /\ b.market = Outcome[b.link][1]
        BY <1>1, <1>3 DEF IsNews, ButtonInv
  <2>2. p.link = b.link /\ p.account = b.account /\ p.side = Outcome[b.link][2]
        BY <1>1, <1>3, <2>1 DEF Prompt
  <2>3. Outcome[b.link] = <<Outcome[b.link][1], Outcome[b.link][2]>>
        BY <2>1, FunnelConstants DEF BetFunnelAssumption
  <2>4. QED BY <1>2, <2>1, <2>2, <2>3
<1>4. CASE ~IsNews(d, b.gen)
  <2>1. p.link = NoLink /\ p.account = NoAccount
        BY <1>4 DEF Prompt, NoBet
  <2>2. b.link = NoLink /\ b.account = NoAccount
        BY <1>1, <1>4 DEF ButtonInv
  <2>3. QED BY <1>2, <2>1, <2>2
<1>5. QED BY <1>3, <1>4

\* A tap that places a bet with d, which has the list and the bet of user_data,
\* asks what the message showed.
LEMMA PlacedMeans ==
  ASSUME FunnelInv, ButtonsKeepTheirMeaning, UNCHANGED epoch, NEW d, NEW b \in sent, NEW side,
         NEW placed \in BOOLEAN, PlaceBetAmount(d, b, side, placed),
         d.gen = data.gen, d.mkts = data.mkts, d.bet.gen = data.bet.gen, d.bet.link = data.bet.link,
         \/ b.kind = "amounts"
         \/ IsNews(d, b.gen) /\ d.bet.account = b.account /\ side = Outcome[d.bet.link][2]
  PROVE  ButtonsKeepTheirMeaning'
<1>1. d.mkts \in Seq(Markets)
      BY TypesOf DEF DataType
<1>2. b.epoch = epoch => ButtonInv(d, b)
      BY DEF FunnelInv, ChatInv, ButtonInv
<1>3. b.epoch = epoch /\ b.kind = "amounts" => ~IsNews(d, b.gen)
      BY <1>2 DEF ButtonInv, IsNews
<1>4. Resolve(d, b.gen, b.idx) # NoMarket => Means(Prompt(d, b, side))
      BY <1>1, <1>2, <1>3, PromptMeans
<1>5. \A p \in prompts' : Means(p)
      BY <1>4, PlacedPrompt, MeaningOfPrompts
<1>6. QED BY <1>5 DEF Means, ButtonsKeepTheirMeaning, TapsMeanWhatWasShown, NewsBetsKeepTheirOutcome

\* The prompt of a bet that is entered, of its link.
LEMMA EnteredMeans ==
  ASSUME FunnelInv, ButtonsKeepTheirMeaning, UNCHANGED epoch, NEW l \in Links,
         NEW pid \in Links \cup {NoLink}, NEW shown \in BOOLEAN, ShowMarketForBet(l, pid, shown)
  PROVE  ButtonsKeepTheirMeaning'
<1> DEFINE b == Button("picker", data.gen + 1, 1, Outcome[l][1], l, NoAccount)
           p == Prompt(EnterBet(l, pid), b, Outcome[l][2])
<1>1. CASE UNCHANGED prompts
      BY <1>1 DEF ButtonsKeepTheirMeaning, TapsMeanWhatWasShown, NewsBetsKeepTheirOutcome
<1>2. CASE BetEntered(l, pid)
  <2>1. /\ EnterBet(l, pid).gen = data.gen + 1 /\ EnterBet(l, pid).mkts = <<Outcome[l][1]>>
        /\ EnterBet(l, pid).bet = [gen |-> data.gen + 1, link |-> l, pid |-> pid, account |-> NoAccount]
        BY <1>2, BetEnteredTypes DEF BetEntered
  <2>2. Outcome[l] = <<Outcome[l][1], Outcome[l][2]>> /\ Outcome[l][1] # NoMarket /\ l # NoLink
        BY FunnelConstants DEF BetFunnelAssumption
  <2>3. /\ p.button = b /\ p.market = Outcome[l][1] /\ p.link = l /\ p.account = NoAccount
        /\ p.side = Outcome[l][2]
        BY <2>1 DEF Prompt, IsNews, Resolve, Button
  <2>4. Means(p)
        BY <2>2, <2>3 DEF Means, Button
  <2> HIDE DEF p
  <2>5. \A q \in prompts' : Means(q)
        BY <1>2, <2>4, MeaningOfPrompts DEF BetEntered, p, b
  <2>6. QED BY <2>5 DEF Means, ButtonsKeepTheirMeaning, TapsMeanWhatWasShown, NewsBetsKeepTheirOutcome
<1>3. QED BY <1>1, <1>2, BetShown

\* A step that asks nothing new keeps what the prompts mean.
LEMMA FewerPrompts ==
  ASSUME ButtonsKeepTheirMeaning, UNCHANGED epoch, prompts' \subseteq prompts
  PROVE  ButtonsKeepTheirMeaning'
  BY DEF ButtonsKeepTheirMeaning, TapsMeanWhatWasShown, NewsBetsKeepTheirOutcome

LEMMA MeaningStep == FunnelInv /\ ButtonsKeepTheirMeaning /\ [Next]_vars => ButtonsKeepTheirMeaning'
<1> SUFFICES ASSUME FunnelInv, ButtonsKeepTheirMeaning, [Next]_vars PROVE ButtonsKeepTheirMeaning'
    OBVIOUS
<1>0. data \in DataType
      BY TypesOf
<1>1. CASE UNCHANGED epoch /\ prompts' \subseteq prompts
      BY <1>1, FewerPrompts
<1>2. ASSUME NEW b \in sent, OnBetAccount(b) PROVE ButtonsKeepTheirMeaning'
  <2> DEFINE d == [data EXCEPT !.bet.account = b.account]
  <2>1. /\ d.gen = data.gen /\ d.mkts = data.mkts /\ d.bet.gen = data.bet.gen /\ d.bet.link = data.bet.link
        /\ d.bet.account = b.account
        BY <1>0 DEF DataType, StashedBets
  <2>2. IsNews(d, b.gen) /\ UNCHANGED epoch
        BY <1>2, <2>1 DEF OnBetAccount, IsNews
  <2>3. PICK placed \in BOOLEAN : PlaceBetAmount(d, b, Outcome[d.bet.link][2], placed)
        BY <1>2, <2>1 DEF OnBetAccount
  <2> HIDE DEF d
  <2>4. QED BY <2>1, <2>2, <2>3, PlacedMeans
<1>3. ASSUME NEW b \in sent, NEW side \in Sides, OnBuyAmount(b, side) PROVE ButtonsKeepTheirMeaning'
      BY <1>3, PlacedMeans DEF OnBuyAmount
<1>4. ASSUME NEW valid \in BOOLEAN, OnCustomAmount(valid) PROVE ButtonsKeepTheirMeaning'
  <2> DEFINE d == [data EXCEPT !.awaiting = {}, !.late = FALSE]
  <2>1. d.gen = data.gen /\ d.mkts = data.mkts /\ d.bet = data.bet /\ UNCHANGED epoch
        BY <1>0, <1>4 DEF OnCustomAmount, DataType
  <2>2. CASE prompts' = prompts
        BY <1>1, <2>1, <2>2
  <2>3. ASSUME NEW t \in data.awaiting, NEW placed \in BOOLEAN, PlaceBetAmount(d, t[1], t[2], placed)
        PROVE  ButtonsKeepTheirMeaning'
    <3>1. t[1] \in sent /\ t[1].kind = "amounts"
          BY DEF FunnelInv, FunnelTypes
    <3> HIDE DEF d
    <3>2. QED BY <2>1, <2>3, <3>1, PlacedMeans
  <2>4. QED BY <1>4, <2>2, <2>3 DEF OnCustomAmount
<1>5. ASSUME NEW l \in Links, OpenNewsBet(l) PROVE ButtonsKeepTheirMeaning'
      BY <1>5, EnteredMeans DEF OpenNewsBet
<1>6. CASE ResumeShow
  <2>1. resuming.link \in Links
        BY <1>6 DEF ResumeShow, FunnelInv, IntentsInv, Rows
  <2>2. QED BY <1>6, <2>1, EnteredMeans DEF ResumeShow
<1>7. CASE Restart
      BY <1>7 DEF Restart, ButtonsKeepTheirMeaning, TapsMeanWhatWasShown, NewsBetsKeepTheirOutcome
<1>8. QED
  BY <1>1, <1>2, <1>3, <1>4, <1>5, <1>6, <1>7
  DEF Next, vars, ShowMarkets, ShowMarketById, OpenMarket, OnBuyCustom, CustomLate, DeferNewsBet, BeginConnect,
      Connected, Disconnected, ResumeMark, Answer, Tick, ExpireStale

\* A prompt is about what the message with the tapped button showed, and a news
\* bet about the outcome of its link.
THEOREM TapsMeanWhatTheyShowed == Spec => []ButtonsKeepTheirMeaning
<1>1. Init => ButtonsKeepTheirMeaning
      BY DEF Init, ButtonsKeepTheirMeaning, TapsMeanWhatWasShown, NewsBetsKeepTheirOutcome
<1>2. QED BY <1>1, MeaningStep, FunnelInvariant, PTL DEF Spec

\* A row that becomes resumed was shown; a row that waits again has not been.
LEMMA ShownStep == FunnelInv /\ ResumedWereShown /\ [Next]_vars => ResumedWereShown'
<1> SUFFICES ASSUME FunnelInv, ResumedWereShown, [Next]_vars PROVE ResumedWereShown'
    OBVIOUS
<1>0. intents \in IntentsType
      BY TypesOf
<1>1. ASSUME offered \subseteq offered',
             \A l \in Links : intents'[l].status = "resumed" => intents[l].status = "resumed"
      PROVE  ResumedWereShown'
      BY <1>1 DEF ResumedWereShown
<1>2. ASSUME NEW l \in Links, DeferNewsBet(l) PROVE ResumedWereShown'
  <2>1. CASE UNCHANGED <<intents, offered>>
        BY <1>1, <2>1
  <2>2. CASE intents' = UpsertIntent(l) /\ offered' = offered \ {l}
    <3>1. intents'[l].status = "pending" /\ \A k \in Links \ {l} : intents'[k] = intents[k]
          BY <1>0, <2>2 DEF UpsertIntent, IntentsType
    <3>2. QED BY <2>2, <3>1 DEF ResumedWereShown
  <2>3. QED BY <1>2, <2>1, <2>2 DEF DeferNewsBet
<1>3. CASE ResumeMark
  <2>1. resuming.link \in offered /\ UNCHANGED offered
        BY <1>3 DEF ResumeMark, FunnelInv, IntentsInv
  <2>2. \A k \in Links \ {resuming.link} : intents'[k] = intents[k]
        BY <1>0, <1>3 DEF ResumeMark, IntentsType
  <2>3. QED BY <2>1, <2>2 DEF ResumedWereShown
<1>4. ASSUME NEW p \in prompts, NEW placed \in BOOLEAN, Answer(p, placed) PROVE ResumedWereShown'
  <2>1. \A l \in Links : intents'[l].status = "resumed" => intents[l].status = "resumed"
        BY <1>0, <1>4 DEF Answer, IntentsType
  <2>2. QED BY <1>1, <1>4, <2>1 DEF Answer
<1>5. CASE Tick
  <2>1. \A l \in Links : intents'[l].status = intents[l].status
        BY <1>0, <1>5 DEF Tick, IntentsType
  <2>2. QED BY <1>1, <1>5, <2>1 DEF Tick
<1>6. CASE ExpireStale
  <2>1. \A l \in Links : intents'[l].status = "resumed" => intents[l].status = "resumed"
        BY <1>0, <1>6 DEF ExpireStale, IntentsType
  <2>2. QED BY <1>1, <1>6, <2>1 DEF ExpireStale
<1>7. CASE ResumeShow
      BY <1>1, <1>7 DEF ResumeShow
<1>8. QED
  BY <1>1, <1>2, <1>3, <1>4, <1>5, <1>6, <1>7
  DEF Next, vars, ShowMarkets, ShowMarketById, OpenMarket, OnBetAccount, OnBuyAmount, OnBuyCustom, CustomLate,
      OnCustomAmount, OpenNewsBet, BeginConnect, Connected, Disconnected, Restart

\* An intent is marked resumed only after its bet was shown.
THEOREM ResumptionsAreShown == Spec => []ResumedWereShown
<1>1. Init => ResumedWereShown
      BY DEF Init, NoRow, ResumedWereShown
<1>2. QED BY <1>1, ShownStep, FunnelInvariant, PTL DEF Spec

-----------------------------------------------------------------------------
(* The bets under a news item: NewsCta.                                     *)

\* What bounds an inhabited set of numbers is reached by one of them.
LEMMA LargestExists ==
  ASSUME NEW S, S \subseteq Nat, S # {}, NEW n \in Nat, \A s \in S : s <= n
  PROVE  \E m \in S : \A s \in S : s <= m
<1> DEFINE T == {d \in Nat : n - d \in S}
<1>1. PICK s \in S : TRUE
      OBVIOUS
<1>2. n - s \in Nat /\ n - (n - s) = s
      BY <1>1
<1>3. T \subseteq Nat /\ T # {}
      BY <1>1, <1>2
<1>4. PICK d \in T : \A t \in T : ~ (<<t, d>> \in OpToRel(<, Nat))
      BY <1>3, NatLessThanWellFounded, WFMin, Zenon
<1>5. \A i, j \in Nat : i < j => <<i, j>> \in OpToRel(<, Nat)
      BY Zenon DEF OpToRel
<1>6. \A t \in T : ~ (t < d)
      BY <1>3, <1>4, <1>5
<1>7. \A r \in S : r <= n - d
  <2> TAKE r \in S
  <2>1. n - r \in Nat /\ n - (n - r) = r
        OBVIOUS
  <2>2. n - r \in T
        BY <2>1
  <2>3. r \in Nat /\ d \in Nat /\ ~ (n - r < d)
        BY <1>6, <2>2
  <2>4. QED BY <2>3
<1>8. n - d \in S
      OBVIOUS
<1>9. QED BY <1>7, <1>8

\* Among the texts of an event there is one that shares the most words with a
\* headline: the relevance of an event that is not dismissed is a number of words
\* that one of its texts shares.
LEMMA RelevanceIsReached ==
  ASSUME NEW h, IsFiniteSet(h), NEW e, ~ Collides(h, e)
  PROVE  \E t \in {e.title} \cup {e.markets[i].question : i \in DOMAIN e.markets} :
            Relevance(h, e) = Cardinality(h \cap t)
<1> DEFINE texts == {e.title} \cup {e.markets[i].question : i \in DOMAIN e.markets}
           S == {Cardinality(h \cap t) : t \in texts}
           Most(n) == /\ \E t \in texts : Cardinality(h \cap t) = n
                      /\ \A t \in texts : Cardinality(h \cap t) <= n
<1>1. \A t : Cardinality(h \cap t) \in Nat /\ Cardinality(h \cap t) <= Cardinality(h)
  <2> TAKE t
  <2>1. h \cap t \in SUBSET h
        OBVIOUS
  <2>2. QED BY <2>1, FS_Subset, FS_CardinalityType
<1>2. Cardinality(h) \in Nat
      BY FS_CardinalityType
<1>3. S \subseteq Nat /\ S # {} /\ \A s \in S : s <= Cardinality(h)
      BY <1>1
<1>4. PICK m \in S : \A s \in S : s <= m
      BY <1>2, <1>3, LargestExists
<1>5. PICK t \in texts : m = Cardinality(h \cap t)
      BY <1>4
<1>6. \A u \in texts : Cardinality(h \cap u) \in S
      OBVIOUS
<1>7. \A u \in texts : Cardinality(h \cap u) <= m
      BY <1>4, <1>6
<1>8. m \in 0 .. Cardinality(h)
      BY <1>1, <1>2, <1>5
<1>9. Most(CHOOSE n \in 0 .. Cardinality(h) : Most(n))
      BY <1>5, <1>7, <1>8
<1>10. Relevance(h, e) = CHOOSE n \in 0 .. Cardinality(h) : Most(n)
      BY DEF Relevance
<1>11. QED BY <1>9, <1>10

\* What the judge may choose: an event of a pool that passed the gate.
LEMMA FoundIsRelevant ==
  ASSUME NEW e \in Found, e # NoEvent, item.headline \in Headlines
  PROVE  /\ ~ Collides(item.headline, e)
         /\ \E t \in {e.title} \cup {e.markets[i].question : i \in DOMAIN e.markets} :
               Cardinality(item.headline \cap t) >= MinTokenOverlap
<1>1. Relevance(item.headline, e) >= MinTokenOverlap
      BY DEF Found, Shortlist, Matching
<1>2. ~ Collides(item.headline, e)
      BY <1>1, NewsCtaAssumption DEF Relevance
<1>3. IsFiniteSet(item.headline)
      BY NewsCtaAssumption
<1>4. PICK t \in {e.title} \cup {e.markets[i].question : i \in DOMAIN e.markets} :
         Relevance(item.headline, e) = Cardinality(item.headline \cap t)
      BY <1>2, <1>3, RelevanceIsReached
<1>5. QED BY <1>1, <1>2, <1>4

\* An event that is found shares enough words with the story, one of them not just a
\* candidate's name.
LEMMA FoundIsAboutTheStory ==
  ASSUME NEW e \in Found, e # NoEvent, item.headline \in Headlines
  PROVE  /\ \E t \in {e.title} \cup {e.markets[i].question : i \in DOMAIN e.markets} :
               Cardinality(item.headline \cap t) >= MinTokenOverlap
         /\ \E w \in item.headline :
               \/ w \in e.title
               \/ \E i \in DOMAIN e.markets :
                     /\ w \in e.markets[i].question
                     /\ \A j \in DOMAIN e.markets : w \notin e.markets[j].label
  BY FoundIsRelevant DEF Collides, Shared, Names

\* The events that may be found are Gamma's.
LEMMA FoundIsAnEvent ==
  ASSUME search \in Pools, trending \in Pools, NEW e \in Found
  PROVE  e \in Events \cup {NoEvent}
<1>1. search \in Seq(Events) /\ trending \in Seq(Events)
      BY NewsCtaAssumption
<1>2. search \o trending \in Seq(Events)
      BY <1>1, ConcatProperties
<1>3. \A i \in DOMAIN (search \o trending) : (search \o trending)[i] \in Events
      BY <1>2, LenProperties
<1>4. QED BY <1>3 DEF Found, Shortlist, Matching

\* In a finite set with an order, given by what is before each member, there is
\* one member in each place.
LEMMA Ranks ==
  ASSUME NEW S, IsFiniteSet(S), NEW B \in [S -> SUBSET S],
         \A i \in S : i \notin B[i],
         \A i, j \in S : i # j => i \in B[j] \/ j \in B[i],
         \A i, j \in S : i \in B[j] => B[i] \subseteq B[j]
  PROVE  \A k \in 1 .. Cardinality(S) : \E i \in S : Cardinality(B[i]) = k - 1
<1> DEFINE n == Cardinality(S)
           f == [i \in S |-> Cardinality(B[i]) + 1]
<1>1. n \in Nat
      BY FS_CardinalityType
<1>2. \A i \in S : IsFiniteSet(B[i]) /\ Cardinality(B[i]) \in Nat
      BY FS_Subset, FS_CardinalityType
<1>3. \A i \in S : Cardinality(B[i]) < n
  <2> TAKE i \in S
  <2>1. B[i] \in SUBSET S /\ B[i] # S
        OBVIOUS
  <2>2. Cardinality(B[i]) <= n /\ Cardinality(B[i]) # n
        BY <2>1, FS_Subset
  <2>3. QED BY <1>1, <1>2, <2>2
<1>4. \A i, j \in S : i \in B[j] => Cardinality(B[i]) < Cardinality(B[j])
  <2> SUFFICES ASSUME NEW i \in S, NEW j \in S, i \in B[j]
               PROVE  Cardinality(B[i]) < Cardinality(B[j])
      OBVIOUS
  <2>1. B[i] \in SUBSET B[j] /\ B[i] # B[j]
        OBVIOUS
  <2>2. Cardinality(B[i]) <= Cardinality(B[j]) /\ Cardinality(B[i]) # Cardinality(B[j])
        BY <1>2, <2>1, FS_Subset
  <2>3. QED BY <1>2, <2>2
<1>5. f \in [S -> 1 .. n]
      BY <1>1, <1>2, <1>3
<1>6. \A i, j \in S : f[i] = f[j] => i = j
      BY <1>2, <1>4
<1>7. f \in Injection(S, 1 .. n)
      BY <1>5, <1>6 DEF Injection, IsInjective
<1>8. IsFiniteSet(1 .. n) /\ Cardinality(1 .. n) = n
      BY <1>1, FS_Interval
<1>9. f \in Surjection(S, 1 .. n)
      BY <1>7, <1>8, FS_Injection
<1>10. \A k \in 1 .. n : \E i \in S : f[i] = k
      BY <1>9 DEF Surjection
<1>11. \A k \in 1 .. n : \E i \in S : Cardinality(B[i]) + 1 = k
      BY <1>10
<1>12. QED BY <1>2, <1>11

\* A function on 1 .. n is a sequence of n members.
LEMMA NumberedIsSeq ==
  ASSUME NEW S, NEW n \in Nat, NEW f \in [1 .. n -> S]
  PROVE  f \in Seq(S) /\ Len(f) = n /\ DOMAIN f = 1 .. n
  BY IsASeq, LenProperties

\* The choices in the order of their prices: all of them, each in one place.
LEMMA ByPriceRanks ==
  ASSUME NEW e \in Events, NEW S \in SUBSET DOMAIN e.markets
  PROVE  /\ ByPrice(e, S) \in Seq(S)
         /\ DOMAIN ByPrice(e, S) = 1 .. Len(ByPrice(e, S))
         /\ \A j, k \in DOMAIN ByPrice(e, S) : ByPrice(e, S)[j] = ByPrice(e, S)[k] => j = k
         /\ S # {} => Len(ByPrice(e, S)) > 0
<1> DEFINE price(i) == IF e.markets[i].yes = NoPrice THEN 0 ELSE e.markets[i].yes
           before(i) == {j \in S : price(j) > price(i) \/ (price(j) = price(i) /\ j < i)}
           B == [i \in S |-> before(i)]
           n == Cardinality(S)
           at(k) == CHOOSE i \in S : Cardinality(before(i)) = k - 1
<1>1. e.markets \in Seq({e.markets[i] : i \in DOMAIN e.markets})
      BY NewsCtaAssumption
<1>2. DOMAIN e.markets = 1 .. Len(e.markets) /\ Len(e.markets) \in Nat
      BY <1>1, LenProperties
<1>3. IsFiniteSet(S) /\ n \in Nat
  <2>1. IsFiniteSet(1 .. Len(e.markets))
        BY <1>2, FS_Interval
  <2>2. IsFiniteSet(S)
        BY <1>2, <2>1, FS_Subset
  <2>3. QED BY <2>2, FS_CardinalityType
<1>4. \A i \in S : price(i) \in Int /\ i \in Int
  <2> TAKE i \in S
  <2>1. e.markets[i].yes \in Nat \cup {NoPrice}
        BY NewsCtaAssumption
  <2>2. price(i) \in Nat
        BY <2>1
  <2>3. QED BY <1>2, <2>2
<1> HIDE DEF price
<1>5. B \in [S -> SUBSET S]
      OBVIOUS
<1>6. \A i \in S : i \notin B[i]
      BY <1>4
<1>7. \A i, j \in S : i # j => i \in B[j] \/ j \in B[i]
      BY <1>4
<1>8. \A i, j \in S : i \in B[j] => B[i] \subseteq B[j]
      BY <1>4
<1>9. \A k \in 1 .. n : \E i \in S : Cardinality(B[i]) = k - 1
  <2> HIDE DEF B
  <2> QED BY <1>3, <1>5, <1>6, <1>7, <1>8, Ranks
<1>10. \A i \in S : B[i] = before(i)
      OBVIOUS
<1> HIDE DEF B, before
<1>11. \A k \in 1 .. n : at(k) \in S /\ Cardinality(before(at(k))) = k - 1
      BY <1>9, <1>10
<1>12. ByPrice(e, S) = [k \in 1 .. n |-> at(k)]
      BY DEF ByPrice, price, before
<1> HIDE DEF at, n
<1>13. ByPrice(e, S) \in [1 .. n -> S]
      BY <1>11, <1>12
<1>14. ByPrice(e, S) \in Seq(S) /\ Len(ByPrice(e, S)) = n /\ DOMAIN ByPrice(e, S) = 1 .. n
      BY <1>3, <1>13, NumberedIsSeq
<1>15. \A j, k \in 1 .. n : ByPrice(e, S)[j] = ByPrice(e, S)[k] => j = k
  <2> TAKE j, k \in 1 .. n
  <2>1. ByPrice(e, S)[j] = at(j) /\ ByPrice(e, S)[k] = at(k)
        BY <1>12
  <2>2. at(j) = at(k) => j - 1 = k - 1
        BY <1>11
  <2>3. j \in Int /\ k \in Int
        OBVIOUS
  <2>4. QED BY <2>1, <2>2, <2>3
<1>16. S # {} => n > 0
      BY <1>3, FS_EmptySet DEF n
<1>17. QED BY <1>14, <1>15, <1>16

\* What is built from an event: no button, or two and more up to the cap, of
\* which no two place the same bet.
Distinct(out) ==
  /\ Len(out) <= OutcomesCap /\ Len(out) # 1
  /\ \A j, k \in DOMAIN out : out[j] = out[k] => j = k

\* The bets of an event are of different candidates, as many as fit.
LEMMA OutcomesAreDistinct ==
  ASSUME NEW e \in Events \cup {NoEvent}
  PROVE  Distinct(BuildOutcomes(e))
<1> DEFINE Bets == {Bet(e.markets[i], side) : i \in DOMAIN e.markets, side \in {"yes", "no"}}
           priced == {i \in Live(e) : e.markets[i].label # {} /\ e.markets[i].yes # NoPrice}
           S == Once(e, priced)
           choices == ByPrice(e, S)
           best == e.markets[ByPrice(e, Live(e))[1]]
           cap == IF Len(choices) < OutcomesCap THEN Len(choices) ELSE OutcomesCap
           leaders == [k \in 1 .. cap |-> Bet(e.markets[choices[k]], "yes")]
           sides == <<Bet(best, "yes"), Bet(best, "no")>>
           out == BuildOutcomes(e)
<1> USE DEF Distinct
<1>1. out = IF Len(choices) >= 2 THEN leaders ELSE IF Live(e) = {} THEN <<>> ELSE sides
      BY DEF BuildOutcomes
<1>2. OutcomesCap \in Nat /\ OutcomesCap >= 2
      BY NewsCtaAssumption
<1>3. CASE e = NoEvent
  <2>1. Live(e) = {} /\ S = {}
        BY <1>3 DEF NoEvent, Live, Once
  <2>2. choices = <<>>
    <3>1. choices = [k \in 1 .. Cardinality({}) |-> CHOOSE i \in {} : FALSE]
          BY <2>1, FS_EmptySet DEF ByPrice
    <3>2. QED BY <3>1, FS_EmptySet
  <2>3. Len(choices) = 0
        BY <2>2
  <2>4. out = <<>>
        BY <1>1, <2>1, <2>3
  <2>5. QED BY <1>2, <2>4
<1>4. CASE e \in Events
  <2>1. e.markets \in Seq({e.markets[i] : i \in DOMAIN e.markets})
        BY <1>4, NewsCtaAssumption
  <2>2. DOMAIN e.markets = 1 .. Len(e.markets) /\ Len(e.markets) \in Nat
        BY <2>1, LenProperties
  <2>3. Live(e) \in SUBSET DOMAIN e.markets /\ S \in SUBSET DOMAIN e.markets
        BY DEF Live, Once
  <2>4. \A i, j \in S : e.markets[i].id = e.markets[j].id => i = j
        BY <2>2, <2>3 DEF Once
  <2> HIDE DEF S
  <2>5. /\ choices \in Seq(S) /\ DOMAIN choices = 1 .. Len(choices)
        /\ \A j, k \in DOMAIN choices : choices[j] = choices[k] => j = k
        BY <1>4, <2>3, ByPriceRanks
  <2> HIDE DEF choices
  <2>6. Len(choices) \in Nat /\ \A k \in 1 .. Len(choices) : choices[k] \in S
        BY <2>5, LenProperties
  <2>7. CASE Len(choices) >= 2
    <3>1. cap \in Nat /\ cap <= OutcomesCap /\ cap >= 2 /\ 1 .. cap \subseteq 1 .. Len(choices)
          BY <1>2, <2>6, <2>7
    <3> HIDE DEF cap
    <3>2. \A k \in 1 .. cap : Bet(e.markets[choices[k]], "yes") \in Bets
          BY <2>3, <2>6, <3>1
    <3>3. leaders \in [1 .. cap -> Bets]
          BY <3>2
    <3>4. leaders \in Seq(Bets) /\ Len(leaders) = cap /\ DOMAIN leaders = 1 .. cap
          BY <3>1, <3>3, NumberedIsSeq
    <3>5. \A j, k \in 1 .. cap : leaders[j] = leaders[k] => j = k
      <4> SUFFICES ASSUME NEW j \in 1 .. cap, NEW k \in 1 .. cap, leaders[j] = leaders[k]
                   PROVE  j = k
          OBVIOUS
      <4>1. e.markets[choices[j]].id = e.markets[choices[k]].id
            BY DEF Bet
      <4>2. choices[j] \in S /\ choices[k] \in S /\ j \in DOMAIN choices /\ k \in DOMAIN choices
            BY <2>5, <2>6, <3>1
      <4>3. QED BY <2>4, <2>5, <4>1, <4>2
    <3>6. out = leaders
          BY <1>1, <2>7
    <3> HIDE DEF leaders
    <3>7. out \in Seq(Bets) /\ Len(out) = cap /\ DOMAIN out = 1 .. cap
          BY <3>4, <3>6
    <3>8. \A j, k \in DOMAIN out : out[j] = out[k] => j = k
          BY <3>5, <3>6, <3>7
    <3>9. Len(out) <= OutcomesCap /\ Len(out) # 1
          BY <3>1, <3>7
    <3>10. QED BY <3>7, <3>8, <3>9
  <2>8. CASE Len(choices) < 2 /\ Live(e) = {}
    <3>1. out = <<>>
          BY <1>1, <2>6, <2>8
    <3>2. QED BY <1>2, <3>1
  <2>9. CASE Len(choices) < 2 /\ Live(e) # {}
    <3>1. out = sides
          BY <1>1, <2>6, <2>9
    <3>2. ByPrice(e, Live(e)) \in Seq(Live(e)) /\ Len(ByPrice(e, Live(e))) > 0
          BY <1>4, <2>3, <2>9, ByPriceRanks
    <3>3. ByPrice(e, Live(e))[1] \in Live(e)
          BY <3>2, LenProperties
    <3>4. Bet(best, "yes") \in Bets /\ Bet(best, "no") \in Bets
          BY <2>3, <3>3
    <3>5. Bet(best, "yes") # Bet(best, "no")
          BY DEF Bet
    <3>6. QED BY <1>2, <3>1, <3>4, <3>5
  <2>10. QED BY <2>6, <2>7, <2>8, <2>9
<1>5. QED BY <1>3, <1>4

\* The state of an item and of what Gamma answers.
CtaTyped ==
    /\ search \in Pools /\ trending \in Pools
    /\ item \in [headline : Headlines, hint : Hints \cup {NoHint}, approved : BOOLEAN]

CtaInvariant == CtaTyped /\ CtaInv /\ BetsAreAboutTheStory

LEMMA CtaStarts == CtaInit => CtaInvariant
<1> SUFFICES ASSUME CtaInit PROVE CtaInvariant
    OBVIOUS
<1>1. CtaTyped
      BY DEF CtaInit, CtaTyped
<1>2. CtaInv
      BY NewsCtaAssumption DEF CtaInit, CtaInv
<1>3. BetsAreAboutTheStory
      BY DEF CtaInit, BetsAreAboutTheStory
<1>4. QED BY <1>1, <1>2, <1>3 DEF CtaInvariant

LEMMA CtaKeeps == CtaInvariant /\ [CtaNext]_ctaVars => CtaInvariant'
<1> SUFFICES ASSUME CtaInvariant, [CtaNext]_ctaVars PROVE CtaInvariant'
    OBVIOUS
<1> USE DEF CtaInvariant
<1>1. CtaTyped' /\ item'.headline = item.headline
  <2>1. CASE AutoApprove \/ Approve
        BY <2>1 DEF CtaTyped, AutoApprove, Approve, gammaVars
  <2>2. CASE Render \/ Post
        BY <2>2 DEF CtaTyped, Render, Post, gammaVars
  <2>3. CASE GammaMoves
        BY <2>3 DEF CtaTyped, GammaMoves
  <2>4. CASE UNCHANGED ctaVars
        BY <2>4 DEF CtaTyped, ctaVars, gammaVars
  <2>5. QED BY <2>1, <2>2, <2>3, <2>4 DEF CtaNext
<1>2. CASE Render
  <2>1. \/ UNCHANGED <<cta, origin>>
        \/ cta = <<>> /\ item.hint # NoHint /\ cta' = Hinted /\ UNCHANGED origin
        \/ cta = <<>> /\ \E e \in Found : BuildOutcomes(e) # <<>> /\ cta' = BuildOutcomes(e) /\ origin' = e
        BY <1>2 DEF Render, Unresolved
  <2>2. posted' = posted /\ item' = item
        BY <1>2 DEF Render
  <2>3. CASE UNCHANGED <<cta, origin>>
        BY <1>1, <2>2, <2>3 DEF CtaInv, BetsAreAboutTheStory
  <2>4. CASE cta = <<>> /\ item.hint # NoHint /\ cta' = Hinted /\ UNCHANGED origin
    <3>1. posted = <<>>
          BY <2>4 DEF CtaInv
    <3>2. Len(cta') = 2 /\ DOMAIN cta' = 1 .. 2 /\ cta'[1] # cta'[2]
          BY <2>4 DEF Hinted
    <3>3. OutcomesCap \in Nat /\ OutcomesCap >= 2
          BY NewsCtaAssumption
    <3>4. CtaInv'
          BY <2>2, <3>1, <3>2, <3>3 DEF CtaInv
    <3>5. BetsAreAboutTheStory'
          BY <2>2, <2>4 DEF BetsAreAboutTheStory
    <3>6. QED BY <1>1, <3>4, <3>5
  <2>5. ASSUME cta = <<>>, NEW e \in Found, cta' = BuildOutcomes(e), origin' = e PROVE CtaInvariant'
    <3>1. posted = <<>>
          BY <2>5 DEF CtaInv
    <3>2. e \in Events \cup {NoEvent}
          BY <2>5, FoundIsAnEvent DEF CtaTyped
    <3>3. /\ Len(cta') <= OutcomesCap /\ Len(cta') # 1
          /\ \A j, k \in DOMAIN cta' : cta'[j] = cta'[k] => j = k
      <4>1. Distinct(cta')
            BY <2>5, <3>2, OutcomesAreDistinct
      <4>2. QED BY <4>1 DEF Distinct
    <3>4. CtaInv'
          BY <2>2, <3>1, <3>3 DEF CtaInv
    <3>5. BetsAreAboutTheStory'
      <4>1. CASE e = NoEvent
            BY <2>5, <4>1 DEF BetsAreAboutTheStory
      <4>2. CASE e # NoEvent
            BY <2>2, <2>5, <4>2, FoundIsAboutTheStory DEF BetsAreAboutTheStory, CtaTyped
      <4>3. QED BY <4>1, <4>2
    <3>6. QED BY <1>1, <3>4, <3>5
  <2>6. QED BY <2>1, <2>3, <2>4, <2>5
<1>3. CASE AutoApprove \/ Approve \/ GammaMoves
  <2>1. UNCHANGED <<cta, origin, posted>>
        BY <1>3 DEF AutoApprove, Approve, GammaMoves
  <2>2. CtaInv'
        BY <2>1 DEF CtaInv
  <2>3. BetsAreAboutTheStory'
        BY <1>1, <2>1 DEF BetsAreAboutTheStory
  <2>4. QED BY <1>1, <2>2, <2>3
<1>4. CASE Post
  <2>1. UNCHANGED <<cta, origin, item>> /\ posted' = cta
        BY <1>4 DEF Post
  <2>2. CtaInv'
        BY <2>1 DEF CtaInv
  <2>3. BetsAreAboutTheStory'
        BY <2>1 DEF BetsAreAboutTheStory
  <2>4. QED BY <1>1, <2>2, <2>3
<1>5. CASE UNCHANGED ctaVars
      BY <1>1, <1>5 DEF ctaVars, CtaInv, BetsAreAboutTheStory
<1>6. QED BY <1>2, <1>3, <1>4, <1>5 DEF CtaNext

\* The bets a news item offers are distinct, two or more up to the cap, and links
\* posted mean for ever what their buttons showed: once there are any they stay.
THEOREM ItemBetsAreStable == CtaSpec => []CtaInv
<1>1. CtaInvariant => CtaInv
      BY DEF CtaInvariant
<1>2. QED BY CtaStarts, CtaKeeps, <1>1, PTL DEF CtaSpec

\* They come from an event that shares two words with the story, at least one of
\* them more than a candidate's name.
THEOREM ItemBetsAreAboutTheStory == CtaSpec => []BetsAreAboutTheStory
<1>1. CtaInvariant => BetsAreAboutTheStory
      BY DEF CtaInvariant
<1>2. QED BY CtaStarts, CtaKeeps, <1>1, PTL DEF CtaSpec

-----------------------------------------------------------------------------
(* The buttons of positions and orders: OrderDesk.                          *)

\* The rows with buttons are rows of the list that can be sold.
LEMMA ShownAreUsable ==
  ASSUME NEW list \in Listings
  PROVE  /\ Len(Shown(list)) \in Nat /\ DOMAIN Shown(list) = 1..Len(Shown(list))
         /\ \A k \in 1..Len(Shown(list)) :
               /\ \E row \in Range(list) : Shown(list)[k] = row
               /\ Usable(Shown(list)[k]) /\ Shown(list)[k].size \in Nat \ {0}
<1> DEFINE S == {i \in DOMAIN list : Usable(list[i])}
           n == Cardinality(S)
           cap == IF n < Cap THEN n ELSE Cap
           B == [i \in S |-> {j \in S : j < i}]
<1>1. list \in Seq(Range(list)) /\ (\A row \in Range(list) : row.size \in Nat) /\ Cap \in Nat
      BY DeskAssumption
<1>2. DOMAIN list = 1..Len(list) /\ Len(list) \in Nat /\ \A i \in DOMAIN list : list[i] \in Range(list)
      BY <1>1, LenProperties DEF Range
<1>3. IsFiniteSet(S) /\ n \in Nat
  <2>1. IsFiniteSet(1..Len(list))
        BY <1>2, FS_Interval
  <2>2. IsFiniteSet(S)
        BY <1>2, <2>1, FS_Subset
  <2>3. QED BY <2>2, FS_CardinalityType
<1>4. \A i \in S : i \in Int
      BY <1>2
<1>5. /\ B \in [S -> SUBSET S] /\ \A i \in S : i \notin B[i]
      /\ \A i, j \in S : i # j => i \in B[j] \/ j \in B[i]
      /\ \A i, j \in S : i \in B[j] => B[i] \subseteq B[j]
      BY <1>4
<1>6. \A k \in 1..n : \E i \in S : Cardinality(B[i]) = k - 1
  <2> HIDE DEF B
  <2> QED BY <1>3, <1>5, Ranks
<1>7. \A k \in 1..n : Place(S, k) \in S
      BY <1>6 DEF Place
<1>8. \A i \in S : list[i] \in Range(list) /\ Usable(list[i]) /\ list[i].size \in Nat \ {0}
      BY <1>1, <1>2 DEF Usable
<1>9. cap \in Nat /\ \A k \in 1..cap : k \in 1..n
  <2>1. cap \in Nat /\ cap <= n
        BY <1>1, <1>3
  <2> HIDE DEF cap, n
  <2>2. QED BY <1>3, <2>1
<1>10. Shown(list) = [k \in 1..cap |-> list[Place(S, k)]]
      BY DEF Shown
<1> HIDE DEF S, n, cap, B
<1>11. \A k \in 1..cap : /\ Shown(list)[k] \in Range(list) /\ Usable(Shown(list)[k])
                         /\ Shown(list)[k].size \in Nat \ {0}
      BY <1>7, <1>8, <1>9, <1>10
<1>12. DOMAIN Shown(list) = 1..cap
      BY <1>10
<1>13. Shown(list) \in [1..cap -> Range(list)]
      BY <1>10, <1>11, <1>12
<1>14. Shown(list) \in Seq(Range(list)) /\ Len(Shown(list)) = cap
      BY <1>9, <1>13, IsASeq, LenProperties
<1>15. QED BY <1>9, <1>11, <1>12, <1>14

\* A part of a size is at most the size, and its own number of percent to half
\* of a millionth.
LEMMA PartIsRounded ==
  ASSUME NEW size \in Nat \ {0}, NEW pct \in {25, 50, 75}
  PROVE  /\ Part(size, pct) \in Nat /\ Part(size, pct) <= size
         /\ 100 * Part(size, pct) - size * pct \in -50..50
<1> DEFINE q == (size * pct + 50) \div 100
<1>1. size * pct \in Nat /\ size * pct <= 75 * size /\ size * pct >= 25
      OBVIOUS
<1>2. q \in Nat /\ 100 * q <= size * pct + 50 /\ size * pct + 50 < 100 * q + 100
      BY <1>1
<1>3. q <= size
      BY <1>1, <1>2
<1>4. 100 * q - size * pct \in -50..50
      BY <1>1, <1>2
<1>5. QED BY <1>2, <1>3, <1>4 DEF Part

DeskKinds == {"positions", "orders"}

\* What is behind the buttons of a kind.
Stash(kind) == IF kind = "positions" THEN pos_tokens ELSE open_orders

\* A list that a message may show.
ListOf(kind, lines) ==
  IF kind = "positions" THEN \E list \in Listings : lines = Shown(list) ELSE lines \in OrderLists

\* A message is numbered as the lists are, its buttons as its lines, and the
\* newest of its kind shows what is stashed, unless the stash is lost.
MessageOk(m) ==
  /\ m.kind \in DeskKinds /\ m.no \in 1..behind[m.kind] /\ ListOf(m.kind, m.lines)
  /\ DOMAIN m.lines = 1..Len(m.lines) /\ m.buttons = [k \in 1..Len(m.lines) |-> k]
  /\ m.no = behind[m.kind] => Stash(m.kind) \in {<<>>, m.lines}

StashesOk ==
  /\ account \in {None, "view", "signs"}
  /\ behind \in [positions : 0..MaxLists, orders : 0..MaxLists]
  /\ \A kind \in DeskKinds : Stash(kind) = <<>> \/ ListOf(kind, Stash(kind))
  /\ \A m \in messages : MessageOk(m)

\* What the last update ended in is no tap of a button.
NotTapped == last.reply # "confirm" \/ last.tap = NoTap

DeskInvariant == StashesOk /\ DeskInv /\ TapsMeanTheirLine

\* Unless a button was tapped there is only the stash to say something of.
LEMMA NotTappedIsFine == StashesOk /\ NotTapped => DeskInvariant
<1> SUFFICES ASSUME StashesOk, NotTapped PROVE DeskInvariant
    OBVIOUS
<1>1. ~ Tapped("positions") /\ ~ Tapped("orders")
      BY DEF NotTapped, Tapped
<1>2. DOMAIN behind = DeskKinds /\ \A k \in DOMAIN behind : behind[k] \in 0..MaxLists
      BY DEF StashesOk, DeskKinds
<1>3. \A m \in messages : m.no \in 1..behind[m.kind] /\ DOMAIN m.buttons = DOMAIN m.lines
      BY DEF StashesOk, MessageOk
<1>4. DeskInv
      BY <1>1, <1>2, <1>3 DEF DeskInv, StashesOk
<1>5. QED BY <1>1, <1>4 DEF DeskInvariant, TapsMeanTheirLine

\* Looking, and typing a command, leaves the stashes alone and taps no button.
Looks == NotTapped' /\ UNCHANGED <<account, stashes>>

\* Screens, and requests that come from no button, are no taps.
LEMMA ScreensLook ==
  /\ \A r : r # "confirm" /\ Screen(r) => NotTapped'
  /\ \A i : Request(i, NoTap) => NotTapped'
  BY DEF Screen, Request, NotTapped

LEMMA ViewsLook ==
  ASSUME NEW client, NEW screens \in SUBSET {"shown", "empty"}, View(client, screens)
  PROVE  Looks
<1>1. PICK r \in Refusals(client) \cup screens : Screen(r)
      BY DEF View
<1>2. r # "confirm"
      BY DEF Refusals
<1>3. QED BY <1>1, <1>2, ScreensLook DEF View, Looks

LEMMA RefusalsLook == Refuse => Looks
  BY ScreensLook DEF Refuse, Looks

LEMMA BalanceLooks == ShowBalance => Looks
  BY DEF ShowBalance, Looks, NotTapped

LEMMA TilesLook == Tile => Looks
  BY ScreensLook DEF Tile, Looks

LEMMA CommandsLook ==
  /\ CancelAll => Looks
  /\ \A side, n : Market(side, n) => Looks
  /\ \A side, p, n : Limit(side, p, n) => Looks
  /\ \A t : Close(t) => Looks
  /\ \A id : CancelCommand(id) => Looks
<1>1. CancelAll => Looks
      BY ScreensLook DEF CancelAll, Looks
<1>2. ASSUME NEW side, NEW n, Market(side, n) PROVE Looks
      BY <1>2, ScreensLook DEF Market, Looks
<1>3. ASSUME NEW side, NEW p, NEW n, Limit(side, p, n) PROVE Looks
      BY <1>3, ScreensLook DEF Limit, Looks
<1>4. ASSUME NEW t, Close(t) PROVE Looks
  <2>1. CASE View("readonly", {})
        BY <2>1, ViewsLook
  <2>2. CASE \E list \in Listings :
               /\ Screen("empty") \/ Request(Sale(list[FirstOf(list, t)], 100), NoTap)
               /\ UNCHANGED <<account, stashes>>
        BY <2>2, ScreensLook DEF Looks
  <2>3. QED BY <1>4, <2>1, <2>2 DEF Close
<1>5. ASSUME NEW id, CancelCommand(id) PROVE Looks
      BY <1>5, ScreensLook DEF CancelCommand, Looks
<1>6. QED BY <1>1, <1>2, <1>3, <1>4, <1>5

\* A new list of positions, or of orders: it replaces the stash, and the message
\* with it, if it is sent, is the newest.
LEMMA NewListIsStashed ==
  ASSUME StashesOk, NEW kind \in DeskKinds, NEW lines, NEW seen \in BOOLEAN, NEW edited, NEW buttons,
         ListOf(kind, lines), DOMAIN lines = 1..Len(lines), buttons = [k \in 1..Len(lines) |-> k],
         behind.positions + behind.orders < MaxLists,
         account' = account, behind' = [behind EXCEPT ![kind] = @ + 1],
         Stash(kind)' = lines, \A k \in DeskKinds : k # kind => Stash(k)' = Stash(k),
         messages' = (messages \ edited) \cup
            (IF seen THEN {[kind |-> kind, no |-> behind'[kind], lines |-> lines, buttons |-> buttons]} ELSE {})
  PROVE  StashesOk'
<1>0. MaxLists \in Nat
      BY DeskAssumption
<1>1. behind \in [positions : 0..MaxLists, orders : 0..MaxLists]
      BY DEF StashesOk
<1>2. \A k \in DeskKinds : behind[k] \in Nat /\ behind'[k] = IF k = kind THEN behind[k] + 1 ELSE behind[k]
      BY <1>1 DEF DeskKinds
<1>3. behind' \in [positions : 0..MaxLists, orders : 0..MaxLists]
  <2>1. behind.positions \in 0..MaxLists /\ behind.orders \in 0..MaxLists
        BY <1>1
  <2>2. behind.positions + 1 \in 0..MaxLists /\ behind.orders + 1 \in 0..MaxLists
        BY <1>0, <2>1
  <2>3. QED BY <1>1, <2>1, <2>2 DEF DeskKinds
<1>4. \A k \in DeskKinds : (Stash(k) = <<>> \/ ListOf(k, Stash(k)))'
  <2> SUFFICES ASSUME NEW k \in DeskKinds PROVE Stash(k)' = <<>> \/ ListOf(k, Stash(k)')
      BY DEF ListOf
  <2>1. QED BY DEF StashesOk
<1>5. ASSUME NEW m \in messages PROVE MessageOk(m)'
  <2>1. MessageOk(m)
        BY <1>5 DEF StashesOk
  <2>2. m.kind \in DeskKinds /\ m.no \in 1..behind[m.kind]
        BY <2>1 DEF MessageOk
  <2>3. m.no \in 1..behind'[m.kind] /\ (m.kind = kind => m.no # behind'[m.kind])
        BY <1>2, <2>2
  <2>4. m.kind # kind => Stash(m.kind)' = Stash(m.kind) /\ behind'[m.kind] = behind[m.kind]
        BY <1>2, <2>2
  <2>5. m.no = behind'[m.kind] => Stash(m.kind)' \in {<<>>, m.lines}
        BY <2>1, <2>3, <2>4 DEF MessageOk
  <2>6. ListOf(m.kind, m.lines)'
        BY <2>1 DEF MessageOk, ListOf
  <2>7. QED BY <2>1, <2>2, <2>3, <2>5, <2>6 DEF MessageOk
<1>6. ASSUME NEW m, m = [kind |-> kind, no |-> behind'[kind], lines |-> lines, buttons |-> buttons]
      PROVE  MessageOk(m)'
  <2>1. m.kind = kind /\ m.no = behind'[kind] /\ m.lines = lines /\ m.buttons = buttons
        BY <1>6
  <2>2. behind'[kind] \in 1..behind'[kind]
        BY <1>2
  <2>3. ListOf(m.kind, m.lines)'
        BY <2>1 DEF ListOf
  <2>4. QED BY <2>1, <2>2, <2>3 DEF MessageOk
<1>7. ASSUME NEW m \in messages' PROVE MessageOk(m)'
  <2>1. m \in messages \/ m = [kind |-> kind, no |-> behind'[kind], lines |-> lines, buttons |-> buttons]
        BY <1>7
  <2>2. QED BY <1>5, <1>6, <2>1
<1>8. account' \in {None, "view", "signs"}
      BY DEF StashesOk
<1>9. QED BY <1>3, <1>4, <1>7, <1>8 DEF StashesOk

\* /positions and /orders leave a stash that fits the chat.
LEMMA ListsAreStashed ==
  ASSUME StashesOk, Manage \/ (\E edited \in SUBSET messages : Orders(edited))
  PROVE  StashesOk' /\ NotTapped'
<1>1. ASSUME Looks PROVE StashesOk' /\ NotTapped'
      BY <1>1 DEF Looks, stashes, StashesOk, MessageOk, Stash, ListOf
<1>2. ASSUME Manage PROVE StashesOk' /\ NotTapped'
  <2>1. CASE View("readonly", {"empty"})
        BY <1>1, <2>1, ViewsLook
  <2>2. ASSUME NEW list \in Listings, NEW seen \in BOOLEAN,
               behind.positions + behind.orders < MaxLists,
               pos_tokens' = Shown(list), behind' = [behind EXCEPT !.positions = @ + 1],
               Screen(IF seen THEN "shown" ELSE "error"),
               messages' = messages \cup
                 (IF seen THEN {[kind |-> "positions", no |-> behind'.positions, lines |-> Shown(list),
                                 buttons |-> ListButtons(list)]} ELSE {}),
               UNCHANGED <<account, open_orders>>
        PROVE  StashesOk' /\ NotTapped'
    <3>1. NotTapped'
          BY <2>2, ScreensLook
    <3>2. DOMAIN Shown(list) = 1..Len(Shown(list)) /\ ListOf("positions", Shown(list))
          BY ShownAreUsable DEF ListOf
    <3>3. ListButtons(list) = [k \in 1..Len(Shown(list)) |-> k]
          BY DEF ListButtons
    <3>4. Stash("positions")' = Shown(list) /\ \A k \in DeskKinds : k # "positions" => Stash(k)' = Stash(k)
          BY <2>2 DEF Stash, DeskKinds
    <3>5. /\ behind' = [behind EXCEPT !["positions"] = @ + 1] /\ "positions" \in DeskKinds
          /\ messages' = (messages \ {}) \cup
                (IF seen THEN {[kind |-> "positions", no |-> behind'["positions"], lines |-> Shown(list),
                                buttons |-> ListButtons(list)]} ELSE {})
          BY <2>2 DEF DeskKinds
    <3>6. StashesOk'
          BY <2>2, <3>2, <3>3, <3>4, <3>5, NewListIsStashed
    <3>7. QED BY <3>1, <3>6
  <2>3. QED BY <1>2, <2>1, <2>2 DEF Manage
<1>3. ASSUME NEW edited \in SUBSET messages, Orders(edited) PROVE StashesOk' /\ NotTapped'
  <2>1. CASE View("trading", {"empty"})
        BY <1>1, <2>1, ViewsLook
  <2>2. ASSUME NEW list \in OrderLists, NEW seen \in BOOLEAN,
               behind.positions + behind.orders < MaxLists,
               open_orders' = list, behind' = [behind EXCEPT !.orders = @ + 1],
               Screen(IF seen THEN "shown" ELSE "error"),
               messages' = IF seen THEN (messages \ edited) \cup
                              {[kind |-> "orders", no |-> behind'.orders, lines |-> list,
                                buttons |-> [k \in 1..Len(list) |-> k]]}
                           ELSE messages,
               UNCHANGED <<account, pos_tokens>>
        PROVE  StashesOk' /\ NotTapped'
    <3> DEFINE left == IF seen THEN edited ELSE {}
               buttons == [k \in 1..Len(list) |-> k]
    <3>1. NotTapped'
          BY <2>2, ScreensLook
    <3>2. DOMAIN list = 1..Len(list) /\ ListOf("orders", list)
          BY DeskAssumption, LenProperties DEF ListOf
    <3>3. Stash("orders")' = list /\ \A k \in DeskKinds : k # "orders" => Stash(k)' = Stash(k)
          BY <2>2 DEF Stash, DeskKinds
    <3>4. /\ behind' = [behind EXCEPT !["orders"] = @ + 1] /\ "orders" \in DeskKinds
          /\ messages' = (messages \ left) \cup
                (IF seen THEN {[kind |-> "orders", no |-> behind'["orders"], lines |-> list,
                                buttons |-> buttons]} ELSE {})
          BY <2>2 DEF DeskKinds
    <3>5. StashesOk'
      <4> HIDE DEF left
      <4> QED BY <2>2, <3>2, <3>3, <3>4, NewListIsStashed
    <3>6. QED BY <3>1, <3>5
  <2>3. QED BY <1>3, <2>1, <2>2 DEF Orders
<1>4. QED BY <1>2, <1>3

\* The same of the state that follows.
LEMMA NotTappedWillBeFine == (StashesOk /\ NotTapped => DeskInvariant)'
  BY NotTappedIsFine, PTL

\* What does not depend on the last update.
LEMMA StashesHaveTheirShape ==
  ASSUME StashesOk'
  PROVE  /\ account' \in {None, "view", "signs"} /\ \A k \in DOMAIN behind' : behind'[k] \in 0..MaxLists
         /\ \A m \in messages' : m.no \in 1..behind'[m.kind] /\ DOMAIN m.buttons = DOMAIN m.lines
<1>1. behind' \in [positions : 0..MaxLists, orders : 0..MaxLists]
      BY DEF StashesOk
<1>2. \A k \in DOMAIN behind' : behind'[k] \in 0..MaxLists
      BY <1>1
<1>3. QED BY <1>2 DEF StashesOk, MessageOk

\* What a sale asks for is of its row: at most its size, all of it only to close
\* it, and the part that the button names to half of a millionth.
LEMMA SalesAreParts ==
  ASSUME NEW row, row.size \in Nat \ {0}, NEW pct \in Percentages
  PROVE  /\ Sale(row, pct).token = row.token
         /\ Sale(row, pct).amount <= row.size
         /\ Sale(row, pct).kind = "close" <=> pct = 100
         /\ 100 * Sale(row, pct).amount - row.size * pct \in -50..50
<1>1. CASE pct = 100
      BY <1>1 DEF Sale
<1>2. CASE pct # 100
  <2>1. pct \in {25, 50, 75} /\ ~ pct >= 100
        BY <1>2 DEF Percentages
  <2>2. Sale(row, pct) = [kind |-> "market", token |-> row.token, amount |-> Part(row.size, pct)]
        BY <2>1 DEF Sale
  <2>3. QED BY <2>1, <2>2, PartIsRounded
<1>3. QED BY <1>1, <1>2

\* A tap on a line of a list: if its index is still stashed, what is asked for is
\* of the row that is, which for the newest list is the line itself.
LEMMA TapsKeep ==
  ASSUME DeskInvariant, NEW m \in messages, NEW k \in 1..Len(m.lines),
         OnOrderCancel(m, k) \/ (\E pct \in Percentages : OnPositionAction(m, k, pct))
  PROVE  DeskInvariant'
<1>0. /\ StashesOk /\ MessageOk(m) /\ m.buttons[k] = k /\ m.kind \in DeskKinds
      BY DEF DeskInvariant, StashesOk, MessageOk
<1>1. UNCHANGED <<account, stashes>>
      BY DEF OnOrderCancel, OnPositionAction, Tap
<1>2. StashesOk'
      BY <1>0, <1>1 DEF stashes, StashesOk, MessageOk, Stash, ListOf
<1>3. CASE Screen("expired")
      BY <1>2, <1>3, ScreensLook, NotTappedWillBeFine
<1>4. m.no = behind'[m.kind] /\ k \in DOMAIN Stash(m.kind) => Stash(m.kind)[k] = m.lines[k]
  <2>1. m.no = behind[m.kind] => Stash(m.kind) \in {<<>>, m.lines}
        BY <1>0 DEF MessageOk
  <2>2. k \notin DOMAIN <<>> /\ behind' = behind
        BY <1>1 DEF stashes
  <2>3. QED BY <2>1, <2>2
<1>5. CASE m.kind = "orders" /\ k \in DOMAIN open_orders /\ OnOrderCancel(m, k)
  <2>1. Request(Cancellation(open_orders[k]), [message |-> m, line |-> k, pct |-> 100])
        BY <1>0, <1>5 DEF OnOrderCancel, Tap
  <2>2. last' = [reply |-> "confirm", intent |-> [kind |-> "cancel", order_id |-> open_orders[k]],
                 tap |-> [message |-> m, line |-> k, pct |-> 100]]
        BY <2>1 DEF Request, Cancellation
  <2>3. /\ last'.tap.message = m /\ last'.tap.line = k /\ last'.intent.order_id = open_orders[k]
        BY <2>2
  <2>4. ~ Tapped("positions")'
        BY <1>5, <2>3 DEF Tapped
  <2>5. OfTheNewest' => last'.intent.order_id = Line'
        BY <1>4, <1>5, <2>3 DEF OfTheNewest, Line, Stash
  <2>6. QED BY <1>2, <2>4, <2>5, StashesHaveTheirShape DEF DeskInvariant, DeskInv, TapsMeanTheirLine
<1>6. ASSUME NEW pct \in Percentages,
             m.kind = "positions", k \in DOMAIN pos_tokens, OnPositionAction(m, k, pct)
      PROVE  DeskInvariant'
  <2> DEFINE row == pos_tokens[k]
  <2>1. PICK list \in Listings : pos_tokens = Shown(list)
    <3>1. pos_tokens = <<>> \/ \E list \in Listings : pos_tokens = Shown(list)
          BY <1>0 DEF StashesOk, DeskKinds, Stash, ListOf
    <3>2. QED BY <1>6, <3>1
  <2>2. (\E r \in Range(list) : row = r) /\ row.size \in Nat \ {0}
    <3>1. k \in 1..Len(Shown(list))
          BY <1>6, <2>1, ShownAreUsable
    <3>2. QED BY <2>1, <3>1, ShownAreUsable
  <2>3. Request(Sale(row, pct), [message |-> m, line |-> k, pct |-> pct])
        BY <1>0, <1>6 DEF OnPositionAction, Tap
  <2>4. last' = [reply |-> "confirm", intent |-> Sale(row, pct),
                 tap |-> [message |-> m, line |-> k, pct |-> pct]]
        BY <2>3 DEF Request
  <2>5. /\ last'.tap.message = m /\ last'.tap.line = k /\ last'.tap.pct = pct
        /\ last'.intent = Sale(row, pct)
        BY <2>4
  <2>6. ~ Tapped("orders")'
        BY <1>6, <2>5 DEF Tapped
  <2> HIDE DEF row
  <2>7. \E l \in Listings : \E r \in Range(l) :
             /\ r.token = last'.intent.token /\ last'.intent.amount <= r.size
             /\ (last'.intent.kind = "close" <=> last'.tap.pct = 100)
        BY <2>2, <2>5, SalesAreParts
  <2>8. OfTheNewest' => Line' = row
        BY <1>4, <1>6, <2>5 DEF OfTheNewest, Line, Stash, row
  <2>9. OfTheNewest' => /\ last'.intent.token = Line'.token
                        /\ 100 * last'.intent.amount - Line'.size * last'.tap.pct \in -50..50
    <3>1. Sale(row, pct).token = row.token /\ 100 * Sale(row, pct).amount - row.size * pct \in -50..50
          BY <2>2, SalesAreParts, ZenonT(30)
    <3>2. OfTheNewest' => Line'.token = row.token /\ Line'.size = row.size
          BY <2>8
    <3>3. QED BY <2>5, <3>1, <3>2
  <2>10. DeskInv'
        BY <1>2, <2>7, StashesHaveTheirShape DEF DeskInv
  <2>11. TapsMeanTheirLine'
        BY <2>6, <2>9 DEF TapsMeanTheirLine
  <2>12. QED BY <1>2, <2>10, <2>11 DEF DeskInvariant
<1>7. QED BY <1>0, <1>3, <1>5, <1>6 DEF OnOrderCancel, OnPositionAction, Tap

LEMMA DeskStarts == DeskInit => DeskInvariant
<1> SUFFICES ASSUME DeskInit PROVE DeskInvariant
    OBVIOUS
<1>1. NotTapped
      BY DEF DeskInit, NotTapped, None
<1>2. behind \in [positions : 0..MaxLists, orders : 0..MaxLists]
      BY DeskAssumption DEF DeskInit
<1>3. StashesOk
      BY <1>2 DEF DeskInit, StashesOk, DeskKinds, Stash
<1>4. QED BY <1>1, <1>3, NotTappedIsFine

LEMMA DeskKeeps == DeskInvariant /\ [DeskNext]_deskVars => DeskInvariant'
<1> SUFFICES ASSUME DeskInvariant, [DeskNext]_deskVars PROVE DeskInvariant'
    OBVIOUS
<1>0. StashesOk
      BY DEF DeskInvariant
<1>1. ASSUME Looks PROVE DeskInvariant'
  <2>1. StashesOk'
        BY <1>0, <1>1 DEF Looks, stashes, StashesOk, MessageOk, Stash, ListOf
  <2>2. QED BY <1>1, <2>1, NotTappedWillBeFine DEF Looks
<1>2. ASSUME Manage \/ (\E edited \in SUBSET messages : Orders(edited)) PROVE DeskInvariant'
      BY <1>0, <1>2, ListsAreStashed, NotTappedWillBeFine
<1>3. CASE Commands
      BY <1>1, <1>2, <1>3, TilesLook, RefusalsLook, CommandsLook DEF Commands
<1>4. CASE OnInq
  <2>1. CASE Portfolio \/ Positions \/ Trades \/ ActivityLog
        BY <1>1, <2>1, ViewsLook DEF Portfolio, Positions, Trades, ActivityLog
  <2>2. CASE Balance
        BY <1>1, <2>2, ViewsLook, BalanceLooks DEF Balance
  <2>3. CASE \E m \in messages : Orders({m})
        BY <1>2, <2>3
  <2>4. QED BY <1>4, <2>1, <2>2, <2>3 DEF OnInq
<1>5. CASE OnMenu
      BY <1>1, <1>5, BalanceLooks, TilesLook DEF OnMenu, RefreshDashboard
<1>6. CASE Taps
      BY <1>6, TapsKeep DEF Taps
<1>7. CASE RenderPrice \/ RenderBook
      BY <1>1, <1>7, ViewsLook DEF RenderPrice, RenderBook
<1>8. CASE DeskRestart
  <2>1. NotTapped'
        BY <1>8 DEF DeskRestart, NotTapped, None
  <2>2. Stash("positions")' = <<>> /\ Stash("orders")' = <<>>
        BY <1>8 DEF DeskRestart, Stash
  <2>3. ASSUME NEW m \in messages PROVE MessageOk(m)'
    <3>1. MessageOk(m) /\ m.kind \in DeskKinds
          BY <1>0 DEF StashesOk, MessageOk
    <3>2. Stash(m.kind)' = <<>>
          BY <2>2, <3>1 DEF DeskKinds
    <3>3. QED BY <1>8, <3>1, <3>2 DEF DeskRestart, MessageOk, ListOf
  <2>4. StashesOk'
        BY <1>0, <1>8, <2>2, <2>3 DEF DeskRestart, StashesOk, DeskKinds
  <2>5. QED BY <2>1, <2>4, NotTappedWillBeFine
<1>9. CASE \E a \in {None, "view", "signs"} : SwitchAccount(a)
  <2>1. NotTapped'
        BY <1>9 DEF SwitchAccount, NotTapped, None
  <2>2. StashesOk'
        BY <1>0, <1>9 DEF SwitchAccount, stashes, StashesOk, MessageOk, Stash, ListOf
  <2>3. QED BY <2>1, <2>2, NotTappedWillBeFine
<1>10. CASE UNCHANGED deskVars
      BY <1>10, ZenonT(30) DEF deskVars, DeskInvariant, StashesOk, MessageOk, Stash, ListOf, DeskInv, TapsMeanTheirLine,
                   Tapped, Line, OfTheNewest
<1>11. QED BY <1>3, <1>4, <1>5, <1>6, <1>7, <1>8, <1>9, <1>10 DEF DeskNext

\* What a button of positions sells, of an old list or the newest, is a row that
\* Polymarket answered with, never more than it held, and all of it only to close
\* it (positions_ui.py, on_position_action).
THEOREM SalesAreOfPositions == DeskSpec => []DeskInv
<1>1. DeskInvariant => DeskInv
      BY DEF DeskInvariant
<1>2. QED BY <1>1, DeskStarts, DeskKeeps, PTL DEF DeskSpec

\* A button of the newest list acts on the line it stands next to, however many
\* lists, restarts and switches of account came before.
THEOREM TapsActOnTheirLine == DeskSpec => []TapsMeanTheirLine
<1>1. DeskInvariant => TapsMeanTheirLine
      BY DEF DeskInvariant
<1>2. QED BY <1>1, DeskStarts, DeskKeeps, PTL DEF DeskSpec
=============================================================================
