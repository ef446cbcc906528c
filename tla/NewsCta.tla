------------------------------ MODULE NewsCta ------------------------------
(***************************************************************************)
(* Which bets a news item offers (bot/news/cta.py, called by render.py and *)
(* by jobs.py crawl_job): Gamma's events are matched with the headline by  *)
(* shared words, a language model may choose among the best or refuse them *)
(* all, and the outcomes of the chosen event are stored with the item.     *)
(* Links posted later carry the item and the index of an outcome only.     *)
(* A text is the set of its significant words.                             *)
(***************************************************************************)
EXTENDS Integers, Sequences, FiniteSets

CONSTANTS
    Headlines,      \* sets of words
    Pools,          \* lists of events Gamma may answer
    Hints,          \* markets an item may be tied to when it is created
    NoHint,
    LlmCandidates, MinTokenOverlap, OutcomesCap,
    MaxMoves        \* bound: changes at Gamma

NoPrice == -1
Events == UNION {{pool[k] : k \in DOMAIN pool} : pool \in Pools}

ASSUME NewsCtaAssumption ==
    /\ \A h \in Headlines : IsFiniteSet(h)
    /\ Pools \subseteq Seq(Events)
    /\ \A e \in Events :
          /\ e.markets \in Seq({e.markets[i] : i \in DOMAIN e.markets})
          /\ \A i \in DOMAIN e.markets : e.markets[i].yes \in Nat \cup {NoPrice}
    /\ LlmCandidates \in Nat \ {0} /\ MinTokenOverlap \in Nat \ {0}
    /\ OutcomesCap \in Nat \ {0, 1} /\ MaxMoves \in Nat

VARIABLES
    search, trending,   \* what Gamma answers now
    item,               \* its headline, hint, whether it is approved
    cta,                \* cta_outcomes, empty until cta_resolved_at is set
    origin,             \* history: the event they were built from
    posted,             \* the buttons under the channel post
    moves

gammaVars == <<search, trending, moves>>
ctaVars == <<gammaVars, item, cta, origin, posted>>

NoEvent == [title |-> {}, markets |-> <<>>]

CtaInit ==
    /\ search \in Pools /\ trending \in Pools /\ moves = 0
    /\ item \in [headline : Headlines, hint : Hints \cup {NoHint}, approved : {FALSE}]
    /\ cta = <<>> /\ origin = NoEvent /\ posted = <<>>

-----------------------------------------------------------------------------
(* Relevance.                                                               *)

\* _candidate_name_tokens
Names(e) == UNION {e.markets[i].label : i \in DOMAIN e.markets}

Shared(h, e) == UNION {h \cap e.markets[i].question : i \in DOMAIN e.markets}

\* Mutant: a name alone is a match.
CollidesMutant(h, e) == FALSE

\* The headline shares nothing with the event but the names of candidates.
Collides(h, e) == h \cap e.title = {} /\ Shared(h, e) \subseteq Names(e)

\* _event_relevance
Relevance(h, e) ==
    LET texts == {e.title} \cup {e.markets[i].question : i \in DOMAIN e.markets}
        best == CHOOSE n \in 0 .. Cardinality(h) :
                   /\ \E t \in texts : Cardinality(h \cap t) = n
                   /\ \A t \in texts : Cardinality(h \cap t) <= n
    IN IF Collides(h, e) THEN 0 ELSE best

Matching(h, pool) == {i \in DOMAIN pool : Relevance(h, pool[i]) >= MinTokenOverlap}

\* The shortlist of resolve_cta: the best of them, the first found among equals.
Shortlist(h, pool) ==
    LET rank(i) == Relevance(h, pool[i])
        before(i) == {j \in Matching(h, pool) : rank(j) > rank(i) \/ (rank(j) = rank(i) /\ j < i)}
    IN {pool[i] : i \in {j \in Matching(h, pool) : Cardinality(before(j)) < LlmCandidates}}

-----------------------------------------------------------------------------
(* _build_outcomes                                                          *)

Live(e) == {i \in DOMAIN e.markets : e.markets[i].open}

Bet(m, side) == [market |-> m.id, side |-> side]

\* Mutant: a market Gamma repeats is offered twice.
OnceMutant(e, S) == S

\* "Gamma can repeat a sub-market; one button per market."
Once(e, S) == {i \in S : \A j \in S : e.markets[j].id = e.markets[i].id => i <= j}

\* By probability; no price counts as 0, equal ones stay in order.
ByPrice(e, S) ==
    LET price(i) == IF e.markets[i].yes = NoPrice THEN 0 ELSE e.markets[i].yes
        before(i) == {j \in S : price(j) > price(i) \/ (price(j) = price(i) /\ j < i)}
    IN [k \in 1 .. Cardinality(S) |-> CHOOSE i \in S : Cardinality(before(i)) = k - 1]

\* The leaders of several choices, or Yes and No of the most probable market.
BuildOutcomes(e) ==
    LET choices == ByPrice(e, Once(e, {i \in Live(e) : e.markets[i].label # {} /\ e.markets[i].yes # NoPrice}))
        best == e.markets[ByPrice(e, Live(e))[1]]
    IN IF Len(choices) >= 2
       THEN [k \in 1 .. (IF Len(choices) < OutcomesCap THEN Len(choices) ELSE OutcomesCap) |->
                Bet(e.markets[choices[k]], "yes")]
       ELSE IF Live(e) = {} THEN <<>> ELSE <<Bet(best, "yes"), Bet(best, "no")>>

-----------------------------------------------------------------------------
(* The item.                                                                *)

\* trending_matches and approve_ids, in the cycle that created the item; nothing
\* when Gamma fails.
AutoApprove ==
    /\ ~item.approved /\ Matching(item.headline, trending) # {}
    /\ item' = [item EXCEPT !.approved = TRUE]
    /\ UNCHANGED <<gammaVars, cta, origin, posted>>

Approve ==
    /\ ~item.approved /\ item' = [item EXCEPT !.approved = TRUE]
    /\ UNCHANGED <<gammaVars, cta, origin, posted>>

\* Mutant: each rendering resolves the bets again.
UnresolvedMutant == TRUE

\* "Resolve the bet CTA ONCE and keep it stable."
Unresolved == cta = <<>>

\* What resolve_cta finds: the outcomes, and where they come from.  The judge is
\* sure of one of the shortlist, finds none of them fit, or cannot be asked, and
\* then it is the first.
Found == {NoEvent} \cup Shortlist(item.headline, search \o trending)

Hinted == <<[market |-> item.hint, side |-> "yes"], [market |-> item.hint, side |-> "no"]>>

\* render_item of an approved item, for the first time or again; when Gamma
\* fails, nothing is resolved.
Render ==
    /\ item.approved
    /\ IF ~Unresolved THEN UNCHANGED <<cta, origin>>
       ELSE \/ item.hint # NoHint /\ cta' = Hinted /\ UNCHANGED origin
            \/ item.hint # NoHint /\ UNCHANGED <<cta, origin>>
            \/ /\ item.hint = NoHint
               /\ \E e \in Found :
                     IF BuildOutcomes(e) = <<>> THEN UNCHANGED <<cta, origin>>
                     ELSE cta' = BuildOutcomes(e) /\ origin' = e
    /\ UNCHANGED <<gammaVars, item, posted>>

\* post_item_to_channel: a button for each outcome, linked by its index.
Post ==
    /\ cta # <<>> /\ posted = <<>> /\ posted' = cta
    /\ UNCHANGED <<gammaVars, item, cta, origin>>

\* Prices move, markets close, other events are in fashion.
GammaMoves ==
    /\ moves < MaxMoves /\ moves' = moves + 1
    /\ search' \in Pools /\ trending' \in Pools
    /\ UNCHANGED <<item, cta, origin, posted>>

CtaNext == AutoApprove \/ Approve \/ Render \/ Post \/ GammaMoves

CtaSpec == CtaInit /\ [][CtaNext]_ctaVars

-----------------------------------------------------------------------------

\* No two buttons of an item place the same bet, there are never more than the
\* cap, and every link posted, followed at any later time, means the outcome its
\* button showed: the n-th link resolves to what is then stored in place n.
CtaInv ==
    /\ Len(cta) <= OutcomesCap /\ Len(cta) # 1
    /\ \A j, k \in DOMAIN cta : cta[j] = cta[k] => j = k
    /\ posted # <<>> => posted = cta

\* "A headline overlapping an event solely on [a candidate's name] is an entity
\* collision": the event an item's bets come from shares two words with it in one
\* text, at least one word of all it shares being no name or in the event's title.
BetsAreAboutTheStory ==
    origin # NoEvent =>
        /\ \E t \in {origin.title} \cup {origin.markets[i].question : i \in DOMAIN origin.markets} :
              Cardinality(item.headline \cap t) >= MinTokenOverlap
        /\ \E w \in item.headline :
              \/ w \in origin.title
              \/ \E i \in DOMAIN origin.markets :
                    /\ w \in origin.markets[i].question
                    /\ \A j \in DOMAIN origin.markets : w \notin origin.markets[j].label
=============================================================================
