------------------------------ MODULE MCFunnel ------------------------------
(* The funnel with two lists and a restart of the bot, without news.         *)
EXTENDS BetFunnel
CONSTANTS m1, m2
MCMarkets == {m1, m2}
MCLists == {<<m2, m1>>, <<m1>>}
MCNoOutcome == [l \in {} |-> <<m1, "yes">>]
=============================================================================
