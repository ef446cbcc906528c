--------------------------- MODULE MCNewsPublish ---------------------------
(* NewsPublish with two items and two markets.                              *)
EXTENDS NewsPublish
CONSTANTS m1, m2
MCItems == {1, 2}
MCMarkets == {m1, m2}
=============================================================================
