---------------------------- MODULE MCSettlement ----------------------------
(* Settlement with three bets of two users on two markets.                  *)
EXTENDS Settlement
CONSTANTS ann, bob, b1, b2, b3, m1, m2, yes, no
MCUsers == {ann, bob}
MCBets == {b1, b2, b3}
MCOwner == [b \in MCBets |-> IF b = b3 THEN bob ELSE ann]
MCMarkets == {m1, m2}
MCMarketOf == [b \in MCBets |-> IF b = b1 THEN m1 ELSE m2]
MCToken == {yes, no}
MCTokenOf == [b \in MCBets |-> IF b = b3 THEN no ELSE yes]
=============================================================================
