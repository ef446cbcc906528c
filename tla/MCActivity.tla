----------------------------- MODULE MCActivity -----------------------------
(* Activity on a small instance (MCRecording.cfg): ann's first bets, on     *)
(* both surfaces, with bob as a possible inviter.                           *)
EXTENDS Activity
CONSTANTS ann, bob, t1, t2, t3
PairBettors == {ann, bob}
PairBets == {t1, t2, t3}
PairBettor == [t \in PairBets |-> ann]
PairMiniApp == {t2, t3}
MCPoints == [t \in Bets |-> IF t = t1 THEN 12 ELSE 30]
MCRates == <<10, 5, 3>>
=============================================================================
