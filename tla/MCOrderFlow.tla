----------------------------- MODULE MCOrderFlow -----------------------------
(* OrderFlow with one prompt that may be tapped again and again, one Mini   *)
(* App request and two wallets.                                             *)
EXTENDS OrderFlow
CONSTANTS i1, r1
MCIntents == {i1}
MCRequests == {r1}
MCKinds == {"limit", "cancel", "news"}
=============================================================================
