----------------------------- MODULE MCConnect -----------------------------
(* Connecting with one key, which controls one of two addresses.           *)
EXTENDS Connect, TLC

CONSTANTS k1, eoa1, safe

MCSigner == k1 :> eoa1

\* bot/handlers/connect.py:6-8: the key is held "for the brief window between
\* normalization and the call into auth.validate_and_derive (popped right after,
\* and in every exit path via _clear_connect)"; no update leaves it behind.
KeyIsDropped == state.key = NoKey
=============================================================================
