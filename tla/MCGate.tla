------------------------------- MODULE MCGate -------------------------------
(* One newcomer before a gate that is on or off, one member who invites.   *)
EXTENDS Access

\* bot/access_gate.py:10-11: "locked users are blocked from every handler except
\* code entry", here after the delay that the cache is allowed.
LockedAreBlocked == \A u \in Users : pastLock[u] = 0
=============================================================================
