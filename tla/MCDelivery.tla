----------------------------- MODULE MCDelivery -----------------------------
(* Delivery with a realtime and a daily user.                               *)
EXTENDS Delivery
CONSTANTS ann, bob
MCReaders == {ann, bob}
MCRelevant == [u \in MCReaders |-> IF u = ann THEN {MaxItem} ELSE 1 .. MaxItem]
MCOnlyRelevant == {bob}
MCMode == [u \in MCReaders |-> IF u = ann THEN "realtime" ELSE "daily"]
MCHour == [u \in MCReaders |-> 1]
MCQuiet == {ann}
MCQuietHours == {0}
=============================================================================
