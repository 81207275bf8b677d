------------------------- MODULE MCUDPEntrySession -------------------------
(* Two datagrams of different size; together they exceed the byte limit.  *)
EXTENDS UDPEntrySession

CONSTANTS d1, d2

MCOne == {d1}
MCBoth == {d1, d2}
MCSize == [d \in Datagram |-> IF d = d1 THEN 1 ELSE 2]
=============================================================================
