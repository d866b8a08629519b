------------------------- MODULE MCReliableChannel -------------------------
(* The instance of ReliableChannel that TLC checks. *)
EXTENDS ReliableChannel

\* One end sends until every counter has wrapped, or both send a little.
OneWayOrBoth == {<<11, 0>>, <<2, 2>>}
=============================================================================
