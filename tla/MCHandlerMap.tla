---------------------------- MODULE MCHandlerMap ----------------------------
(* A small instance of HandlerMap for TLC: three processes, one of which is *)
(* MC.  The name k1 comes, goes and moves between the two others; k2 is of  *)
(* p2 only, which may so have both.                                         *)
EXTENDS HandlerMap

CONSTANTS mc, p1, p2, k1, k2

MCMayOwn == [k \in {k1, k2} |-> IF k = k1 THEN {p1, p2, Empty} ELSE {p2}]
=============================================================================
