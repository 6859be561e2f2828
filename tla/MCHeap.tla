------------------------------- MODULE MCHeap -------------------------------
(* An instance of Heap for TLC.                                             *)
EXTENDS Heap

CONSTANTS k1, k2, c1, c2

MCAlias   == [w \in {} |-> 0]
MCMinInt  == -1
MCPushes  == {<<0>>, <<1, 0>>}
MCCounts  == {<<>>, <<2>>}
MCWindows == {<<0, 0>>, <<1, -1>>}
=============================================================================
