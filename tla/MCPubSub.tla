----------------------------- MODULE MCPubSub -----------------------------
(* Instances of PubSub for TLC.                                             *)
EXTENDS PubSubRefinement

CONSTANTS a, b, x, y, p, q

(* One pattern matches both channels, the other one of them.                *)
MCMatch    == {<<p, x>>, <<p, y>>, <<q, x>>}

(* Argument lists of SUBSCRIBE or PSUBSCRIBE, and of their opposites.       *)
Lists      == {<<x, y>>, <<p>>}
LeaveLists == {<<>>, <<x, y>>, <<p>>}
One        == {<<x>>}
=============================================================================
