----------------------------- MODULE MCSession -----------------------------
(* Instances of Session for TLC.                                            *)
EXTENDS Session

CONSTANTS a, b, v, w

SELECT(i)   == [op |-> "SELECT", arg |-> i]
SET(x, ttl) == [op |-> "SET", arg |-> x, ttl |-> ttl]
Plain(op)   == [op |-> op]

(* Two databases, a valid and an invalid index, values that expire or not.  *)
MCCommands  == {SELECT(1), SELECT(2), SET(v, 0), SET(w, 1), Plain("GET"), Plain("DEL"), Plain("CONN")}
(* A value that expires, and one that replaces it.                          *)
LazyCommands == {SET(v, 1), SET(w, 0), Plain("GET")}
=============================================================================
