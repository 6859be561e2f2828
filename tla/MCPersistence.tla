--------------------------- MODULE MCPersistence ---------------------------
(* Instances of Persistence for TLC.                                        *)
EXTENDS Persistence

CONSTANTS k1, k2, f1, word

MCAlias  == [w \in {} |-> 0]
MCMinInt == -4

(* Calls whose replay is not idempotent, and one that replaces a value.     *)
Counting == {<<"INCR", 0, k1>>, <<"RPUSH", 0, k2, <<word>>>>, <<"DEL", 0, k2>>,
             <<"SET", 0, k1, word, NoOption>>, <<"HSET", 0, k2, [f \in {f1} |-> word]>>}
(* For the runs that show one thing going wrong.                            *)
OnlyIncr == {<<"INCR", 0, k1>>}
(* Calls that replace values; one sets a deadline.                          *)
Replacing == {<<"SET", 0, k1, 1, NoOption>>, <<"SET", 0, k2, 2, NoOption>>,
              <<"SET", 0, k1, 3, [NoOption EXCEPT !.ex = 1]>>, <<"DEL", 0, k2>>}
=============================================================================
