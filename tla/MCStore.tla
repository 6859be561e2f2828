------------------------------ MODULE MCStore ------------------------------
(* Instances of Store for TLC: argument sets shared by the configurations.  *)
EXTENDS Store

CONSTANTS k1, k2, f1, f2, word, plusOne, c1, c2

MCKey        == {k1, k2}
MCOneKey     == {k1}
MCField      == {f1, f2}
MCAlias      == [w \in {plusOne} |-> 1]
MCMinInt     == -2
MCClient     == {c1, c2}
MCOneDb      == {0}
MCTwoDbs     == {0, 1}

AllOps == {"SET", "SETNX", "DEL", "EXPIRE", "INCR", "DECR", "LPUSH", "RPUSH", "LPOP", "RPOP",
           "LTRIM", "HSET", "HDEL", "RENAME", "FLUSHDB", "FLUSHALL"}

(* Without expiry every operation is used.                                  *)
UntimedOps == AllOps \ {"EXPIRE"}
(* With expiry, HDel is left out of the run that asks for exact agreement.  *)
TimedOps   == AllOps \ {"HDEL", "DECR", "FLUSHDB", "FLUSHALL", "RPUSH", "RPOP", "SETNX"}

MCWrites   == {1, plusOne, word}
MCOneWrite == {1}
MCPushes   == {<<1>>, <<word, 1>>}
MCTimedPushes == {<<word, 1>>}
MCCounts   == {<<>>, <<0>>, <<2>>, <<-1>>}
MCTimedCounts == {<<>>}
MCWindows  == {<<0, -2>>, <<1, 5>>, <<-9, 0>>, <<2, 1>>}
MCTimedWindows == {<<1, 5>>, <<2, 1>>}

Fld(a, b)   == [f \in {f1, f2} |-> IF f = f1 THEN a ELSE b]
MCFieldMaps == {Fld(1, NoStr), Fld(word, 1), Fld(NoStr, 1)}
MCFieldSets == {{f1}, {f1, f2}}

Opt(nx, xx, ex, px) == [nx |-> nx, xx |-> xx, ex |-> ex, px |-> px]
UntimedOptions == {NoOption, Opt(TRUE, FALSE, 0, 0), Opt(FALSE, TRUE, 0, 0), Opt(TRUE, TRUE, 0, 0)}
TimedOptions   == {NoOption, Opt(FALSE, FALSE, 1, 0), Opt(FALSE, FALSE, 0, 2), Opt(TRUE, FALSE, -1, 0), Opt(TRUE, FALSE, 0, 2)}
=============================================================================
