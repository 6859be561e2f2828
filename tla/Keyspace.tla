------------------------------ MODULE Keyspace ------------------------------
(***************************************************************************)
(* What clients may assume of the keys of one database without deadlines:  *)
(* each key holds a value of its own, a string or a sequence, and a method *)
(* changes nothing but the value of the key it is called with.             *)
(***************************************************************************)
EXTENDS StoreOps

CONSTANTS
    Writes,   \* strings to SET
    Pushes,   \* lists of values to push
    Counts,   \* counts of the pops: <<>> or <<n>>
    Windows   \* <<start, stop>> of LTRIM and LRANGE

VARIABLE keys \* the entry under each key

Init == keys = Empty

Becomes(k, e) == keys' = [keys EXCEPT ![k] = e]

OneKey(k) ==
    \/ \E v \in Writes    : Becomes(k, Set(keys[k], 0, 0, k, v, NoOption).value)
    \/ \E vals \in Pushes : \/ Becomes(k, LPush(keys[k], 0, k, vals).value)
                            \/ Becomes(k, RPush(keys[k], 0, k, vals).value)
    \/ \E n \in Counts    : \/ Becomes(k, LPop(keys[k], 0, 0, k, n).value)
                            \/ Becomes(k, RPop(keys[k], 0, 0, k, n).value)
    \/ \E w \in Windows   : Becomes(k, LTrim(keys[k], 0, 0, k, w[1], w[2]).value)
    \/ Becomes(k, Incr(keys[k], 0, k).value)
    \/ Becomes(k, Del(keys[k], 0, k).value)

Moves(k, l) == keys' = Rename([db \in {0} |-> keys], 0, 0, k, l).data[0]

Next == (\E k \in Key : OneKey(k)) \/ (\E k, l \in Key : Moves(k, l))

Spec == Init /\ [][Next]_keys
=============================================================================
