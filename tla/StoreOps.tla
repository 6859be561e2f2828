------------------------------ MODULE StoreOps ------------------------------
(***************************************************************************)
(* The methods of store.Store (internal/core/store) as operators, and the  *)
(* replay of AOF commands (internal/persistence/aof) built on them.        *)
(*                                                                         *)
(* A single-key method maps the entry e stored under (db, k) and the time  *)
(* t to a Result: the entry it leaves, the AOF commands it appends (in     *)
(* order) and its reply.  Methods run under Store.mu, so one Result is one *)
(* critical section; the modules that use them add the interleavings.      *)
(*                                                                         *)
(* Data abstraction.  A string is an integer in Ints (the canonical        *)
(* numeral strconv.Itoa prints), or a model value in Word.  The words in   *)
(* the domain of Alias are non-canonical numerals ("+1", "01"): Atoi       *)
(* accepts them, and Itoa never prints them.                               *)
(***************************************************************************)
EXTENDS Integers, Sequences, FiniteSets, SequencesExt

CONSTANTS
    Db,       \* database indexes (16 in NewStore)
    Key,      \* keys
    Field,    \* hash fields
    Word,     \* strings that are not canonical numerals
    Alias,    \* [subset of Word -> Ints]: non-canonical numerals
    NoStr,    \* "this hash has no such field"
    MinInt,   \* the range of Go's int
    MaxInt,
    Second    \* clock units per second (1000 in the code: PX is in ms)

Ints == MinInt .. MaxInt
Str  == Ints \cup Word

ASSUME IntsAssumption   == MinInt \in Int /\ MaxInt \in Int /\ MinInt < 0 /\ 0 < MaxInt
ASSUME SecondAssumption == Second \in Nat \ {0}
ASSUME NoStrAssumption  == NoStr \notin Str
ASSUME AliasAssumption  == DOMAIN Alias \subseteq Word /\ \A w \in DOMAIN Alias : Alias[w] \in Ints

-----------------------------------------------------------------------------
(* Values (types.go).  One record shape for every type; an absent key holds *)
(* Missing, and a field a type does not use keeps the value it has there.   *)

Never    == -1                              \* ExpiresAt == nil
HashData == [Field -> Str \cup {NoStr}]     \* map[string]any
NoFields == [f \in Field |-> NoStr]

Entry == [type : {"none", "string", "list", "hash"},
          str  : Str \cup {NoStr},
          list : Seq(Str),
          hash : HashData,
          exp  : Nat \cup {Never}]
Data  == [Db -> [Key -> Entry]]

Missing           == [type |-> "none", str |-> NoStr, list |-> <<>>, hash |-> NoFields, exp |-> Never]
NewStringValue(s) == [Missing EXCEPT !.type = "string", !.str = s]
NewListValue(l)   == [Missing EXCEPT !.type = "list", !.list = l]
NewHashValue(h)   == [Missing EXCEPT !.type = "hash", !.hash = h]

Present(e)      == e.type # "none"
IsExpired(e, t) == e.exp # Never /\ t > e.exp
Live(e, t)      == Present(e) /\ ~IsExpired(e, t)
Fields(h)       == {f \in Field : h[f] # NoStr}

(* strconv.Atoi and the wrap-around of intValue++ / intValue-- .            *)
IsNumeral(s) == s \in Ints \cup DOMAIN Alias
Atoi(s)      == IF s \in DOMAIN Alias THEN Alias[s] ELSE s
UnwrappedInt(n) == n      \* mutant: integers without a width
Wrap(n)      == IF n > MaxInt THEN MinInt ELSE IF n < MinInt THEN MaxInt ELSE n

Result(e, log, reply) == [value |-> e, log |-> log, reply |-> reply]
ErrWrongType  == <<"err", "WRONGTYPE">>
ErrNotInteger == <<"err", "not an integer">>
ErrNoSuchKey  == <<"err", "no such key">>
ErrSyntax     == <<"err", "syntax">>
ErrRange      == <<"err", "out of range">>
Nil           == <<"nil">>
Ok            == <<"ok">>
Num(n)        == <<"int", n>>

-----------------------------------------------------------------------------
(* Strings and expiry.                                                      *)

(* o is the SetOptions record: flags nx, xx and the integers ex, px, 0 when *)
(* not given.  parseSetOptions refuses NX with XX.  EX wins over PX, and a  *)
(* non-positive EX or PX is ignored.  The PX deadline is logged in whole    *)
(* seconds.                                                                 *)
Options  == [nx : BOOLEAN, xx : BOOLEAN, ex : Int, px : Int]
NoOption == [nx |-> FALSE, xx |-> FALSE, ex |-> 0, px |-> 0]

(* Mutants: the NX check is lost; the deadline is logged before the value.  *)
SetIgnoresNX(e, t, db, k, v, o) ==
    LET log == <<<<"SET", db, k, v>>>>
    IN  IF o.ex > 0
        THEN Result([NewStringValue(v) EXCEPT !.exp = t + o.ex * Second],
                    Append(log, <<"EXPIRE", db, k, o.ex>>), Ok)
        ELSE Result(NewStringValue(v), log, Ok)
SetLogsDeadlineFirst(e, t, db, k, v, o) ==
    IF o.ex > 0
    THEN Result([NewStringValue(v) EXCEPT !.exp = t + o.ex * Second],
                <<<<"EXPIRE", db, k, o.ex>>, <<"SET", db, k, v>>>>, Ok)
    ELSE Result(NewStringValue(v), <<<<"SET", db, k, v>>>>, Ok)

Set(e, t, db, k, v, o) ==
    IF o.nx /\ o.xx THEN Result(e, <<>>, ErrSyntax)
    ELSE IF (o.nx /\ Live(e, t)) \/ (o.xx /\ ~Live(e, t)) THEN Result(e, <<>>, Nil)
    ELSE IF o.ex > 0
         THEN Result([NewStringValue(v) EXCEPT !.exp = t + o.ex * Second],
                     <<<<"SET", db, k, v>>, <<"EXPIRE", db, k, o.ex>>>>, Ok)
    ELSE IF o.px > 0
         THEN Result([NewStringValue(v) EXCEPT !.exp = t + o.px],
                     <<<<"SET", db, k, v>>, <<"EXPIRE", db, k, o.px \div Second>>>>, Ok)
    ELSE Result(NewStringValue(v), <<<<"SET", db, k, v>>>>, Ok)

Get(e, t)    == IF Live(e, t) THEN e ELSE Missing
Exists(e, t) == Live(e, t)

Del(e, db, k) == Result(Missing, <<<<"DEL", db, k>>>>, Ok)

(* Expire tests presence, not expiry; secs comes from EXPIRE in seconds.    *)
Expire(e, t, db, k, secs) ==
    IF Present(e)
    THEN Result([e EXCEPT !.exp = t + secs * Second], <<<<"EXPIRE", db, k, secs>>>>, Num(1))
    ELSE Result(e, <<>>, Num(0))

(* int(time.Until(..).Seconds()) truncates toward zero.                     *)
TTL(e, t) == IF ~Present(e) THEN -2
             ELSE IF e.exp = Never THEN -1
             ELSE IF e.exp >= t THEN (e.exp - t) \div Second
             ELSE -((t - e.exp) \div Second)

(* Incr and Decr never look at the expiry and keep it.                      *)
(* Mutant: the counter is stored as a new value, without its deadline.      *)
AddIntDropsDeadline(e, db, k, delta, name) ==
    LET cur == IF Present(e) THEN e ELSE NewStringValue(0)
    IN  IF cur.type # "string" \/ ~IsNumeral(cur.str)
        THEN Result(e, <<>>, ErrNotInteger)
        ELSE Result(NewStringValue(Wrap(Atoi(cur.str) + delta)), <<<<name, db, k>>>>, Ok)

AddInt(e, db, k, delta, name) ==
    LET cur == IF Present(e) THEN e ELSE NewStringValue(0)
        n   == Wrap(Atoi(cur.str) + delta)
    IN  IF cur.type # "string" \/ ~IsNumeral(cur.str)
        THEN Result(e, <<>>, ErrNotInteger)
        ELSE Result([cur EXCEPT !.str = n], <<<<name, db, k>>>>, Num(n))
Incr(e, db, k) == AddInt(e, db, k, 1, "INCR")
Decr(e, db, k) == AddInt(e, db, k, -1, "DECR")

-----------------------------------------------------------------------------
(* Lists.  The pushes do not look at the expiry either; a pop leaves the    *)
(* key behind with an empty list.                                           *)

(* Mutant: the values are logged in the order they end up in the list.      *)
LPushLogsStored(e, db, k, vals) ==
    IF Present(e) /\ e.type # "list" THEN Result(e, <<>>, ErrWrongType)
    ELSE Result([e EXCEPT !.type = "list", !.list = Reverse(vals) \o e.list],
                <<<<"LPUSH", db, k, Reverse(vals)>>>>, Ok)

LPush(e, db, k, vals) ==
    IF Present(e) /\ e.type # "list" THEN Result(e, <<>>, ErrWrongType)
    ELSE LET list == Reverse(vals) \o e.list
         IN  Result([e EXCEPT !.type = "list", !.list = list],
                    <<<<"LPUSH", db, k, vals>>>>, Num(Len(list)))

RPush(e, db, k, vals) ==
    IF Present(e) /\ e.type # "list" THEN Result(e, <<>>, ErrWrongType)
    ELSE LET list == e.list \o vals
         IN  Result([e EXCEPT !.type = "list", !.list = list],
                    <<<<"RPUSH", db, k, vals>>>>, Num(Len(list)))

(* count is <<>> when the caller gives none (pcount == nil), else <<n>>.    *)
Count(count, len) ==
    LET n == IF count = <<>> THEN 1 ELSE count[1]
    IN  IF n > len THEN len ELSE n
Popped(count, taken) == IF count = <<>> THEN <<"str", taken[1]>> ELSE <<"list", taken>>

PopRefused(e, t, count) == ~Live(e, t) \/ (count # <<>> /\ count[1] < 0) \/ e.type # "list" \/ e.list = <<>>
PopRefusal(e, t, count) ==
    IF ~Live(e, t) THEN Nil
    ELSE IF count # <<>> /\ count[1] < 0 THEN ErrRange
    ELSE IF e.type # "list" THEN ErrWrongType
    ELSE Nil

LPop(e, t, db, k, count) ==
    LET n == Count(count, Len(e.list))
    IN  IF PopRefused(e, t, count) THEN Result(e, <<>>, PopRefusal(e, t, count))
        ELSE Result([e EXCEPT !.list = SubSeq(e.list, n + 1, Len(e.list))],
                    <<<<"LPOP", db, k, n>>>>, Popped(count, SubSeq(e.list, 1, n)))

RPop(e, t, db, k, count) ==
    LET n    == Count(count, Len(e.list))
        rest == Len(e.list) - n
    IN  IF PopRefused(e, t, count) THEN Result(e, <<>>, PopRefusal(e, t, count))
        ELSE Result([e EXCEPT !.list = SubSeq(e.list, 1, rest)],
                    <<<<"RPOP", db, k, n>>>>, Popped(count, SubSeq(e.list, rest + 1, Len(e.list))))

(* The index normalisation LRange and LTrim share, 0-based and inclusive.   *)
Lo(start, len) == LET s == IF start < 0 THEN len + start ELSE start
                  IN  IF s < 0 THEN 0 ELSE s
Hi(stop, len)  == LET p == IF stop < 0 THEN len + stop ELSE stop
                  IN  IF p >= len THEN len - 1 ELSE p

LRange(e, t, start, stop) ==
    LET len == Len(e.list)
        lo  == Lo(start, len)
        hi  == Hi(stop, len)
    IN  IF ~Live(e, t) THEN Nil
        ELSE IF e.type # "list" THEN ErrWrongType
        ELSE IF lo > hi \/ lo >= len \/ hi < 0 THEN <<"list", <<>>>>
        ELSE <<"list", SubSeq(e.list, lo + 1, hi + 1)>>

(* A wrong type is silently accepted; an empty window deletes the key and   *)
(* logs DEL; otherwise the normalised window is logged.                     *)
LTrim(e, t, db, k, start, stop) ==
    LET len == Len(e.list)
        lo  == Lo(start, len)
        hi  == Hi(stop, len)
    IN  IF ~Live(e, t) \/ e.type # "list" THEN Result(e, <<>>, Ok)
        ELSE IF lo > hi \/ lo >= len THEN Result(Missing, <<<<"DEL", db, k>>>>, Ok)
        ELSE Result([e EXCEPT !.list = SubSeq(e.list, lo + 1, hi + 1)],
                    <<<<"LTRIM", db, k, lo, hi>>>>, Ok)

-----------------------------------------------------------------------------
(* Hashes (hash.go).  fv maps the given fields to their values, fs is the   *)
(* set of fields given to HDEL; command validation makes both non-empty.    *)
(* flattenHashFieldPairs only orders the pairs in the logged command.       *)

HSet(e, t, db, k, fv) ==
    LET old == IF Live(e, t) THEN e ELSE NewHashValue(NoFields)
    IN  IF old.type # "hash" THEN Result(e, <<>>, ErrWrongType)
        ELSE Result([old EXCEPT !.hash = [f \in Field |-> IF fv[f] # NoStr THEN fv[f] ELSE old.hash[f]]],
                    <<<<"HSET", db, k, fv>>>>,
                    Num(Cardinality(Fields(fv) \ Fields(old.hash))))

(* Mutant: the hash stays when its last field goes.                         *)
HDelKeepsHash(e, t, db, k, fs) ==
    LET left == [f \in Field |-> IF f \in fs THEN NoStr ELSE e.hash[f]]
    IN  IF ~Live(e, t) \/ e.type # "hash" THEN Result(e, <<>>, ErrWrongType)
        ELSE Result([e EXCEPT !.hash = left], <<<<"HDEL", db, k, fs>>>>, Ok)

(* Mutant: the reply counts the fields asked for.                           *)
HDelCountsArgs(e, t, db, k, fs) ==
    LET left == [f \in Field |-> IF f \in fs THEN NoStr ELSE e.hash[f]]
    IN  IF ~Live(e, t) \/ e.type # "hash" THEN Result(e, <<>>, ErrWrongType)
        ELSE Result(IF left = NoFields THEN Missing ELSE [e EXCEPT !.hash = left],
                    <<<<"HDEL", db, k, fs>>>>, Num(Cardinality(fs)))

(* An expired key is deleted here without an AOF command.                   *)
HDel(e, t, db, k, fs) ==
    LET gone == fs \cap Fields(e.hash)
        left == [f \in Field |-> IF f \in fs THEN NoStr ELSE e.hash[f]]
    IN  IF ~Present(e) THEN Result(e, <<>>, Num(0))
        ELSE IF IsExpired(e, t) THEN Result(Missing, <<>>, Num(0))
        ELSE IF e.type # "hash" THEN Result(e, <<>>, ErrWrongType)
        ELSE Result(IF left = NoFields THEN Missing ELSE [e EXCEPT !.hash = left],
                    IF gone = {} THEN <<>> ELSE <<<<"HDEL", db, k, fs>>>>,
                    Num(Cardinality(gone)))

(* HGET, HEXISTS, HMGET, HLEN, HGETALL, HKEYS and HVALS all read this map.  *)
HGetAll(e, t) ==
    IF ~Live(e, t) THEN <<"hash", NoFields>>
    ELSE IF e.type # "hash" THEN ErrWrongType
    ELSE <<"hash", e.hash>>

-----------------------------------------------------------------------------
(* Whole databases.  A method of the store maps its data d to an Outcome.   *)

Outcome(d, log, reply) == [data |-> d, log |-> log, reply |-> reply]
Put(d, db, k, e)       == [d EXCEPT ![db][k] = e]
At(d, db, k, r)        == Outcome(Put(d, db, k, r.value), r.log, r.reply)
Empty                  == [k \in Key |-> Missing]

(* Mutant: the source stays.                                                *)
RenameKeepsSource(d, t, db, old, new) ==
    IF Live(d[db][old], t) THEN Outcome([d EXCEPT ![db][new] = d[db][old]], <<<<"RENAME", db, old, new>>>>, Ok)
    ELSE Outcome(d, <<>>, ErrNoSuchKey)

(* The destination is written before the source is deleted, so that         *)
(* renaming a key to itself deletes it.  An expired source is left alone.   *)
Rename(d, t, db, old, new) ==
    LET e == d[db][old]
    IN  IF ~Present(e) THEN Outcome(d, <<>>, ErrNoSuchKey)
        ELSE IF IsExpired(e, t) THEN Outcome(d, <<>>, Ok)
        ELSE Outcome([d EXCEPT ![db] = [[@ EXCEPT ![new] = e] EXCEPT ![old] = Missing]],
                     <<<<"RENAME", db, old, new>>>>, Ok)

FlushDb(d, db) == Outcome([d EXCEPT ![db] = Empty], <<<<"FLUSHDB", db>>>>, Ok)
FlushAll(d)    == Outcome([db \in Db |-> Empty], <<<<"FLUSHALL">>>>, Ok)

-----------------------------------------------------------------------------
(* Replay (aof.go, aof_internal.go).  An AOFCommand is a tuple: its name,   *)
(* the database index, the key and the arguments.  dispatchAOF calls the    *)
(* same store methods, which append to the AOF in turn.                     *)

dispatchAOF(c, d, t) ==
    LET e == d[c[2]][c[3]]
    IN  CASE c[1] = "SET"      -> At(d, c[2], c[3], Set(e, t, c[2], c[3], c[4], NoOption))
          [] c[1] = "DEL"      -> At(d, c[2], c[3], Del(e, c[2], c[3]))
          [] c[1] = "SETNX"    -> IF Exists(e, t) THEN Outcome(d, <<>>, Num(0))
                                  ELSE At(d, c[2], c[3], Set(e, t, c[2], c[3], c[4], NoOption))
          [] c[1] = "EXPIRE"   -> At(d, c[2], c[3], Expire(e, t, c[2], c[3], c[4]))
          [] c[1] = "INCR"     -> At(d, c[2], c[3], Incr(e, c[2], c[3]))
          [] c[1] = "DECR"     -> At(d, c[2], c[3], Decr(e, c[2], c[3]))
          [] c[1] = "LPUSH"    -> At(d, c[2], c[3], LPush(e, c[2], c[3], c[4]))
          [] c[1] = "RPUSH"    -> At(d, c[2], c[3], RPush(e, c[2], c[3], c[4]))
          [] c[1] = "LPOP"     -> At(d, c[2], c[3], LPop(e, t, c[2], c[3], <<c[4]>>))
          [] c[1] = "RPOP"     -> At(d, c[2], c[3], RPop(e, t, c[2], c[3], <<c[4]>>))
          [] c[1] = "LTRIM"    -> At(d, c[2], c[3], LTrim(e, t, c[2], c[3], c[4], c[5]))
          [] c[1] = "HSET"     -> At(d, c[2], c[3], HSet(e, t, c[2], c[3], c[4]))
          [] c[1] = "HDEL"     -> At(d, c[2], c[3], HDel(e, t, c[2], c[3], c[4]))
          [] c[1] = "RENAME"   -> Rename(d, t, c[2], c[3], c[4])
          [] c[1] = "FLUSHDB"  -> FlushDb(d, c[2])
          [] c[1] = "FLUSHALL" -> FlushAll(d)

(* The effect of what one method logged; no method logs more than two       *)
(* commands.                                                                *)
ReplayLog(log, d, t) ==
    CASE Len(log) = 0 -> d
      [] Len(log) = 1 -> dispatchAOF(log[1], d, t).data
      [] OTHER        -> dispatchAOF(log[2], dispatchAOF(log[1], d, t).data, t).data
=============================================================================
