--------------------------- MODULE StoreOpsProofs ---------------------------
(* Lemmas about the operators of StoreOps: what each method leaves, that   *)
(* the commands it logs redo it, and what its results keep.                *)
EXTENDS StoreOps, TLAPS

-----------------------------------------------------------------------------
(* Types.  Each single-key method leaves an entry.                          *)

(* Zero is an integer, every integer a string.                              *)
LEMMA IntsFacts == 0 \in Ints /\ Ints \subseteq Str /\ Ints \subseteq Int
BY IntsAssumption DEF Ints, Str

(* An absent key holds an entry.                                            *)
LEMMA MissingType == Missing \in Entry
BY DEF Missing, Entry, Never, NoFields, HashData

(* The constructors of types.go make entries.                               *)
LEMMA NewValueType ==
    /\ \A s \in Str : NewStringValue(s) \in Entry
    /\ \A h \in HashData : NewHashValue(h) \in Entry
BY MissingType DEF NewStringValue, NewHashValue, Missing, Entry

(* Set leaves an entry: its deadline is a natural number.                   *)
LEMMA SetType ==
    ASSUME NEW e \in Entry, NEW t \in Nat, NEW db, NEW k, NEW v \in Str, NEW o \in Options
    PROVE  Set(e, t, db, k, v, o).value \in Entry
<1>1. NewStringValue(v) \in Entry
  BY NewValueType
<1>2. ASSUME NEW x \in Nat PROVE [NewStringValue(v) EXCEPT !.exp = t + x] \in Entry
  BY <1>1 DEF Entry
<1>3. o.ex > 0 => o.ex * Second \in Nat
  BY SecondAssumption DEF Options
<1>4. o.px > 0 => o.px \in Nat
  BY DEF Options
<1> QED
  BY <1>1, <1>2, <1>3, <1>4 DEF Set, Result

(* Expire leaves an entry.                                                  *)
LEMMA ExpireType ==
    ASSUME NEW e \in Entry, NEW t \in Nat, NEW db, NEW k, NEW secs \in Nat
    PROVE  Expire(e, t, db, k, secs).value \in Entry
<1>1. t + secs * Second \in Nat
  BY SecondAssumption
<1> QED
  BY <1>1 DEF Expire, Result, Entry

(* intValue++ and intValue-- stay within an int.                            *)
LEMMA WrapType == ASSUME NEW n \in Int PROVE Wrap(n) \in Ints
BY IntsAssumption DEF Wrap, Ints

(* Atoi of a numeral is an integer.                                         *)
LEMMA AtoiType == ASSUME NEW s, IsNumeral(s) PROVE Atoi(s) \in Int
BY AliasAssumption, IntsFacts DEF IsNumeral, Atoi

(* Incr and Decr leave an entry, whose string is an int.                    *)
LEMMA AddIntType ==
    ASSUME NEW e \in Entry, NEW db, NEW k, NEW delta \in Int, NEW name
    PROVE  AddInt(e, db, k, delta, name).value \in Entry
<1> DEFINE cur == IF Present(e) THEN e ELSE NewStringValue(0)
           n   == Wrap(Atoi(cur.str) + delta)
<1>1. cur \in Entry
  BY NewValueType, IntsFacts
<1>2. ASSUME IsNumeral(cur.str) PROVE n \in Str
  <2> HIDE DEF cur
  <2>1. Atoi(cur.str) + delta \in Int
    BY <1>2, AtoiType
  <2> QED
    BY <2>1, WrapType, IntsFacts
<1>3. IsNumeral(cur.str) => [cur EXCEPT !.str = n] \in Entry
  BY <1>1, <1>2 DEF Entry
<1> QED
  BY <1>3 DEF AddInt, Result

(* The pushes leave an entry.                                               *)
LEMMA PushType ==
    ASSUME NEW e \in Entry, NEW db, NEW k, NEW vals \in Seq(Str)
    PROVE  /\ LPush(e, db, k, vals).value \in Entry
           /\ RPush(e, db, k, vals).value \in Entry
<1>1. Reverse(vals) \in Seq(Str)
  BY DEF Reverse
<1>2. e.list \in Seq(Str)
  BY DEF Entry
<1>3. Reverse(vals) \o e.list \in Seq(Str) /\ e.list \o vals \in Seq(Str)
  BY <1>1, <1>2
<1>4. ASSUME NEW l \in Seq(Str) PROVE [e EXCEPT !.type = "list", !.list = l] \in Entry
  BY DEF Entry
<1> QED
  BY <1>3, <1>4 DEF LPush, RPush, Result

(* An entry cut down to a part of its list is an entry.                     *)
LEMMA SubListType ==
    ASSUME NEW e \in Entry, NEW i \in Int, NEW j \in Int, 1 <= i, j <= Len(e.list)
    PROVE  [e EXCEPT !.list = SubSeq(e.list, i, j)] \in Entry
<1>1. e.list \in Seq(Str)
  BY DEF Entry
<1>2. SubSeq(e.list, i, j) \in Seq(Str)
  BY <1>1
<1> QED
  BY <1>2 DEF Entry

(* The count argument after validation: none, or one integer.               *)
CountArg == {count \in Seq(Int) : Len(count) <= 1}

(* A pop that is not refused takes between none and all elements.           *)
LEMMA CountRange ==
    ASSUME NEW e \in Entry, NEW t \in Nat, NEW count \in CountArg, ~PopRefused(e, t, count)
    PROVE  Count(count, Len(e.list)) \in 0 .. Len(e.list)
<1>1. e.list \in Seq(Str) /\ Len(e.list) \in Nat
  BY DEF Entry
<1>2. Len(e.list) # 0
  BY <1>1 DEF PopRefused
<1>3. count = <<>> \/ (count[1] \in Int /\ 0 <= count[1])
  BY DEF CountArg, PopRefused
<1> QED
  BY <1>1, <1>2, <1>3 DEF Count

(* The pops leave an entry.                                                 *)
LEMMA PopType ==
    ASSUME NEW e \in Entry, NEW t \in Nat, NEW db, NEW k, NEW count \in CountArg
    PROVE  /\ LPop(e, t, db, k, count).value \in Entry
           /\ RPop(e, t, db, k, count).value \in Entry
<1>1. CASE PopRefused(e, t, count)
  BY <1>1 DEF LPop, RPop, Result
<1>2. CASE ~PopRefused(e, t, count)
  <2> DEFINE n == Count(count, Len(e.list))
  <2>1. Len(e.list) \in Nat
    BY DEF Entry
  <2>2. n \in 0 .. Len(e.list)
    BY <1>2, CountRange
  <2> HIDE DEF n
  <2>a. n + 1 \in Int /\ 1 <= n + 1 /\ Len(e.list) \in Int /\ Len(e.list) <= Len(e.list)
    BY <2>1, <2>2
  <2>b. 1 \in Int /\ 1 <= 1 /\ Len(e.list) - n \in Int /\ Len(e.list) - n <= Len(e.list)
    BY <2>1, <2>2
  <2>3. [e EXCEPT !.list = SubSeq(e.list, n + 1, Len(e.list))] \in Entry
    BY ONLY <2>a, SubListType, e \in Entry
  <2>4. [e EXCEPT !.list = SubSeq(e.list, 1, Len(e.list) - n)] \in Entry
    BY ONLY <2>b, SubListType, e \in Entry
  <2> QED
    BY <1>2, <2>3, <2>4 DEF LPop, RPop, Result, n
<1> QED
  BY <1>1, <1>2

(* Normalised indexes are inside the list, and normalise to themselves.     *)
LEMMA WindowRange ==
    ASSUME NEW len \in Nat, NEW start \in Int, NEW stop \in Int
    PROVE  /\ Lo(start, len) \in Nat /\ Hi(stop, len) \in Int
           /\ Hi(stop, len) < len
           /\ Lo(Lo(start, len), len) = Lo(start, len)
           /\ Hi(stop, len) >= 0 => Hi(Hi(stop, len), len) = Hi(stop, len)
BY DEF Lo, Hi

(* LTrim leaves an entry.                                                   *)
LEMMA LTrimType ==
    ASSUME NEW e \in Entry, NEW t \in Nat, NEW db, NEW k, NEW start \in Int, NEW stop \in Int
    PROVE  LTrim(e, t, db, k, start, stop).value \in Entry
<1> DEFINE len == Len(e.list)
           lo  == Lo(start, len)
           hi  == Hi(stop, len)
<1>1. len \in Nat
  BY DEF Entry
<1>2. lo \in Nat /\ hi \in Int /\ hi < len
  BY <1>1, WindowRange
<1>a. lo + 1 \in Int /\ hi + 1 \in Int /\ 1 <= lo + 1 /\ hi + 1 <= len
  BY <1>1, <1>2
<1>3. [e EXCEPT !.list = SubSeq(e.list, lo + 1, hi + 1)] \in Entry
  <2> HIDE DEF lo, hi
  <2> QED
    BY <1>a, SubListType
<1> QED
  BY <1>3, MissingType DEF LTrim, Result

(* HSet and HDel leave an entry.                                            *)
LEMMA HashType ==
    ASSUME NEW e \in Entry, NEW t \in Nat, NEW db, NEW k, NEW fv \in HashData, NEW fs \in SUBSET Field
    PROVE  /\ HSet(e, t, db, k, fv).value \in Entry
           /\ HDel(e, t, db, k, fs).value \in Entry
<1>1. ASSUME NEW x \in Entry, NEW h \in HashData PROVE [x EXCEPT !.hash = h] \in Entry
  BY DEF Entry
<1> DEFINE old == IF Live(e, t) THEN e ELSE NewHashValue(NoFields)
           new == [f \in Field |-> IF fv[f] # NoStr THEN fv[f] ELSE old.hash[f]]
           left == [f \in Field |-> IF f \in fs THEN NoStr ELSE e.hash[f]]
<1>2. old \in Entry
  BY NewValueType DEF NoFields, HashData
<1>3. old.hash \in HashData /\ e.hash \in HashData
  BY <1>2 DEF Entry
<1>4. new \in HashData /\ left \in HashData
  BY <1>3 DEF HashData
<1>5. [old EXCEPT !.hash = new] \in Entry /\ [e EXCEPT !.hash = left] \in Entry
  BY <1>1, <1>2, <1>4
<1> QED
  BY <1>5, MissingType DEF HSet, HDel, Result

(* Replacing one entry keeps the data well typed.                           *)
LEMMA AtType ==
    ASSUME NEW d \in Data, NEW db \in Db, NEW k \in Key, NEW r, r.value \in Entry
    PROVE  At(d, db, k, r).data \in Data
BY DEF At, Outcome, Put, Data

(* Rename keeps the data well typed.                                        *)
LEMMA RenameType ==
    ASSUME NEW d \in Data, NEW t \in Nat, NEW db \in Db, NEW old \in Key, NEW new \in Key
    PROVE  Rename(d, t, db, old, new).data \in Data
<1>1. d[db][old] \in Entry
  BY DEF Data
<1> QED
  BY <1>1, MissingType DEF Rename, Outcome, Data

(* Empty databases are well typed.                                          *)
LEMMA EmptyType == [db \in Db |-> Empty] \in Data
BY MissingType DEF Empty, Data

(* FlushDb and FlushAll keep the data well typed.                           *)
LEMMA FlushType ==
    ASSUME NEW d \in Data, NEW db \in Db
    PROVE  FlushDb(d, db).data \in Data /\ FlushAll(d).data \in Data
BY MissingType, EmptyType DEF FlushDb, FlushAll, Outcome, Empty, Data

-----------------------------------------------------------------------------
(* Replaying what an outcome r of the data d logged gives r's data.         *)
Redone(r, d, t) == ReplayLog(r.log, d, t) = r.data

(* An outcome that changes nothing and logs nothing is redone.              *)
LEMMA NoneLogged ==
    ASSUME NEW d, NEW t, NEW r, r.log = <<>>, r.data = d
    PROVE  Redone(r, d, t)
BY DEF Redone, ReplayLog

(* One logged command that dispatches to the outcome redoes it.             *)
LEMMA OneLogged ==
    ASSUME NEW d, NEW t, NEW r, NEW c, r.log = <<c>>, r.data = dispatchAOF(c, d, t).data
    PROVE  Redone(r, d, t)
<1>1. Len(r.log) = 1 /\ r.log[1] = c
  OBVIOUS
<1> QED
  BY <1>1 DEF Redone, ReplayLog

(* Two logged commands that lead to the outcome redo it.                    *)
LEMMA TwoLogged ==
    ASSUME NEW d, NEW t, NEW r, NEW c, NEW b, r.log = <<c, b>>,
           r.data = dispatchAOF(b, dispatchAOF(c, d, t).data, t).data
    PROVE  Redone(r, d, t)
<1>1. Len(r.log) = 2 /\ r.log[1] = c /\ r.log[2] = b
  OBVIOUS
<1> QED
  BY <1>1 DEF Redone, ReplayLog

(* Putting back the entry that is there changes nothing.                    *)
LEMMA SameData ==
    ASSUME NEW d \in Data, NEW db \in Db, NEW k \in Key
    PROVE  Put(d, db, k, d[db][k]) = d
BY DEF Put, Data

(* What a single-key result becomes on the whole data.                      *)
LEMMA AtFields ==
    ASSUME NEW d, NEW db, NEW k, NEW r
    PROVE  At(d, db, k, r).log = r.log /\ At(d, db, k, r).data = Put(d, db, k, r.value)
BY DEF At, Outcome

(* A single-key method that refused is redone by its empty log.             *)
LEMMA NothingDone ==
    ASSUME NEW d \in Data, NEW t, NEW db \in Db, NEW k \in Key, NEW r, r.log = <<>>, r.value = d[db][k]
    PROVE  Redone(At(d, db, k, r), d, t)
<1> DEFINE R == At(d, db, k, r)
<1>1. R.log = <<>> /\ R.data = d
  BY AtFields, SameData
<1> QED
  BY <1>1, NoneLogged

(* A logged command that dispatches to the very same method call.           *)
LEMMA SameCall ==
    ASSUME NEW d, NEW t, NEW db, NEW k, NEW r, NEW c, r.log = <<c>>,
           NEW r2, dispatchAOF(c, d, t) = At(d, db, k, r2), r2.value = r.value
    PROVE  Redone(At(d, db, k, r), d, t)
<1> DEFINE R == At(d, db, k, r)
<1>1. R.log = <<c>> /\ R.data = dispatchAOF(c, d, t).data
  BY AtFields
<1> QED
  BY <1>1, OneLogged

(* Set with a deadline in whole seconds is redone.                          *)
LEMMA SetRedone ==
    ASSUME NEW d \in Data, NEW t \in Nat, NEW db \in Db, NEW k \in Key, NEW v \in Str, NEW o \in Options,
           o.ex <= 0 /\ o.px > 0 => o.px % Second = 0
    PROVE  Redone(At(d, db, k, Set(d[db][k], t, db, k, v, o)), d, t)
<1> DEFINE e   == d[db][k]
           r   == Set(e, t, db, k, v, o)
           R   == At(d, db, k, r)
           new == NewStringValue(v)
           d1  == Put(d, db, k, new)
           c   == <<"SET", db, k, v>>
           b(secs) == <<"EXPIRE", db, k, secs>>
           later(x) == [new EXCEPT !.exp = t + x]
<1>1. new \in Entry /\ Present(new)
  BY NewValueType DEF NewStringValue, Missing, Present
<1>2. d1 \in Data /\ d1[db][k] = new
  BY <1>1 DEF Put, Data
<1>3. dispatchAOF(c, d, t).data = d1
  <2>1. Set(e, t, db, k, v, NoOption).value = new
    BY DEF Set, NoOption, Result
  <2>2. dispatchAOF(c, d, t) = At(d, db, k, Set(e, t, db, k, v, NoOption))
    BY DEF dispatchAOF
  <2> HIDE DEF c, e, new
  <2> QED
    BY <2>1, <2>2, AtFields
<1>4. ASSUME NEW secs PROVE dispatchAOF(b(secs), d1, t).data = Put(d, db, k, later(secs * Second))
  <2>1. Expire(new, t, db, k, secs).value = later(secs * Second)
    BY <1>1 DEF Expire, Result
  <2>2. dispatchAOF(b(secs), d1, t) = At(d1, db, k, Expire(d1[db][k], t, db, k, secs))
    BY DEF dispatchAOF
  <2>3. dispatchAOF(b(secs), d1, t).data = Put(d1, db, k, later(secs * Second))
    <3> HIDE DEF d1, b, new, later
    <3> QED
      BY <2>1, <2>2, <1>2, AtFields
  <2> QED
    BY <2>3 DEF Put, Data
<1>5. \/ r.log = <<>> /\ r.value = e
      \/ r.log = <<c>> /\ r.value = new
      \/ r.log = <<c, b(o.ex)>> /\ r.value = later(o.ex * Second)
      \/ r.log = <<c, b(o.px \div Second)>> /\ r.value = later(o.px) /\ o.ex <= 0 /\ o.px > 0
  BY DEF Set, Result, Options
<1>6. o.ex <= 0 /\ o.px > 0 => o.px = (o.px \div Second) * Second
  BY SecondAssumption DEF Options
<1> HIDE DEF r, new, d1, c, b, later
<1>7. CASE r.log = <<>> /\ r.value = e
  BY <1>7, NothingDone DEF r
<1>8. CASE r.log = <<c>> /\ r.value = new
  <2>1. R.log = <<c>> /\ R.data = dispatchAOF(c, d, t).data
    BY <1>3, <1>8, AtFields DEF d1
  <2> QED
    BY <2>1, OneLogged DEF r
<1>9. ASSUME NEW secs, r.log = <<c, b(secs)>>, r.value = later(secs * Second)
      PROVE  Redone(R, d, t)
  <2>1. R.log = <<c, b(secs)>> /\ R.data = dispatchAOF(b(secs), dispatchAOF(c, d, t).data, t).data
    BY <1>3, <1>4, <1>9, AtFields
  <2> QED
    BY <2>1, TwoLogged
<1> QED
  BY <1>5, <1>6, <1>7, <1>8, <1>9 DEF r

(* Del is redone.                                                           *)
LEMMA DelRedone ==
    ASSUME NEW d \in Data, NEW t \in Nat, NEW db \in Db, NEW k \in Key
    PROVE  Redone(At(d, db, k, Del(d[db][k], db, k)), d, t)
<1> DEFINE r == Del(d[db][k], db, k)
           c == <<"DEL", db, k>>
<1>1. r.log = <<c>>
  BY DEF Del, Result
<1>2. dispatchAOF(c, d, t) = At(d, db, k, r)
  BY DEF dispatchAOF
<1> HIDE DEF r, c
<1> QED
  BY <1>1, <1>2, SameCall DEF r

(* Expire is redone, at the same time.                                      *)
LEMMA ExpireRedone ==
    ASSUME NEW d \in Data, NEW t \in Nat, NEW db \in Db, NEW k \in Key, NEW secs \in Nat
    PROVE  Redone(At(d, db, k, Expire(d[db][k], t, db, k, secs)), d, t)
<1> DEFINE r == Expire(d[db][k], t, db, k, secs)
           c == <<"EXPIRE", db, k, secs>>
<1>1. (r.log = <<>> /\ r.value = d[db][k]) \/ r.log = <<c>>
  BY DEF Expire, Result
<1>2. dispatchAOF(c, d, t) = At(d, db, k, r)
  BY DEF dispatchAOF
<1> HIDE DEF r, c
<1> QED
  BY <1>1, <1>2, SameCall, NothingDone DEF r

(* Incr is redone: it logs no value, but finds the same one.                *)
LEMMA IncrRedone ==
    ASSUME NEW d \in Data, NEW t \in Nat, NEW db \in Db, NEW k \in Key
    PROVE  Redone(At(d, db, k, Incr(d[db][k], db, k)), d, t)
<1> DEFINE r == Incr(d[db][k], db, k)
           c == <<"INCR", db, k>>
<1>1. (r.log = <<>> /\ r.value = d[db][k]) \/ r.log = <<c>>
  BY DEF Incr, AddInt, Result
<1>2. dispatchAOF(c, d, t) = At(d, db, k, r)
  BY DEF dispatchAOF
<1> HIDE DEF r, c
<1> QED
  BY <1>1, <1>2, SameCall, NothingDone DEF r

(* Decr is redone.                                                          *)
LEMMA DecrRedone ==
    ASSUME NEW d \in Data, NEW t \in Nat, NEW db \in Db, NEW k \in Key
    PROVE  Redone(At(d, db, k, Decr(d[db][k], db, k)), d, t)
<1> DEFINE r == Decr(d[db][k], db, k)
           c == <<"DECR", db, k>>
<1>1. (r.log = <<>> /\ r.value = d[db][k]) \/ r.log = <<c>>
  BY DEF Decr, AddInt, Result
<1>2. dispatchAOF(c, d, t) = At(d, db, k, r)
  BY DEF dispatchAOF
<1> HIDE DEF r, c
<1> QED
  BY <1>1, <1>2, SameCall, NothingDone DEF r

(* LPush is redone: it logs the values in argument order.                   *)
LEMMA LPushRedone ==
    ASSUME NEW d \in Data, NEW t \in Nat, NEW db \in Db, NEW k \in Key, NEW vals
    PROVE  Redone(At(d, db, k, LPush(d[db][k], db, k, vals)), d, t)
<1> DEFINE r == LPush(d[db][k], db, k, vals)
           c == <<"LPUSH", db, k, vals>>
<1>1. (r.log = <<>> /\ r.value = d[db][k]) \/ r.log = <<c>>
  BY DEF LPush, Result
<1>2. dispatchAOF(c, d, t) = At(d, db, k, r)
  BY DEF dispatchAOF
<1> HIDE DEF r, c
<1> QED
  BY <1>1, <1>2, SameCall, NothingDone DEF r

(* RPush is redone.                                                         *)
LEMMA RPushRedone ==
    ASSUME NEW d \in Data, NEW t \in Nat, NEW db \in Db, NEW k \in Key, NEW vals
    PROVE  Redone(At(d, db, k, RPush(d[db][k], db, k, vals)), d, t)
<1> DEFINE r == RPush(d[db][k], db, k, vals)
           c == <<"RPUSH", db, k, vals>>
<1>1. (r.log = <<>> /\ r.value = d[db][k]) \/ r.log = <<c>>
  BY DEF RPush, Result
<1>2. dispatchAOF(c, d, t) = At(d, db, k, r)
  BY DEF dispatchAOF
<1> HIDE DEF r, c
<1> QED
  BY <1>1, <1>2, SameCall, NothingDone DEF r

(* HSet is redone.                                                          *)
LEMMA HSetRedone ==
    ASSUME NEW d \in Data, NEW t \in Nat, NEW db \in Db, NEW k \in Key, NEW fv
    PROVE  Redone(At(d, db, k, HSet(d[db][k], t, db, k, fv)), d, t)
<1> DEFINE r == HSet(d[db][k], t, db, k, fv)
           c == <<"HSET", db, k, fv>>
<1>1. (r.log = <<>> /\ r.value = d[db][k]) \/ r.log = <<c>>
  BY DEF HSet, Result
<1>2. dispatchAOF(c, d, t) = At(d, db, k, r)
  BY DEF dispatchAOF
<1> HIDE DEF r, c
<1> QED
  BY <1>1, <1>2, SameCall, NothingDone DEF r

(* HDel on an expired key deletes it silently; everywhere else it logs what *)
(* it did.  A field that is not there is not deleted.                       *)
LEMMA HDelRedone ==
    ASSUME NEW d \in Data, NEW t \in Nat, NEW db \in Db, NEW k \in Key, NEW fs \in (SUBSET Field) \ {{}},
           ~IsExpired(d[db][k], t),
           d[db][k].type = "hash" => Fields(d[db][k].hash) # {}
    PROVE  Redone(At(d, db, k, HDel(d[db][k], t, db, k, fs)), d, t)
<1> DEFINE e == d[db][k]
           r == HDel(e, t, db, k, fs)
           c == <<"HDEL", db, k, fs>>
           left == [f \in Field |-> IF f \in fs THEN NoStr ELSE e.hash[f]]
<1>1. e \in Entry
  BY DEF Data
<1>2. ASSUME e.type = "hash", fs \cap Fields(e.hash) = {}
      PROVE  left # NoFields /\ [e EXCEPT !.hash = left] = e
  <2>1. e.hash \in HashData
    BY <1>1 DEF Entry
  <2>2. left = e.hash
    BY <2>1, <1>2 DEF Fields, HashData
  <2>3. e.hash # NoFields
    BY <1>2 DEF Fields, NoFields
  <2> QED
    BY <2>2, <2>3, <1>1 DEF Entry
<1>3. (r.log = <<>> /\ r.value = e) \/ r.log = <<c>>
  BY <1>2 DEF HDel, Result
<1>4. dispatchAOF(c, d, t) = At(d, db, k, r)
  BY DEF dispatchAOF
<1> HIDE DEF r, c
<1> QED
  BY <1>3, <1>4, SameCall, NothingDone DEF r

(* LPop is redone: it logs the clamped count.                               *)
LEMMA LPopRedone ==
    ASSUME NEW d \in Data, NEW t \in Nat, NEW db \in Db, NEW k \in Key, NEW count \in CountArg
    PROVE  Redone(At(d, db, k, LPop(d[db][k], t, db, k, count)), d, t)
<1> DEFINE e  == d[db][k]
           r  == LPop(e, t, db, k, count)
           n  == Count(count, Len(e.list))
           c  == <<"LPOP", db, k, n>>
           r2 == LPop(e, t, db, k, <<n>>)
<1>1. CASE PopRefused(e, t, count)
  <2>1. r.log = <<>> /\ r.value = e
    BY <1>1 DEF LPop, Result
  <2> HIDE DEF r
  <2> QED
    BY <2>1, NothingDone DEF r
<1>2. CASE ~PopRefused(e, t, count)
  <2>1. e \in Entry /\ Len(e.list) \in Nat
    BY DEF Data, Entry
  <2>2. n \in 0 .. Len(e.list)
    BY <1>2, <2>1, CountRange
  <2>3. Count(<<n>>, Len(e.list)) = n
    <3> HIDE DEF n
    <3> QED
      BY <2>1, <2>2 DEF Count
  <2>4. ~PopRefused(e, t, <<n>>)
    <3> HIDE DEF n
    <3> QED
      BY <1>2, <2>1, <2>2 DEF PopRefused
  <2>5. r.log = <<c>> /\ r2.value = r.value
    <3> HIDE DEF n
    <3> QED
      BY <1>2, <2>3, <2>4 DEF LPop, Result, n
  <2>6. dispatchAOF(c, d, t) = At(d, db, k, r2)
    BY DEF dispatchAOF
  <2> HIDE DEF r, c, r2
  <2> QED
    BY <2>5, <2>6, SameCall DEF r
<1> QED
  BY <1>1, <1>2

(* RPop is redone: it logs the clamped count.                               *)
LEMMA RPopRedone ==
    ASSUME NEW d \in Data, NEW t \in Nat, NEW db \in Db, NEW k \in Key, NEW count \in CountArg
    PROVE  Redone(At(d, db, k, RPop(d[db][k], t, db, k, count)), d, t)
<1> DEFINE e  == d[db][k]
           r  == RPop(e, t, db, k, count)
           n  == Count(count, Len(e.list))
           c  == <<"RPOP", db, k, n>>
           r2 == RPop(e, t, db, k, <<n>>)
<1>1. CASE PopRefused(e, t, count)
  <2>1. r.log = <<>> /\ r.value = e
    BY <1>1 DEF RPop, Result
  <2> HIDE DEF r
  <2> QED
    BY <2>1, NothingDone DEF r
<1>2. CASE ~PopRefused(e, t, count)
  <2>1. e \in Entry /\ Len(e.list) \in Nat
    BY DEF Data, Entry
  <2>2. n \in 0 .. Len(e.list)
    BY <1>2, <2>1, CountRange
  <2>3. Count(<<n>>, Len(e.list)) = n
    <3> HIDE DEF n
    <3> QED
      BY <2>1, <2>2 DEF Count
  <2>4. ~PopRefused(e, t, <<n>>)
    <3> HIDE DEF n
    <3> QED
      BY <1>2, <2>1, <2>2 DEF PopRefused
  <2>5. r.log = <<c>> /\ r2.value = r.value
    <3> HIDE DEF n
    <3> QED
      BY <1>2, <2>3, <2>4 DEF RPop, Result, n
  <2>6. dispatchAOF(c, d, t) = At(d, db, k, r2)
    BY DEF dispatchAOF
  <2> HIDE DEF r, c, r2
  <2> QED
    BY <2>5, <2>6, SameCall DEF r
<1> QED
  BY <1>1, <1>2

(* LTrim is redone: normalised indexes, or DEL.                             *)
LEMMA LTrimRedone ==
    ASSUME NEW d \in Data, NEW t \in Nat, NEW db \in Db, NEW k \in Key, NEW start \in Int, NEW stop \in Int
    PROVE  Redone(At(d, db, k, LTrim(d[db][k], t, db, k, start, stop)), d, t)
<1> DEFINE e   == d[db][k]
           r   == LTrim(e, t, db, k, start, stop)
           len == Len(e.list)
           lo  == Lo(start, len)
           hi  == Hi(stop, len)
           c   == <<"LTRIM", db, k, lo, hi>>
           r2  == LTrim(e, t, db, k, lo, hi)
           del == <<"DEL", db, k>>
<1>1. len \in Nat
  BY DEF Data, Entry
<1>2. lo \in Nat /\ hi \in Int /\ hi < len /\ Lo(lo, len) = lo /\ (hi >= 0 => Hi(hi, len) = hi)
  BY <1>1, WindowRange
<1>3. \/ r.log = <<>> /\ r.value = e
      \/ r.log = <<del>> /\ r.value = Missing
      \/ r.log = <<c>> /\ r2.value = r.value
  <2>1. CASE ~Live(e, t) \/ e.type # "list"
    BY <2>1 DEF LTrim, Result
  <2>2. CASE Live(e, t) /\ e.type = "list" /\ (lo > hi \/ lo >= len)
    BY <2>2 DEF LTrim, Result
  <2>3. CASE Live(e, t) /\ e.type = "list" /\ ~(lo > hi \/ lo >= len)
    <3>1. hi >= 0
      BY <2>3, <1>1, <1>2
    <3>2. Lo(lo, len) = lo /\ Hi(hi, len) = hi
      BY <3>1, <1>2
    <3>3. r.value = [e EXCEPT !.list = SubSeq(e.list, lo + 1, hi + 1)] /\ r.log = <<c>>
      BY <2>3 DEF LTrim, Result
    <3>4. r2.value = [e EXCEPT !.list = SubSeq(e.list, lo + 1, hi + 1)]
      BY <2>3, <3>2 DEF LTrim, Result
    <3> QED
      BY <3>3, <3>4
  <2> QED
    BY <2>1, <2>2, <2>3
<1>4. dispatchAOF(c, d, t) = At(d, db, k, r2)
  BY DEF dispatchAOF
<1>5. dispatchAOF(del, d, t) = At(d, db, k, Del(e, db, k)) /\ Del(e, db, k).value = Missing
  BY DEF dispatchAOF, Del, Result
<1> HIDE DEF r, c, r2, del
<1> QED
  BY <1>3, <1>4, <1>5, SameCall, NothingDone DEF r

(* Rename is redone, to the same key too.                                   *)
LEMMA RenameRedone ==
    ASSUME NEW d, NEW t, NEW db, NEW old, NEW new
    PROVE  Redone(Rename(d, t, db, old, new), d, t)
<1> DEFINE R == Rename(d, t, db, old, new)
           c == <<"RENAME", db, old, new>>
<1>1. (R.log = <<>> /\ R.data = d) \/ R.log = <<c>>
  BY DEF Rename, Outcome
<1>2. dispatchAOF(c, d, t) = R
  BY DEF dispatchAOF
<1> HIDE DEF R, c
<1> QED
  BY <1>1, <1>2, NoneLogged, OneLogged DEF R

(* FlushDb and FlushAll are redone.                                         *)
LEMMA FlushRedone ==
    ASSUME NEW d, NEW t, NEW db
    PROVE  Redone(FlushDb(d, db), d, t) /\ Redone(FlushAll(d), d, t)
<1> DEFINE b == <<"FLUSHDB", db>>
           c == <<"FLUSHALL">>
<1>1. FlushDb(d, db).log = <<b>> /\ FlushAll(d).log = <<c>>
  BY DEF FlushDb, FlushAll, Outcome
<1>2. dispatchAOF(b, d, t) = FlushDb(d, db) /\ dispatchAOF(c, d, t) = FlushAll(d)
  BY DEF dispatchAOF
<1> HIDE DEF b, c
<1> QED
  BY <1>1, <1>2, OneLogged

(* FlushAll is redone, without a database.                                  *)
LEMMA FlushAllRedone == ASSUME NEW d, NEW t PROVE Redone(FlushAll(d), d, t)
<1> DEFINE c == <<"FLUSHALL">>
<1>1. FlushAll(d).log = <<c>> /\ dispatchAOF(c, d, t) = FlushAll(d)
  BY DEF FlushAll, Outcome, dispatchAOF
<1> HIDE DEF c
<1> QED
  BY <1>1, OneLogged

-----------------------------------------------------------------------------
(* Type correctness.  A command is executable when it maps well-typed data  *)
(* to well-typed data; every method logs at most two such commands.         *)
Executable(c) == \A d \in Data, t \in Nat : dispatchAOF(c, d, t).data \in Data
Sound(r)      == r.data \in Data /\ \A d \in Data, t \in Nat : ReplayLog(r.log, d, t) \in Data

(* An outcome is sound if its commands are executable.                      *)
LEMMA SoundLog ==
    ASSUME NEW r, r.data \in Data, NEW c, NEW b,
           \/ r.log = <<>>
           \/ r.log = <<c>> /\ Executable(c)
           \/ r.log = <<c, b>> /\ Executable(c) /\ Executable(b)
    PROVE  Sound(r)
<1> SUFFICES ASSUME NEW d \in Data, NEW t \in Nat PROVE ReplayLog(r.log, d, t) \in Data
  BY DEF Sound
<1>1. CASE r.log = <<>>
  BY <1>1 DEF ReplayLog
<1>2. CASE r.log = <<c>> /\ Executable(c)
  <2>1. Len(r.log) = 1 /\ r.log[1] = c
    BY <1>2
  <2> QED
    BY <2>1, <1>2 DEF ReplayLog, Executable
<1>3. CASE r.log = <<c, b>> /\ Executable(c) /\ Executable(b)
  <2>1. Len(r.log) = 2 /\ r.log[1] = c /\ r.log[2] = b
    BY <1>3
  <2>2. dispatchAOF(c, d, t).data \in Data
    BY <1>3 DEF Executable
  <2> QED
    BY <2>1, <2>2, <1>3 DEF ReplayLog, Executable
<1> QED
  BY <1>1, <1>2, <1>3

(* A call on one key is sound if its value is an entry and it logs at most  *)
(* one executable command.                                                  *)
LEMMA SoundAt ==
    ASSUME NEW d \in Data, NEW db \in Db, NEW k \in Key, NEW r, r.value \in Entry, NEW c,
           r.log = <<>> \/ (r.log = <<c>> /\ Executable(c))
    PROVE  Sound(At(d, db, k, r))
<1> DEFINE R == At(d, db, k, r)
<1>1. R.data \in Data /\ R.log = r.log
  BY AtType, AtFields
<1> QED
  BY <1>1, SoundLog

(* Every command a method logs is executable.                               *)
LEMMA ExecutableOnKey ==
    ASSUME NEW db \in Db, NEW k \in Key
    PROVE  /\ \A v \in Str : Executable(<<"SET", db, k, v>>)
           /\ Executable(<<"DEL", db, k>>)
           /\ \A secs \in Nat : Executable(<<"EXPIRE", db, k, secs>>)
           /\ Executable(<<"INCR", db, k>>)
           /\ Executable(<<"DECR", db, k>>)
<1>1. ASSUME NEW d \in Data PROVE d[db][k] \in Entry
  BY DEF Data
<1>2. ASSUME NEW v \in Str PROVE Executable(<<"SET", db, k, v>>)
  <2> SUFFICES ASSUME NEW d \in Data, NEW t \in Nat
               PROVE  dispatchAOF(<<"SET", db, k, v>>, d, t).data \in Data
    BY DEF Executable
  <2> DEFINE r == Set(d[db][k], t, db, k, v, NoOption)
  <2>1. r.value \in Entry
    <3>1. NoOption \in Options
      BY DEF NoOption, Options
    <3> QED
      BY <1>1, <3>1, SetType
  <2>2. dispatchAOF(<<"SET", db, k, v>>, d, t) = At(d, db, k, r)
    BY DEF dispatchAOF
  <2> QED
    BY <2>1, <2>2, AtType
<1>3. Executable(<<"DEL", db, k>>)
  <2> SUFFICES ASSUME NEW d \in Data, NEW t \in Nat
               PROVE  dispatchAOF(<<"DEL", db, k>>, d, t).data \in Data
    BY DEF Executable
  <2> DEFINE r == Del(d[db][k], db, k)
  <2>1. r.value \in Entry
    BY MissingType DEF Del, Result
  <2>2. dispatchAOF(<<"DEL", db, k>>, d, t) = At(d, db, k, r)
    BY DEF dispatchAOF
  <2> QED
    BY <2>1, <2>2, AtType
<1>4. ASSUME NEW secs \in Nat PROVE Executable(<<"EXPIRE", db, k, secs>>)
  <2> SUFFICES ASSUME NEW d \in Data, NEW t \in Nat
               PROVE  dispatchAOF(<<"EXPIRE", db, k, secs>>, d, t).data \in Data
    BY DEF Executable
  <2> DEFINE r == Expire(d[db][k], t, db, k, secs)
  <2>1. r.value \in Entry
    BY <1>1, ExpireType
  <2>2. dispatchAOF(<<"EXPIRE", db, k, secs>>, d, t) = At(d, db, k, r)
    BY DEF dispatchAOF
  <2> QED
    BY <2>1, <2>2, AtType
<1>5. Executable(<<"INCR", db, k>>) /\ Executable(<<"DECR", db, k>>)
  <2> SUFFICES ASSUME NEW d \in Data, NEW t \in Nat
               PROVE  /\ dispatchAOF(<<"INCR", db, k>>, d, t).data \in Data
                      /\ dispatchAOF(<<"DECR", db, k>>, d, t).data \in Data
    BY DEF Executable
  <2>1. Incr(d[db][k], db, k).value \in Entry /\ Decr(d[db][k], db, k).value \in Entry
    BY <1>1, AddIntType DEF Incr, Decr
  <2>2. /\ dispatchAOF(<<"INCR", db, k>>, d, t) = At(d, db, k, Incr(d[db][k], db, k))
        /\ dispatchAOF(<<"DECR", db, k>>, d, t) = At(d, db, k, Decr(d[db][k], db, k))
    BY DEF dispatchAOF
  <2> QED
    BY <2>1, <2>2, AtType
<1> QED
  BY <1>2, <1>3, <1>4, <1>5

(* The list commands are executable.                                        *)
LEMMA ExecutableOnList ==
    ASSUME NEW db \in Db, NEW k \in Key
    PROVE  /\ \A vals \in Seq(Str) : Executable(<<"LPUSH", db, k, vals>>)
           /\ \A vals \in Seq(Str) : Executable(<<"RPUSH", db, k, vals>>)
           /\ \A n \in Nat : Executable(<<"LPOP", db, k, n>>)
           /\ \A n \in Nat : Executable(<<"RPOP", db, k, n>>)
           /\ \A lo \in Int, hi \in Int : Executable(<<"LTRIM", db, k, lo, hi>>)
<1>1. ASSUME NEW d \in Data PROVE d[db][k] \in Entry
  BY DEF Data
<1>2. ASSUME NEW vals \in Seq(Str)
      PROVE  Executable(<<"LPUSH", db, k, vals>>) /\ Executable(<<"RPUSH", db, k, vals>>)
  <2> SUFFICES ASSUME NEW d \in Data, NEW t \in Nat
               PROVE  /\ dispatchAOF(<<"LPUSH", db, k, vals>>, d, t).data \in Data
                      /\ dispatchAOF(<<"RPUSH", db, k, vals>>, d, t).data \in Data
    BY DEF Executable
  <2>1. LPush(d[db][k], db, k, vals).value \in Entry /\ RPush(d[db][k], db, k, vals).value \in Entry
    BY <1>1, PushType
  <2>2. /\ dispatchAOF(<<"LPUSH", db, k, vals>>, d, t) = At(d, db, k, LPush(d[db][k], db, k, vals))
        /\ dispatchAOF(<<"RPUSH", db, k, vals>>, d, t) = At(d, db, k, RPush(d[db][k], db, k, vals))
    BY DEF dispatchAOF
  <2> QED
    BY <2>1, <2>2, AtType
<1>3. ASSUME NEW n \in Nat
      PROVE  Executable(<<"LPOP", db, k, n>>) /\ Executable(<<"RPOP", db, k, n>>)
  <2> SUFFICES ASSUME NEW d \in Data, NEW t \in Nat
               PROVE  /\ dispatchAOF(<<"LPOP", db, k, n>>, d, t).data \in Data
                      /\ dispatchAOF(<<"RPOP", db, k, n>>, d, t).data \in Data
    BY DEF Executable
  <2>1. <<n>> \in CountArg
    BY DEF CountArg
  <2>2. LPop(d[db][k], t, db, k, <<n>>).value \in Entry /\ RPop(d[db][k], t, db, k, <<n>>).value \in Entry
    BY <1>1, <2>1, PopType
  <2>3. /\ dispatchAOF(<<"LPOP", db, k, n>>, d, t) = At(d, db, k, LPop(d[db][k], t, db, k, <<n>>))
        /\ dispatchAOF(<<"RPOP", db, k, n>>, d, t) = At(d, db, k, RPop(d[db][k], t, db, k, <<n>>))
    BY DEF dispatchAOF
  <2> QED
    BY <2>2, <2>3, AtType
<1>4. ASSUME NEW lo \in Int, NEW hi \in Int PROVE Executable(<<"LTRIM", db, k, lo, hi>>)
  <2> SUFFICES ASSUME NEW d \in Data, NEW t \in Nat
               PROVE  dispatchAOF(<<"LTRIM", db, k, lo, hi>>, d, t).data \in Data
    BY DEF Executable
  <2>1. LTrim(d[db][k], t, db, k, lo, hi).value \in Entry
    BY <1>1, LTrimType
  <2>2. dispatchAOF(<<"LTRIM", db, k, lo, hi>>, d, t) = At(d, db, k, LTrim(d[db][k], t, db, k, lo, hi))
    BY DEF dispatchAOF
  <2> QED
    BY <2>1, <2>2, AtType
<1> QED
  BY <1>2, <1>3, <1>4

(* The hash commands are executable.                                        *)
LEMMA ExecutableOnHash ==
    ASSUME NEW db \in Db, NEW k \in Key
    PROVE  /\ \A fv \in HashData : Executable(<<"HSET", db, k, fv>>)
           /\ \A fs \in SUBSET Field : Executable(<<"HDEL", db, k, fs>>)
<1>1. ASSUME NEW d \in Data PROVE d[db][k] \in Entry
  BY DEF Data
<1>2. ASSUME NEW fv \in HashData, NEW fs \in SUBSET Field, NEW d \in Data, NEW t \in Nat
      PROVE  /\ dispatchAOF(<<"HSET", db, k, fv>>, d, t).data \in Data
             /\ dispatchAOF(<<"HDEL", db, k, fs>>, d, t).data \in Data
  <2>1. HSet(d[db][k], t, db, k, fv).value \in Entry /\ HDel(d[db][k], t, db, k, fs).value \in Entry
    BY <1>1, HashType
  <2>2. /\ dispatchAOF(<<"HSET", db, k, fv>>, d, t) = At(d, db, k, HSet(d[db][k], t, db, k, fv))
        /\ dispatchAOF(<<"HDEL", db, k, fs>>, d, t) = At(d, db, k, HDel(d[db][k], t, db, k, fs))
    BY DEF dispatchAOF
  <2> QED
    BY <2>1, <2>2, AtType
<1>3. NoFields \in HashData
  BY DEF NoFields, HashData
<1>4. ASSUME NEW fv \in HashData PROVE Executable(<<"HSET", db, k, fv>>)
  BY <1>2 DEF Executable
<1>5. ASSUME NEW fs \in SUBSET Field PROVE Executable(<<"HDEL", db, k, fs>>)
  BY <1>2, <1>3 DEF Executable
<1> QED
  BY <1>4, <1>5

(* The commands that work on whole databases are executable.                *)
LEMMA ExecutableOnDb ==
    ASSUME NEW db \in Db
    PROVE  /\ \A old \in Key, new \in Key : Executable(<<"RENAME", db, old, new>>)
           /\ Executable(<<"FLUSHDB", db>>)
           /\ Executable(<<"FLUSHALL">>)
<1>1. ASSUME NEW old \in Key, NEW new \in Key PROVE Executable(<<"RENAME", db, old, new>>)
  BY RenameType DEF Executable, dispatchAOF
<1>2. Executable(<<"FLUSHDB", db>>) /\ Executable(<<"FLUSHALL">>)
  BY FlushType DEF Executable, dispatchAOF
<1> QED
  BY <1>1, <1>2

(* Each method is sound.                                                    *)
LEMMA SetSound ==
    ASSUME NEW d \in Data, NEW t \in Nat, NEW db \in Db, NEW k \in Key, NEW v \in Str, NEW o \in Options
    PROVE  Sound(At(d, db, k, Set(d[db][k], t, db, k, v, o)))
<1> DEFINE r == Set(d[db][k], t, db, k, v, o)
           R == At(d, db, k, r)
           c == <<"SET", db, k, v>>
           b(secs) == <<"EXPIRE", db, k, secs>>
<1>1. d[db][k] \in Entry
  BY DEF Data
<1>2. r.value \in Entry
  BY <1>1, SetType
<1>3. Executable(c) /\ \A secs \in Nat : Executable(b(secs))
  BY ExecutableOnKey
<1>4. \/ r.log = <<>>
      \/ r.log = <<c>>
      \/ o.ex > 0 /\ r.log = <<c, b(o.ex)>>
      \/ o.px > 0 /\ r.log = <<c, b(o.px \div Second)>>
  BY DEF Set, Result
<1>5. (o.ex > 0 => o.ex \in Nat) /\ (o.px > 0 => o.px \div Second \in Nat)
  BY SecondAssumption DEF Options
<1>6. \E x : \/ r.log = <<>>
             \/ r.log = <<c>> /\ Executable(c)
             \/ r.log = <<c, x>> /\ Executable(c) /\ Executable(x)
  <2> HIDE DEF r, c, b
  <2> QED
    BY <1>3, <1>4, <1>5
<1>7. R.data \in Data /\ R.log = r.log
  <2> HIDE DEF r
  <2> QED
    BY <1>2, AtType, AtFields
<1> HIDE DEF r, c
<1> QED
  BY <1>6, <1>7, SoundLog DEF r

(* Del is sound.                                                            *)
LEMMA DelSound ==
    ASSUME NEW d \in Data, NEW t \in Nat, NEW db \in Db, NEW k \in Key
    PROVE  Sound(At(d, db, k, Del(d[db][k], db, k)))
<1> DEFINE r == Del(d[db][k], db, k)
           c == <<"DEL", db, k>>
<1>1. d[db][k] \in Entry
  BY DEF Data
<1>2. r.value \in Entry
  BY <1>1, MissingType DEF Del, Result
<1>3. r.log = <<>> \/ r.log = <<c>>
  BY DEF Del, Result
<1>4. Executable(c)
  BY ExecutableOnKey
<1> HIDE DEF r, c
<1> QED
  BY <1>2, <1>3, <1>4, SoundAt DEF r

(* Expire is sound.                                                         *)
LEMMA ExpireSound ==
    ASSUME NEW d \in Data, NEW t \in Nat, NEW db \in Db, NEW k \in Key, NEW secs \in Nat
    PROVE  Sound(At(d, db, k, Expire(d[db][k], t, db, k, secs)))
<1> DEFINE r == Expire(d[db][k], t, db, k, secs)
           c == <<"EXPIRE", db, k, secs>>
<1>1. d[db][k] \in Entry
  BY DEF Data
<1>2. r.value \in Entry
  BY <1>1, ExpireType
<1>3. r.log = <<>> \/ r.log = <<c>>
  BY DEF Expire, Result
<1>4. Executable(c)
  BY ExecutableOnKey
<1> HIDE DEF r, c
<1> QED
  BY <1>2, <1>3, <1>4, SoundAt DEF r

(* Incr is sound.                                                           *)
LEMMA IncrSound ==
    ASSUME NEW d \in Data, NEW t \in Nat, NEW db \in Db, NEW k \in Key
    PROVE  Sound(At(d, db, k, Incr(d[db][k], db, k)))
<1> DEFINE r == Incr(d[db][k], db, k)
           c == <<"INCR", db, k>>
<1>1. d[db][k] \in Entry
  BY DEF Data
<1>2. r.value \in Entry
  BY <1>1, AddIntType DEF Incr
<1>3. r.log = <<>> \/ r.log = <<c>>
  BY DEF Incr, AddInt, Result
<1>4. Executable(c)
  BY ExecutableOnKey
<1> HIDE DEF r, c
<1> QED
  BY <1>2, <1>3, <1>4, SoundAt DEF r

(* Decr is sound.                                                           *)
LEMMA DecrSound ==
    ASSUME NEW d \in Data, NEW t \in Nat, NEW db \in Db, NEW k \in Key
    PROVE  Sound(At(d, db, k, Decr(d[db][k], db, k)))
<1> DEFINE r == Decr(d[db][k], db, k)
           c == <<"DECR", db, k>>
<1>1. d[db][k] \in Entry
  BY DEF Data
<1>2. r.value \in Entry
  BY <1>1, AddIntType DEF Decr
<1>3. r.log = <<>> \/ r.log = <<c>>
  BY DEF Decr, AddInt, Result
<1>4. Executable(c)
  BY ExecutableOnKey
<1> HIDE DEF r, c
<1> QED
  BY <1>2, <1>3, <1>4, SoundAt DEF r

(* LPush is sound.                                                          *)
LEMMA LPushSound ==
    ASSUME NEW d \in Data, NEW t \in Nat, NEW db \in Db, NEW k \in Key, NEW vals \in Seq(Str)
    PROVE  Sound(At(d, db, k, LPush(d[db][k], db, k, vals)))
<1> DEFINE r == LPush(d[db][k], db, k, vals)
           c == <<"LPUSH", db, k, vals>>
<1>1. d[db][k] \in Entry
  BY DEF Data
<1>2. r.value \in Entry
  BY <1>1, PushType
<1>3. r.log = <<>> \/ r.log = <<c>>
  BY DEF LPush, Result
<1>4. Executable(c)
  BY ExecutableOnList
<1> HIDE DEF r, c
<1> QED
  BY <1>2, <1>3, <1>4, SoundAt DEF r

(* RPush is sound.                                                          *)
LEMMA RPushSound ==
    ASSUME NEW d \in Data, NEW t \in Nat, NEW db \in Db, NEW k \in Key, NEW vals \in Seq(Str)
    PROVE  Sound(At(d, db, k, RPush(d[db][k], db, k, vals)))
<1> DEFINE r == RPush(d[db][k], db, k, vals)
           c == <<"RPUSH", db, k, vals>>
<1>1. d[db][k] \in Entry
  BY DEF Data
<1>2. r.value \in Entry
  BY <1>1, PushType
<1>3. r.log = <<>> \/ r.log = <<c>>
  BY DEF RPush, Result
<1>4. Executable(c)
  BY ExecutableOnList
<1> HIDE DEF r, c
<1> QED
  BY <1>2, <1>3, <1>4, SoundAt DEF r

(* HSet is sound.                                                           *)
LEMMA HSetSound ==
    ASSUME NEW d \in Data, NEW t \in Nat, NEW db \in Db, NEW k \in Key, NEW fv \in HashData
    PROVE  Sound(At(d, db, k, HSet(d[db][k], t, db, k, fv)))
<1> DEFINE r == HSet(d[db][k], t, db, k, fv)
           c == <<"HSET", db, k, fv>>
<1>1. d[db][k] \in Entry
  BY DEF Data
<1>2. r.value \in Entry
  BY <1>1, HashType DEF HashData
<1>3. r.log = <<>> \/ r.log = <<c>>
  BY DEF HSet, Result
<1>4. Executable(c)
  BY ExecutableOnHash
<1> HIDE DEF r, c
<1> QED
  BY <1>2, <1>3, <1>4, SoundAt DEF r

(* The hash without fields is a hash.                                       *)
LEMMA NoFieldsType == NoFields \in HashData
BY DEF NoFields, HashData

(* HDel is sound.                                                           *)
LEMMA HDelSound ==
    ASSUME NEW d \in Data, NEW t \in Nat, NEW db \in Db, NEW k \in Key, NEW fs \in SUBSET Field
    PROVE  Sound(At(d, db, k, HDel(d[db][k], t, db, k, fs)))
<1> DEFINE r == HDel(d[db][k], t, db, k, fs)
           c == <<"HDEL", db, k, fs>>
<1>1. d[db][k] \in Entry
  BY DEF Data
<1>2. r.value \in Entry
  BY <1>1, HashType, NoFieldsType
<1>3. r.log = <<>> \/ r.log = <<c>>
  BY DEF HDel, Result
<1>4. Executable(c)
  BY ExecutableOnHash
<1> HIDE DEF r, c
<1> QED
  BY <1>2, <1>3, <1>4, SoundAt DEF r

(* LPop is sound.                                                           *)
LEMMA LPopSound ==
    ASSUME NEW d \in Data, NEW t \in Nat, NEW db \in Db, NEW k \in Key, NEW count \in CountArg
    PROVE  Sound(At(d, db, k, LPop(d[db][k], t, db, k, count)))
<1> DEFINE e == d[db][k]
           r == LPop(e, t, db, k, count)
           n == Count(count, Len(e.list))
           c == <<"LPOP", db, k, n>>
<1>1. e \in Entry
  BY DEF Data
<1>2. r.value \in Entry
  BY <1>1, PopType
<1>3. CASE PopRefused(e, t, count)
  <2>1. r.log = <<>>
    BY <1>3 DEF LPop, Result
  <2> HIDE DEF r
  <2> QED
    BY <2>1, <1>2, SoundAt DEF r
<1>4. CASE ~PopRefused(e, t, count)
  <2>1. n \in Nat
    BY <1>1, <1>4, CountRange DEF Entry
  <2>2. Executable(c)
    <3> HIDE DEF n
    <3> QED
      BY <2>1, ExecutableOnList
  <2>3. r.log = <<c>>
    BY <1>4 DEF LPop, Result
  <2> HIDE DEF r, c
  <2> QED
    BY <2>2, <2>3, <1>2, SoundAt DEF r
<1> QED
  BY <1>3, <1>4

(* RPop is sound.                                                           *)
LEMMA RPopSound ==
    ASSUME NEW d \in Data, NEW t \in Nat, NEW db \in Db, NEW k \in Key, NEW count \in CountArg
    PROVE  Sound(At(d, db, k, RPop(d[db][k], t, db, k, count)))
<1> DEFINE e == d[db][k]
           r == RPop(e, t, db, k, count)
           n == Count(count, Len(e.list))
           c == <<"RPOP", db, k, n>>
<1>1. e \in Entry
  BY DEF Data
<1>2. r.value \in Entry
  BY <1>1, PopType
<1>3. CASE PopRefused(e, t, count)
  <2>1. r.log = <<>>
    BY <1>3 DEF RPop, Result
  <2> HIDE DEF r
  <2> QED
    BY <2>1, <1>2, SoundAt DEF r
<1>4. CASE ~PopRefused(e, t, count)
  <2>1. n \in Nat
    BY <1>1, <1>4, CountRange DEF Entry
  <2>2. Executable(c)
    <3> HIDE DEF n
    <3> QED
      BY <2>1, ExecutableOnList
  <2>3. r.log = <<c>>
    BY <1>4 DEF RPop, Result
  <2> HIDE DEF r, c
  <2> QED
    BY <2>2, <2>3, <1>2, SoundAt DEF r
<1> QED
  BY <1>3, <1>4

(* LTrim is sound.                                                          *)
LEMMA LTrimSound ==
    ASSUME NEW d \in Data, NEW t \in Nat, NEW db \in Db, NEW k \in Key, NEW start \in Int, NEW stop \in Int
    PROVE  Sound(At(d, db, k, LTrim(d[db][k], t, db, k, start, stop)))
<1> DEFINE e   == d[db][k]
           r   == LTrim(e, t, db, k, start, stop)
           lo  == Lo(start, Len(e.list))
           hi  == Hi(stop, Len(e.list))
           c   == <<"LTRIM", db, k, lo, hi>>
           del == <<"DEL", db, k>>
<1>1. e \in Entry
  BY DEF Data
<1>2. r.value \in Entry
  BY <1>1, LTrimType
<1>3. lo \in Int /\ hi \in Int
  <2>1. Len(e.list) \in Nat
    BY <1>1 DEF Entry
  <2> HIDE DEF e
  <2>2. lo \in Nat /\ hi \in Int
    BY <2>1, WindowRange
  <2> QED
    BY <2>2
<1>4. Executable(c) /\ Executable(del)
  <2> HIDE DEF lo, hi
  <2> QED
    BY <1>3, ExecutableOnList, ExecutableOnKey
<1>5. r.log = <<>> \/ r.log = <<c>> \/ r.log = <<del>>
  BY DEF LTrim, Result
<1> HIDE DEF r, c, del
<1> QED
  BY <1>2, <1>4, <1>5, SoundAt DEF r

(* Rename is sound.                                                         *)
LEMMA RenameSound ==
    ASSUME NEW d \in Data, NEW t \in Nat, NEW db \in Db, NEW old \in Key, NEW new \in Key
    PROVE  Sound(Rename(d, t, db, old, new))
<1> DEFINE R == Rename(d, t, db, old, new)
           c == <<"RENAME", db, old, new>>
<1>1. R.data \in Data
  BY RenameType
<1>2. R.log = <<>> \/ R.log = <<c>>
  BY DEF Rename, Outcome
<1>3. Executable(c)
  BY ExecutableOnDb
<1> HIDE DEF R, c
<1> QED
  BY <1>1, <1>2, <1>3, SoundLog DEF R

(* Flush is sound.                                                          *)
LEMMA FlushSound ==
    ASSUME NEW d \in Data, NEW db \in Db
    PROVE  Sound(FlushDb(d, db)) /\ Sound(FlushAll(d))
<1> DEFINE b == <<"FLUSHDB", db>>
           c == <<"FLUSHALL">>
<1>1. FlushDb(d, db).data \in Data /\ FlushAll(d).data \in Data
  BY FlushType
<1>2. FlushDb(d, db).log = <<b>> /\ FlushAll(d).log = <<c>>
  BY DEF FlushDb, FlushAll, Outcome
<1>3. Executable(b) /\ Executable(c)
  BY ExecutableOnDb
<1> HIDE DEF b, c
<1> QED
  BY <1>1, <1>2, <1>3, SoundLog

(* FlushAll is sound.                                                       *)
LEMMA FlushAllSound == ASSUME NEW d \in Data PROVE Sound(FlushAll(d))
<1> DEFINE c == <<"FLUSHALL">>
<1>1. FlushAll(d).data \in Data /\ FlushAll(d).log = <<c>>
  BY EmptyType DEF FlushAll, Outcome
<1>2. Executable(c)
  BY EmptyType DEF Executable, dispatchAOF, FlushAll, Outcome
<1> HIDE DEF c
<1> QED
  BY <1>1, <1>2, SoundLog

(* SET without options has options.                                         *)
LEMMA NoOptionType == NoOption \in Options
BY DEF NoOption, Options

-----------------------------------------------------------------------------
(* No hash is empty.  Full is kept by every method, key by key.             *)
Full(e)    == e.type = "hash" => Fields(e.hash) # {}
AllFull(d) == \A db \in Db, k \in Key : Full(d[db][k])

(* Replacing one entry by a full one.                                       *)
LEMMA FullAt ==
    ASSUME NEW d \in Data, AllFull(d), NEW db \in Db, NEW k \in Key, NEW r, Full(r.value)
    PROVE  AllFull(At(d, db, k, r).data)
BY DEF AllFull, At, Outcome, Put, Data

(* Only HSET and HDEL touch the fields of a hash.                           *)
LEMMA HSetFull ==
    ASSUME NEW e \in Entry, Full(e), NEW t \in Nat, NEW db, NEW k, NEW fv \in HashData \ {NoFields}
    PROVE  Full(HSet(e, t, db, k, fv).value)
<1> DEFINE old  == IF Live(e, t) THEN e ELSE NewHashValue(NoFields)
           new  == [f \in Field |-> IF fv[f] # NoStr THEN fv[f] ELSE old.hash[f]]
<1>1. old \in Entry
  BY NewValueType, NoFieldsType
<1>2. PICK f \in Field : fv[f] # NoStr
  BY DEF HashData, NoFields
<1>3. Fields(new) # {}
  BY <1>2 DEF Fields
<1>4. Full([old EXCEPT !.hash = new])
  <2> HIDE DEF old, new
  <2>1. [old EXCEPT !.hash = new].hash = new
    BY <1>1 DEF Entry
  <2> QED
    BY <1>3, <2>1 DEF Full
<1> QED
  BY <1>4 DEF HSet, Result

(* HDel leaves a full entry, or none.                                       *)
LEMMA HDelFull ==
    ASSUME NEW e \in Entry, Full(e), NEW t \in Nat, NEW db, NEW k, NEW fs
    PROVE  Full(HDel(e, t, db, k, fs).value)
<1> DEFINE left == [f \in Field |-> IF f \in fs THEN NoStr ELSE e.hash[f]]
<1>1. left # NoFields => Full([e EXCEPT !.hash = left])
  <2> HIDE DEF left
  <2>1. [e EXCEPT !.hash = left].hash = left
    BY DEF Entry
  <2>2. ASSUME left # NoFields PROVE Fields(left) # {}
    BY <2>2 DEF left, Fields, NoFields
  <2> QED
    BY <2>1, <2>2 DEF Full
<1>2. Full(Missing)
  BY DEF Full, Missing
<1> QED
  BY <1>1, <1>2 DEF HDel, Result

(* The other methods leave full entries full.                               *)
LEMMA OthersFull ==
    ASSUME NEW e \in Entry, Full(e), NEW t \in Nat, NEW db, NEW k
    PROVE  /\ \A v \in Str : \A o : Full(Set(e, t, db, k, v, o).value)
           /\ Full(Del(e, db, k).value)
           /\ \A secs : Full(Expire(e, t, db, k, secs).value)
           /\ Full(Incr(e, db, k).value) /\ Full(Decr(e, db, k).value)
           /\ \A vals : Full(LPush(e, db, k, vals).value) /\ Full(RPush(e, db, k, vals).value)
           /\ \A count : Full(LPop(e, t, db, k, count).value) /\ Full(RPop(e, t, db, k, count).value)
           /\ \A start, stop : Full(LTrim(e, t, db, k, start, stop).value)
<1>1. Full(Missing)
  BY DEF Full, Missing
<1>2. \A v \in Str : NewStringValue(v) \in Entry /\ NewStringValue(v).type = "string"
  BY NewValueType DEF NewStringValue, Missing
<1>3. \A v \in Str : \A o : Full(Set(e, t, db, k, v, o).value)
  BY <1>2 DEF Set, Result, Full, Entry
<1>4. Full(Del(e, db, k).value)
  BY <1>1 DEF Del, Result
<1>5. \A secs : Full(Expire(e, t, db, k, secs).value)
  BY DEF Expire, Result, Full, Entry
<1>6. Full(Incr(e, db, k).value) /\ Full(Decr(e, db, k).value)
  <2>1. ASSUME NEW cur \in Entry, cur.type = "string", NEW n PROVE Full([cur EXCEPT !.str = n])
    BY <2>1 DEF Full, Entry
  <2>2. NewStringValue(0) \in Entry
    BY <1>2, IntsFacts
  <2> QED
    BY <2>1, <2>2 DEF Incr, Decr, AddInt, Result
<1>7. \A vals : Full(LPush(e, db, k, vals).value) /\ Full(RPush(e, db, k, vals).value)
  BY DEF LPush, RPush, Result, Full, Entry
<1>8. \A count : Full(LPop(e, t, db, k, count).value) /\ Full(RPop(e, t, db, k, count).value)
  BY DEF LPop, RPop, Result, Full, Entry
<1>9. \A start, stop : Full(LTrim(e, t, db, k, start, stop).value)
  BY <1>1 DEF LTrim, Result, Full, Entry
<1> QED
  BY <1>3, <1>4, <1>5, <1>6, <1>7, <1>8, <1>9

(* Rename and FlushDb keep all entries full.                                *)
LEMMA DbsFull ==
    ASSUME NEW d \in Data, AllFull(d), NEW t \in Nat, NEW db \in Db
    PROVE  /\ \A old \in Key, new \in Key : AllFull(Rename(d, t, db, old, new).data)
           /\ AllFull(FlushDb(d, db).data)
<1>1. Full(Missing)
  BY DEF Full, Missing
<1> QED
  BY <1>1 DEF AllFull, Rename, FlushDb, Empty, Outcome, Data

(* Empty databases hold no empty hash.                                      *)
LEMMA EmptyFull == AllFull([db \in Db |-> Empty])
BY DEF AllFull, Full, Empty, Missing

-----------------------------------------------------------------------------
(* Methods that are given no deadline leave none.                           *)
Lasting(e)    == e.exp = Never
AllLasting(d) == \A db \in Db, k \in Key : Lasting(d[db][k])

(* Replacing one entry by a lasting one.                                    *)
LEMMA LastingAt ==
    ASSUME NEW d \in Data, AllLasting(d), NEW db \in Db, NEW k \in Key, NEW r, Lasting(r.value)
    PROVE  AllLasting(At(d, db, k, r).data)
BY DEF AllLasting, At, Outcome, Put, Data

(* Without EX, PX and EXPIRE a method leaves lasting entries lasting.       *)
LEMMA KeysLasting ==
    ASSUME NEW e \in Entry, Lasting(e), NEW t \in Nat, NEW db, NEW k
    PROVE  /\ \A v \in Str, o \in Options :
                 o.ex <= 0 /\ o.px <= 0 => Lasting(Set(e, t, db, k, v, o).value)
           /\ Lasting(Del(e, db, k).value)
           /\ Lasting(Incr(e, db, k).value) /\ Lasting(Decr(e, db, k).value)
           /\ \A vals : Lasting(LPush(e, db, k, vals).value) /\ Lasting(RPush(e, db, k, vals).value)
           /\ \A count : Lasting(LPop(e, t, db, k, count).value) /\ Lasting(RPop(e, t, db, k, count).value)
           /\ \A start, stop : Lasting(LTrim(e, t, db, k, start, stop).value)
           /\ \A fv : Lasting(HSet(e, t, db, k, fv).value)
           /\ \A fs : Lasting(HDel(e, t, db, k, fs).value)
<1>1. Lasting(Missing)
  BY DEF Lasting, Missing
<1>2. \A v \in Str : NewStringValue(v) \in Entry /\ Lasting(NewStringValue(v))
  BY NewValueType DEF NewStringValue, Missing, Lasting
<1>3. \A v \in Str, o \in Options : o.ex <= 0 /\ o.px <= 0 => Lasting(Set(e, t, db, k, v, o).value)
  BY <1>2 DEF Set, Result, Options
<1>4. Lasting(Del(e, db, k).value)
  BY <1>1 DEF Del, Result
<1>5. Lasting(Incr(e, db, k).value) /\ Lasting(Decr(e, db, k).value)
  <2>1. ASSUME NEW cur \in Entry, Lasting(cur), NEW n PROVE Lasting([cur EXCEPT !.str = n])
    BY <2>1 DEF Lasting, Entry
  <2>2. NewStringValue(0) \in Entry /\ Lasting(NewStringValue(0))
    BY <1>2, IntsFacts
  <2> QED
    BY <2>1, <2>2 DEF Incr, Decr, AddInt, Result
<1>6. \A vals : Lasting(LPush(e, db, k, vals).value) /\ Lasting(RPush(e, db, k, vals).value)
  BY DEF LPush, RPush, Result, Lasting, Entry
<1>7. \A count : Lasting(LPop(e, t, db, k, count).value) /\ Lasting(RPop(e, t, db, k, count).value)
  BY DEF LPop, RPop, Result, Lasting, Entry
<1>8. \A start, stop : Lasting(LTrim(e, t, db, k, start, stop).value)
  BY <1>1 DEF LTrim, Result, Lasting, Entry
<1>9. \A fv : Lasting(HSet(e, t, db, k, fv).value)
  <2>1. NewHashValue(NoFields) \in Entry /\ Lasting(NewHashValue(NoFields))
    BY NewValueType, NoFieldsType DEF NewHashValue, Missing, Lasting
  <2>2. ASSUME NEW old \in Entry, Lasting(old), NEW h PROVE Lasting([old EXCEPT !.hash = h])
    BY <2>2 DEF Lasting, Entry
  <2> QED
    BY <2>1, <2>2 DEF HSet, Result
<1>10. \A fs : Lasting(HDel(e, t, db, k, fs).value)
  <2>1. ASSUME NEW h PROVE Lasting([e EXCEPT !.hash = h])
    BY DEF Lasting, Entry
  <2> QED
    BY <1>1, <2>1 DEF HDel, Result
<1> QED
  BY <1>3, <1>4, <1>5, <1>6, <1>7, <1>8, <1>9, <1>10

(* Rename and FlushDb keep all entries lasting.                             *)
LEMMA DbsLasting ==
    ASSUME NEW d \in Data, AllLasting(d), NEW t \in Nat, NEW db \in Db
    PROVE  /\ \A old \in Key, new \in Key : AllLasting(Rename(d, t, db, old, new).data)
           /\ AllLasting(FlushDb(d, db).data)
<1>1. Lasting(Missing)
  BY DEF Lasting, Missing
<1> QED
  BY <1>1 DEF AllLasting, Rename, FlushDb, Empty, Outcome, Data

(* Empty databases hold no deadline.                                        *)
LEMMA EmptyLasting == AllLasting([db \in Db |-> Empty])
BY DEF AllLasting, Lasting, Empty, Missing

-----------------------------------------------------------------------------
(* A key that is not there has no deadline, so a deadline that has passed   *)
(* is that of a value, and the value is still there.                        *)
Bare(e)    == e.type = "none" => e.exp = Never
AllBare(d) == \A db \in Db, k \in Key : Bare(d[db][k])

(* Replacing one entry by a bare one.                                       *)
LEMMA BareAt ==
    ASSUME NEW d \in Data, AllBare(d), NEW db \in Db, NEW k \in Key, NEW r, Bare(r.value)
    PROVE  AllBare(At(d, db, k, r).data)
BY DEF AllBare, At, Outcome, Put, Data

(* Every method leaves a value, or nothing at all.                          *)
LEMMA KeysBare ==
    ASSUME NEW e \in Entry, Bare(e), NEW t \in Nat, NEW db, NEW k
    PROVE  /\ \A v \in Str : \A o : Bare(Set(e, t, db, k, v, o).value)
           /\ Bare(Del(e, db, k).value)
           /\ \A secs : Bare(Expire(e, t, db, k, secs).value)
           /\ Bare(Incr(e, db, k).value) /\ Bare(Decr(e, db, k).value)
           /\ \A vals : Bare(LPush(e, db, k, vals).value) /\ Bare(RPush(e, db, k, vals).value)
           /\ \A count : Bare(LPop(e, t, db, k, count).value) /\ Bare(RPop(e, t, db, k, count).value)
           /\ \A start, stop : Bare(LTrim(e, t, db, k, start, stop).value)
           /\ \A fv : Bare(HSet(e, t, db, k, fv).value)
           /\ \A fs : Bare(HDel(e, t, db, k, fs).value)
<1>1. Bare(Missing)
  BY DEF Bare, Missing
<1>2. \A v \in Str : NewStringValue(v) \in Entry /\ NewStringValue(v).type = "string"
  <2>1. \A v \in Str : NewStringValue(v).type = "string"
    BY DEF NewStringValue, Missing
  <2> QED
    BY <2>1, NewValueType
<1>3. \A v \in Str : \A o : Bare(Set(e, t, db, k, v, o).value)
  BY <1>2 DEF Set, Result, Bare, Entry
<1>4. Bare(Del(e, db, k).value)
  BY <1>1 DEF Del, Result
<1>5. \A secs : Bare(Expire(e, t, db, k, secs).value)
  BY DEF Expire, Result, Bare, Entry, Present
<1>6. Bare(Incr(e, db, k).value) /\ Bare(Decr(e, db, k).value)
  <2>1. ASSUME NEW cur \in Entry, cur.type = "string", NEW n PROVE Bare([cur EXCEPT !.str = n])
    BY <2>1 DEF Bare, Entry
  <2>2. NewStringValue(0) \in Entry
    BY <1>2, IntsFacts
  <2> QED
    BY <2>1, <2>2 DEF Incr, Decr, AddInt, Result
<1>7. \A vals : Bare(LPush(e, db, k, vals).value) /\ Bare(RPush(e, db, k, vals).value)
  BY DEF LPush, RPush, Result, Bare, Entry
<1>8. \A count : Bare(LPop(e, t, db, k, count).value) /\ Bare(RPop(e, t, db, k, count).value)
  BY DEF LPop, RPop, Result, Bare, Entry
<1>9. \A start, stop : Bare(LTrim(e, t, db, k, start, stop).value)
  BY <1>1 DEF LTrim, Result, Bare, Entry
<1>10. \A fv : Bare(HSet(e, t, db, k, fv).value)
  <2>1. NewHashValue(NoFields) \in Entry
    BY NewValueType, NoFieldsType
  <2>2. ASSUME NEW old \in Entry, old.type = "hash", NEW h PROVE Bare([old EXCEPT !.hash = h])
    BY <2>2 DEF Bare, Entry
  <2> QED
    BY <2>1, <2>2 DEF HSet, Result
<1>11. \A fs : Bare(HDel(e, t, db, k, fs).value)
  <2>1. ASSUME NEW h PROVE Bare([e EXCEPT !.hash = h])
    BY DEF Bare, Entry
  <2> QED
    BY <1>1, <2>1 DEF HDel, Result
<1> QED
  BY <1>3, <1>4, <1>5, <1>6, <1>7, <1>8, <1>9, <1>10, <1>11

(* Rename and FlushDb keep all entries bare.                                *)
LEMMA DbsBare ==
    ASSUME NEW d \in Data, AllBare(d), NEW t \in Nat, NEW db \in Db
    PROVE  /\ \A old \in Key, new \in Key : AllBare(Rename(d, t, db, old, new).data)
           /\ AllBare(FlushDb(d, db).data)
<1>1. Bare(Missing)
  BY DEF Bare, Missing
<1> QED
  BY <1>1 DEF AllBare, Rename, FlushDb, Empty, Outcome, Data

(* Empty databases hold no deadline of a key that is not there.             *)
LEMMA EmptyBare == AllBare([db \in Db |-> Empty])
BY DEF AllBare, Bare, Empty, Missing

(* No method that works on the value under an expired key brings it back.   *)
LEMMA KeysStayGone ==
    ASSUME NEW e \in Entry, Bare(e), NEW t \in Nat, IsExpired(e, t), NEW db, NEW k
    PROVE  /\ ~Live(Del(e, db, k).value, t)
           /\ ~Live(Incr(e, db, k).value, t) /\ ~Live(Decr(e, db, k).value, t)
           /\ \A vals : ~Live(LPush(e, db, k, vals).value, t) /\ ~Live(RPush(e, db, k, vals).value, t)
           /\ \A count : ~Live(LPop(e, t, db, k, count).value, t) /\ ~Live(RPop(e, t, db, k, count).value, t)
           /\ \A start, stop : ~Live(LTrim(e, t, db, k, start, stop).value, t)
           /\ \A fs : ~Live(HDel(e, t, db, k, fs).value, t)
<1>1. Present(e) /\ ~Live(e, t) /\ ~Live(Missing, t)
  BY DEF Bare, IsExpired, Present, Live, Missing
<1>2. ~Live(Del(e, db, k).value, t)
  BY <1>1 DEF Del, Result
<1>3. ~Live(Incr(e, db, k).value, t) /\ ~Live(Decr(e, db, k).value, t)
  <2>1. \A n : ~Live([e EXCEPT !.str = n], t)
    BY <1>1 DEF Live, Present, IsExpired, Entry
  <2> QED
    BY <1>1, <2>1 DEF Incr, Decr, AddInt, Result
<1>4. \A vals : ~Live(LPush(e, db, k, vals).value, t) /\ ~Live(RPush(e, db, k, vals).value, t)
  BY <1>1 DEF LPush, RPush, Result, Live, Present, IsExpired, Entry
<1>5. \A count : ~Live(LPop(e, t, db, k, count).value, t) /\ ~Live(RPop(e, t, db, k, count).value, t)
  BY <1>1 DEF LPop, RPop, PopRefused, Result
<1>6. \A start, stop : ~Live(LTrim(e, t, db, k, start, stop).value, t)
  BY <1>1 DEF LTrim, Result
<1>7. \A fs : ~Live(HDel(e, t, db, k, fs).value, t)
  BY <1>1 DEF HDel, Result
<1> QED
  BY <1>2, <1>3, <1>4, <1>5, <1>6, <1>7

(* HSET does, with a hash of its own.                                       *)
LEMMA HSetStartsAnew ==
    ASSUME NEW e \in Entry, NEW t \in Nat, IsExpired(e, t), NEW db, NEW k, NEW fv \in HashData
    PROVE  HSet(e, t, db, k, fv).value.hash = fv
<1> DEFINE old == NewHashValue(NoFields)
           new == [f \in Field |-> IF fv[f] # NoStr THEN fv[f] ELSE old.hash[f]]
<1>1. ~Live(e, t)
  BY DEF Live
<1>2. old \in Entry /\ old.type = "hash" /\ old.hash = NoFields
  <2>1. old.type = "hash" /\ old.hash = NoFields
    BY DEF NewHashValue, Missing
  <2> QED
    BY <2>1, NewValueType, NoFieldsType
<1>3. new = fv
  BY <1>2 DEF NoFields, HashData
<1>4. HSet(e, t, db, k, fv).value = [old EXCEPT !.hash = new]
  BY <1>1, <1>2 DEF HSet, Result
<1> HIDE DEF old, new
<1> QED
  BY <1>2, <1>3, <1>4 DEF Entry
=============================================================================
