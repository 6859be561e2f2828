---------------------------- MODULE StoreProofs ----------------------------
(* Theorems about Store for every value of its constants.                   *)
EXTENDS Store, StoreOpsProofs, FiniteSetTheorems, SequenceTheorems

-----------------------------------------------------------------------------
(* The count arguments of an instance are counts.                           *)
LEMMA CountsAreArgs == Counts \subseteq CountArg
BY ArgsAssumption DEF CountArg

-----------------------------------------------------------------------------
(* A sound outcome keeps the types of the variables it changes.             *)
LEMMA ApplyType ==
    ASSUME TypeOK, NEW r, Sound(r), NEW won, Apply(r, won)
    PROVE  data' \in Data /\ now' \in Nat /\ follower' \in Data /\ grants' \in [Db -> [Key -> Nat]]
<1>1. data' \in Data /\ follower' \in Data /\ now' \in Nat
  BY DEF Apply, Sound, TypeOK
<1>2. ASSUME NEW db \in Db, NEW k \in Key
      PROVE  (IF Live(r.data[db][k], now) THEN grants[db][k] + Count1(won, db, k) ELSE 0) \in Nat
  BY DEF Count1, TypeOK
<1>3. grants' \in [Db -> [Key -> Nat]]
  BY <1>2 DEF Apply
<1> QED
  BY <1>1, <1>3

(* A sound critical section keeps all types.                                *)
LEMMA DoType ==
    ASSUME TypeOK, NEW r, Sound(r), Do(r)
    PROVE  TypeOK'
BY ApplyType DEF Do, TypeOK

(* A call on one key by any of the methods keeps the types.                 *)
LEMMA KeyOpType ==
    ASSUME TypeOK, NEW db \in Db, NEW k \in Key, KeyOp(db, k)
    PROVE  TypeOK'
<1>1. data \in Data /\ now \in Nat
  BY DEF TypeOK
<1>2. ASSUME NEW v \in Writes, NEW o \in OptionSets, DoSet(db, k, v, o) PROVE TypeOK'
  <2> DEFINE R == At(data, db, k, Set(data[db][k], now, db, k, v, o))
  <2>1. Sound(R)
    BY <1>1, ArgsAssumption, SetSound
  <2>2. PICK won : Apply(R, won) /\ UNCHANGED setting
    BY <1>2 DEF DoSet
  <2> HIDE DEF R
  <2> QED
    BY <2>1, <2>2, ApplyType DEF TypeOK
<1>3. ASSUME NEW c \in Client, NEW v \in Writes, SetNXCheck(c, db, k, v) PROVE TypeOK'
  BY <1>3, ArgsAssumption DEF SetNXCheck, TypeOK
<1>4. CASE DoDel(db, k)
  BY <1>1, <1>4, DelSound, DoType DEF DoDel, On
<1>5. ASSUME NEW secs \in TTLs, DoExpire(db, k, secs) PROVE TypeOK'
  BY <1>1, <1>5, ArgsAssumption, ExpireSound, DoType DEF DoExpire, On
<1>6. CASE DoIncr(db, k)
  BY <1>1, <1>6, IncrSound, DoType DEF DoIncr, On
<1>7. CASE DoDecr(db, k)
  BY <1>1, <1>7, DecrSound, DoType DEF DoDecr, On
<1>8. ASSUME NEW vals \in Pushes, DoLPush(db, k, vals) PROVE TypeOK'
  BY <1>1, <1>8, ArgsAssumption, LPushSound, DoType DEF DoLPush, On
<1>9. ASSUME NEW vals \in Pushes, DoRPush(db, k, vals) PROVE TypeOK'
  BY <1>1, <1>9, ArgsAssumption, RPushSound, DoType DEF DoRPush, On
<1>10. ASSUME NEW count \in Counts, DoLPop(db, k, count) PROVE TypeOK'
  BY <1>1, <1>10, CountsAreArgs, LPopSound, DoType DEF DoLPop, On
<1>11. ASSUME NEW count \in Counts, DoRPop(db, k, count) PROVE TypeOK'
  BY <1>1, <1>11, CountsAreArgs, RPopSound, DoType DEF DoRPop, On
<1>12. ASSUME NEW w \in Windows, DoLTrim(db, k, w) PROVE TypeOK'
  BY <1>1, <1>12, ArgsAssumption, LTrimSound, DoType DEF DoLTrim, On
<1>13. ASSUME NEW fv \in FieldMaps, DoHSet(db, k, fv) PROVE TypeOK'
  BY <1>1, <1>13, ArgsAssumption, HSetSound, DoType DEF DoHSet, On
<1>14. ASSUME NEW fs \in FieldSets, DoHDel(db, k, fs) PROVE TypeOK'
  BY <1>1, <1>14, ArgsAssumption, HDelSound, DoType DEF DoHDel, On
<1>15. ASSUME NEW new \in Key, DoRename(db, k, new) PROVE TypeOK'
  BY <1>1, <1>15, RenameSound, DoType DEF DoRename
<1> QED
  BY <1>2, <1>3, <1>4, <1>5, <1>6, <1>7, <1>8, <1>9, <1>10, <1>11, <1>12, <1>13, <1>14, <1>15 DEF KeyOp

(* The types of Store hold in every reachable state, for every choice of    *)
(* keys, values, arguments and clients.                                     *)
THEOREM Typing == Spec => []TypeOK
<1>1. Init => TypeOK
  BY EmptyType DEF Init, TypeOK
<1>2. TypeOK /\ [Next]_vars => TypeOK'
  <2> SUFFICES ASSUME TypeOK, [Next]_vars PROVE TypeOK'
    OBVIOUS
  <2>1. ASSUME NEW db \in Db, NEW k \in Key, KeyOp(db, k) PROVE TypeOK'
    BY <2>1, KeyOpType
  <2>2. ASSUME NEW c \in Client, SetNXSet(c) PROVE TypeOK'
    <3> DEFINE db == setting[c][1]
               k  == setting[c][2]
               v  == setting[c][3]
               R  == At(data, db, k, Set(data[db][k], now, db, k, v, NoOption))
    <3>1. db \in Db /\ k \in Key /\ v \in Str
      BY <2>2 DEF SetNXSet, TypeOK, Idle
    <3>2. Sound(R)
      BY <3>1, SetSound, NoOptionType DEF TypeOK
    <3>3. PICK won : Apply(R, won)
      BY <2>2 DEF SetNXSet
    <3>4. setting' \in [Client -> {Idle} \cup (Db \X Key \X Str)]
      BY <2>2 DEF SetNXSet, TypeOK
    <3> HIDE DEF R
    <3> QED
      BY <3>2, <3>3, <3>4, ApplyType DEF TypeOK
  <2>3. ASSUME NEW db \in Db, DoFlushDb(db) PROVE TypeOK'
    BY <2>3, FlushSound, DoType DEF DoFlushDb, TypeOK
  <2>4. CASE DoFlushAll
    <3>1. Sound(FlushAll(data))
      BY FlushAllSound DEF TypeOK
    <3> QED
      BY <2>4, <3>1, DoType DEF DoFlushAll
  <2>5. CASE Tick
    BY <2>5 DEF Tick, TypeOK
  <2>6. CASE UNCHANGED vars
    BY <2>6 DEF vars, TypeOK
  <2> QED
    BY <2>1, <2>2, <2>3, <2>4, <2>5, <2>6 DEF Next
<1> QED
  BY <1>1, <1>2, PTL DEF Spec

-----------------------------------------------------------------------------
(* No hash is empty.                                                        *)

(* AllFull is NoEmptyHash, as a predicate of the data.                      *)
LEMMA NoEmptyHashIsAllFull == NoEmptyHash <=> AllFull(data)
BY DEF NoEmptyHash, AllFull, Full

(* A critical section on one key keeps all entries full.                    *)
LEMMA OnFull ==
    ASSUME data \in Data, AllFull(data), NEW db \in Db, NEW k \in Key, NEW r, Full(r.value), NEW won,
           Apply(At(data, db, k, r), won)
    PROVE  AllFull(data')
BY FullAt DEF Apply

(* A call on one key keeps all entries full.                                *)
LEMMA KeyOpFull ==
    ASSUME TypeOK, AllFull(data), NEW db \in Db, NEW k \in Key, KeyOp(db, k)
    PROVE  AllFull(data')
<1> DEFINE e == data[db][k]
<1>1. data \in Data /\ now \in Nat /\ e \in Entry /\ Full(e)
  BY DEF TypeOK, Data, AllFull
<1>2. ASSUME NEW r, Full(r.value), On(db, k, r) PROVE AllFull(data')
  BY <1>1, <1>2, OnFull DEF On, Do
<1> HIDE DEF e
<1>3. ASSUME NEW v \in Writes, NEW o \in OptionSets, DoSet(db, k, v, o) PROVE AllFull(data')
  <2>1. Full(Set(e, now, db, k, v, o).value)
    BY <1>1, ArgsAssumption, OthersFull
  <2> QED
    BY <1>1, <1>3, <2>1, OnFull DEF DoSet, e
<1>4. ASSUME NEW c \in Client, NEW v \in Writes, SetNXCheck(c, db, k, v) PROVE AllFull(data')
  BY <1>4 DEF SetNXCheck
<1>5. DoDel(db, k) \/ DoIncr(db, k) \/ DoDecr(db, k) => AllFull(data')
  BY <1>1, <1>2, OthersFull DEF DoDel, DoIncr, DoDecr, e
<1>6. ASSUME NEW secs \in TTLs, DoExpire(db, k, secs) PROVE AllFull(data')
  BY <1>1, <1>2, <1>6, OthersFull DEF DoExpire, e
<1>7. ASSUME NEW vals \in Pushes, DoLPush(db, k, vals) \/ DoRPush(db, k, vals) PROVE AllFull(data')
  BY <1>1, <1>2, <1>7, OthersFull DEF DoLPush, DoRPush, e
<1>8. ASSUME NEW count \in Counts, DoLPop(db, k, count) \/ DoRPop(db, k, count) PROVE AllFull(data')
  BY <1>1, <1>2, <1>8, OthersFull DEF DoLPop, DoRPop, e
<1>9. ASSUME NEW w \in Windows, DoLTrim(db, k, w) PROVE AllFull(data')
  BY <1>1, <1>2, <1>9, OthersFull DEF DoLTrim, e
<1>10. ASSUME NEW fv \in FieldMaps, DoHSet(db, k, fv) PROVE AllFull(data')
  BY <1>1, <1>2, <1>10, ArgsAssumption, HSetFull DEF DoHSet, e
<1>11. ASSUME NEW fs \in FieldSets, DoHDel(db, k, fs) PROVE AllFull(data')
  BY <1>1, <1>2, <1>11, HDelFull DEF DoHDel, e
<1>12. ASSUME NEW new \in Key, DoRename(db, k, new) PROVE AllFull(data')
  BY <1>1, <1>12, DbsFull DEF DoRename, Do, Apply
<1> QED
  BY <1>3, <1>4, <1>5, <1>6, <1>7, <1>8, <1>9, <1>10, <1>11, <1>12 DEF KeyOp

(* HDEL removes a hash together with its last field: no reachable state     *)
(* holds an empty hash.                                                     *)
THEOREM HashesNeverEmpty == Spec => []NoEmptyHash
<1>1. Init => AllFull(data)
  BY EmptyFull DEF Init
<1>2. TypeOK /\ AllFull(data) /\ [Next]_vars => AllFull(data)'
  <2> SUFFICES ASSUME TypeOK, AllFull(data), [Next]_vars PROVE AllFull(data)'
    OBVIOUS
  <2>1. ASSUME NEW db \in Db, NEW k \in Key, KeyOp(db, k) PROVE AllFull(data)'
    <3>1. AllFull(data')
      BY <2>1, KeyOpFull
    <3> QED
      BY <3>1
  <2>2. ASSUME NEW c \in Client, SetNXSet(c) PROVE AllFull(data)'
    <3> DEFINE db == setting[c][1]
               k  == setting[c][2]
               r  == Set(data[db][k], now, db, k, setting[c][3], NoOption)
    <3>1. db \in Db /\ k \in Key /\ setting[c][3] \in Str
      BY <2>2 DEF SetNXSet, TypeOK, Idle
    <3>2. data[db][k] \in Entry /\ Full(data[db][k]) /\ data \in Data /\ now \in Nat
      BY <3>1 DEF TypeOK, Data, AllFull
    <3>3. Full(r.value)
      BY <3>1, <3>2, OthersFull
    <3>4. PICK won : Apply(At(data, db, k, r), won)
      BY <2>2 DEF SetNXSet
    <3> HIDE DEF r, db, k
    <3>5. AllFull(data')
      BY <3>1, <3>2, <3>3, <3>4, OnFull
    <3> QED
      BY <3>5
  <2>3. ASSUME NEW db \in Db, DoFlushDb(db) PROVE AllFull(data)'
    BY <2>3, DbsFull DEF DoFlushDb, Do, Apply, TypeOK
  <2>4. CASE DoFlushAll
    BY <2>4, EmptyFull DEF DoFlushAll, Do, Apply, FlushAll, Outcome
  <2>5. CASE Tick
    BY <2>5 DEF Tick
  <2>6. CASE UNCHANGED vars
    BY <2>6 DEF vars
  <2> QED
    BY <2>1, <2>2, <2>3, <2>4, <2>5, <2>6 DEF Next
<1>3. AllFull(data) => NoEmptyHash
  BY NoEmptyHashIsAllFull
<1> QED
  BY <1>1, <1>2, <1>3, Typing, PTL DEF Spec

-----------------------------------------------------------------------------
(* An instance whose clients never give a key a deadline never has one.     *)
NoExpiry == TTLs = {} /\ \A o \in OptionSets : o.ex <= 0 /\ o.px <= 0
(* A critical section on one key keeps all entries lasting.                 *)
LEMMA OnLasting ==
    ASSUME data \in Data, AllLasting(data), NEW db \in Db, NEW k \in Key, NEW r, Lasting(r.value), NEW won,
           Apply(At(data, db, k, r), won)
    PROVE  AllLasting(data')
BY LastingAt DEF Apply

(* A call on one key sets no deadline.                                      *)
LEMMA KeyOpLasting ==
    ASSUME NoExpiry, TypeOK, AllLasting(data), NEW db \in Db, NEW k \in Key, KeyOp(db, k)
    PROVE  AllLasting(data')
<1> DEFINE e == data[db][k]
<1>1. data \in Data /\ now \in Nat /\ e \in Entry /\ Lasting(e)
  BY DEF TypeOK, Data, AllLasting
<1>2. ASSUME NEW r, Lasting(r.value), On(db, k, r) PROVE AllLasting(data')
  BY <1>1, <1>2, OnLasting DEF On, Do
<1> HIDE DEF e
<1>3. ASSUME NEW v \in Writes, NEW o \in OptionSets, DoSet(db, k, v, o) PROVE AllLasting(data')
  <2>1. Lasting(Set(e, now, db, k, v, o).value)
    BY <1>1, ArgsAssumption, KeysLasting DEF NoExpiry
  <2> QED
    BY <1>1, <1>3, <2>1, OnLasting DEF DoSet, e
<1>4. ASSUME NEW c \in Client, NEW v \in Writes, SetNXCheck(c, db, k, v) PROVE AllLasting(data')
  BY <1>4 DEF SetNXCheck
<1>5. DoDel(db, k) \/ DoIncr(db, k) \/ DoDecr(db, k) => AllLasting(data')
  BY <1>1, <1>2, KeysLasting DEF DoDel, DoIncr, DoDecr, e
<1>6. ASSUME NEW vals \in Pushes, DoLPush(db, k, vals) \/ DoRPush(db, k, vals) PROVE AllLasting(data')
  BY <1>1, <1>2, <1>6, KeysLasting DEF DoLPush, DoRPush, e
<1>7. ASSUME NEW count \in Counts, DoLPop(db, k, count) \/ DoRPop(db, k, count) PROVE AllLasting(data')
  BY <1>1, <1>2, <1>7, KeysLasting DEF DoLPop, DoRPop, e
<1>8. ASSUME NEW w \in Windows, DoLTrim(db, k, w) PROVE AllLasting(data')
  BY <1>1, <1>2, <1>8, KeysLasting DEF DoLTrim, e
<1>9. ASSUME NEW fv \in FieldMaps, DoHSet(db, k, fv) PROVE AllLasting(data')
  BY <1>1, <1>2, <1>9, KeysLasting DEF DoHSet, e
<1>10. ASSUME NEW fs \in FieldSets, DoHDel(db, k, fs) PROVE AllLasting(data')
  BY <1>1, <1>2, <1>10, KeysLasting DEF DoHDel, e
<1>11. ASSUME NEW new \in Key, DoRename(db, k, new) PROVE AllLasting(data')
  BY <1>1, <1>11, DbsLasting DEF DoRename, Do, Apply
<1>12. TTLs = {}
  BY DEF NoExpiry
<1> QED
  BY <1>3, <1>4, <1>5, <1>6, <1>7, <1>8, <1>9, <1>10, <1>11, <1>12 DEF KeyOp

(* No key ever gets a deadline.                                             *)
LEMMA StayLasting == NoExpiry => (Spec => []AllLasting(data))
<1> SUFFICES ASSUME NoExpiry PROVE Spec => []AllLasting(data)
  OBVIOUS
<1>1. Init => AllLasting(data)
  BY EmptyLasting DEF Init
<1>2. TypeOK /\ AllLasting(data) /\ [Next]_vars => AllLasting(data)'
  <2> SUFFICES ASSUME TypeOK, AllLasting(data), [Next]_vars PROVE AllLasting(data)'
    OBVIOUS
  <2>1. ASSUME NEW db \in Db, NEW k \in Key, KeyOp(db, k) PROVE AllLasting(data)'
    <3>1. AllLasting(data')
      BY <2>1, KeyOpLasting
    <3> QED
      BY <3>1
  <2>2. ASSUME NEW c \in Client, SetNXSet(c) PROVE AllLasting(data)'
    <3> DEFINE db == setting[c][1]
               k  == setting[c][2]
               r  == Set(data[db][k], now, db, k, setting[c][3], NoOption)
    <3>1. db \in Db /\ k \in Key /\ setting[c][3] \in Str
      BY <2>2 DEF SetNXSet, TypeOK, Idle
    <3>2. data[db][k] \in Entry /\ Lasting(data[db][k]) /\ data \in Data /\ now \in Nat
      BY <3>1 DEF TypeOK, Data, AllLasting
    <3>a. NoOption.ex <= 0 /\ NoOption.px <= 0
      BY DEF NoOption
    <3>3. Lasting(r.value)
      BY <3>1, <3>2, <3>a, NoOptionType, KeysLasting
    <3>4. PICK won : Apply(At(data, db, k, r), won)
      BY <2>2 DEF SetNXSet
    <3> HIDE DEF r, db, k
    <3>5. AllLasting(data')
      BY <3>1, <3>2, <3>3, <3>4, OnLasting
    <3> QED
      BY <3>5
  <2>3. ASSUME NEW db \in Db, DoFlushDb(db) PROVE AllLasting(data)'
    BY <2>3, DbsLasting DEF DoFlushDb, Do, Apply, TypeOK
  <2>4. CASE DoFlushAll
    BY <2>4, EmptyLasting DEF DoFlushAll, Do, Apply, FlushAll, Outcome
  <2>5. CASE Tick
    BY <2>5 DEF Tick
  <2>6. CASE UNCHANGED vars
    BY <2>6 DEF vars
  <2> QED
    BY <2>1, <2>2, <2>3, <2>4, <2>5, <2>6 DEF Next
<1> QED
  BY <1>1, <1>2, Typing, PTL DEF Spec

-----------------------------------------------------------------------------
(* The AOF redoes the store.  Two uses break it: PX with a fraction of a    *)
(* second, and HDEL of an expired key; LogsExactly rules both out.          *)
WholeSeconds == \A o \in OptionSets : o.ex <= 0 /\ o.px > 0 => o.px % Second = 0
LogsExactly  == WholeSeconds /\ ("HDEL" \in Ops => NoExpiry)

(* A critical section that its log redoes keeps the copy equal.             *)
LEMMA ApplyInSync ==
    ASSUME InSync, NEW r, Redone(r, data, now), NEW won, Apply(r, won)
    PROVE  InSync'
BY DEF InSync, Apply, Redone

(* A call on one key keeps the copy equal.                                  *)
LEMMA KeyOpInSync ==
    ASSUME LogsExactly, TypeOK, AllFull(data), NoExpiry => AllLasting(data), InSync,
           NEW db \in Db, NEW k \in Key, KeyOp(db, k)
    PROVE  InSync'
<1>1. data \in Data /\ now \in Nat
  BY DEF TypeOK
<1>2. ASSUME NEW r, Redone(At(data, db, k, r), data, now), On(db, k, r) PROVE InSync'
  BY <1>2, ApplyInSync DEF On, Do
<1>3. ASSUME NEW v \in Writes, NEW o \in OptionSets, DoSet(db, k, v, o) PROVE InSync'
  <2> DEFINE R == At(data, db, k, Set(data[db][k], now, db, k, v, o))
  <2>1. Redone(R, data, now)
    BY <1>1, ArgsAssumption, SetRedone DEF LogsExactly, WholeSeconds
  <2>2. PICK won : Apply(R, won)
    BY <1>3 DEF DoSet
  <2> HIDE DEF R
  <2> QED
    BY <2>1, <2>2, ApplyInSync
<1>4. ASSUME NEW c \in Client, NEW v \in Writes, SetNXCheck(c, db, k, v) PROVE InSync'
  BY <1>4 DEF SetNXCheck, InSync
<1>5. CASE DoDel(db, k)
  BY <1>1, <1>2, <1>5, DelRedone DEF DoDel
<1>6. ASSUME NEW secs \in TTLs, DoExpire(db, k, secs) PROVE InSync'
  BY <1>1, <1>2, <1>6, ArgsAssumption, ExpireRedone DEF DoExpire
<1>7. CASE DoIncr(db, k)
  BY <1>1, <1>2, <1>7, IncrRedone DEF DoIncr
<1>8. CASE DoDecr(db, k)
  BY <1>1, <1>2, <1>8, DecrRedone DEF DoDecr
<1>9. ASSUME NEW vals \in Pushes, DoLPush(db, k, vals) PROVE InSync'
  BY <1>1, <1>2, <1>9, LPushRedone DEF DoLPush
<1>10. ASSUME NEW vals \in Pushes, DoRPush(db, k, vals) PROVE InSync'
  BY <1>1, <1>2, <1>10, RPushRedone DEF DoRPush
<1>11. ASSUME NEW count \in Counts, DoLPop(db, k, count) PROVE InSync'
  BY <1>1, <1>2, <1>11, CountsAreArgs, LPopRedone DEF DoLPop
<1>12. ASSUME NEW count \in Counts, DoRPop(db, k, count) PROVE InSync'
  BY <1>1, <1>2, <1>12, CountsAreArgs, RPopRedone DEF DoRPop
<1>13. ASSUME NEW w \in Windows, DoLTrim(db, k, w) PROVE InSync'
  BY <1>1, <1>2, <1>13, ArgsAssumption, LTrimRedone DEF DoLTrim
<1>14. ASSUME NEW fv \in FieldMaps, DoHSet(db, k, fv) PROVE InSync'
  BY <1>1, <1>2, <1>14, HSetRedone DEF DoHSet
<1>15. ASSUME NEW fs \in FieldSets, DoHDel(db, k, fs) PROVE InSync'
  <2>1. "HDEL" \in Ops
    BY <1>15 DEF DoHDel
  <2>2. ~IsExpired(data[db][k], now)
    BY <2>1 DEF LogsExactly, AllLasting, Lasting, IsExpired
  <2>3. data[db][k].type = "hash" => Fields(data[db][k].hash) # {}
    BY DEF AllFull, Full
  <2>4. fs \in (SUBSET Field) \ {{}}
    BY ArgsAssumption
  <2> QED
    BY <1>1, <1>2, <1>15, <2>2, <2>3, <2>4, HDelRedone DEF DoHDel
<1>16. ASSUME NEW new \in Key, DoRename(db, k, new) PROVE InSync'
  BY <1>16, RenameRedone, ApplyInSync DEF DoRename, Do
<1> QED
  BY <1>3, <1>4, <1>5, <1>6, <1>7, <1>8, <1>9, <1>10, <1>11, <1>12, <1>13, <1>14, <1>15, <1>16 DEF KeyOp

(* Executing the appended AOF commands as they are appended keeps a copy    *)
(* equal to the store, whatever the clients call in whatever order, unless  *)
(* a PX deadline is not a whole number of seconds or HDEL is used together  *)
(* with deadlines.                                                          *)
THEOREM FollowerInSync == LogsExactly => (Spec => []InSync)
<1> SUFFICES ASSUME LogsExactly PROVE Spec => []InSync
  OBVIOUS
<1> DEFINE Strong == TypeOK /\ AllFull(data) /\ (NoExpiry => AllLasting(data))
<1>1. Init => InSync
  BY DEF Init, InSync
<1>2. Strong /\ InSync /\ [Next]_vars => InSync'
  <2> SUFFICES ASSUME TypeOK, AllFull(data), NoExpiry => AllLasting(data), InSync, [Next]_vars
               PROVE  InSync'
    OBVIOUS
  <2>1. ASSUME NEW db \in Db, NEW k \in Key, KeyOp(db, k) PROVE InSync'
    BY <2>1, KeyOpInSync
  <2>2. ASSUME NEW c \in Client, SetNXSet(c) PROVE InSync'
    <3> DEFINE db == setting[c][1]
               k  == setting[c][2]
               v  == setting[c][3]
               R  == At(data, db, k, Set(data[db][k], now, db, k, v, NoOption))
    <3>1. db \in Db /\ k \in Key /\ v \in Str
      BY <2>2 DEF SetNXSet, TypeOK, Idle
    <3>2. ~(NoOption.ex <= 0 /\ NoOption.px > 0)
      BY DEF NoOption
    <3>3. Redone(R, data, now)
      BY <3>1, <3>2, SetRedone, NoOptionType DEF TypeOK
    <3>4. PICK won : Apply(R, won)
      BY <2>2 DEF SetNXSet
    <3> HIDE DEF R
    <3> QED
      BY <3>3, <3>4, ApplyInSync
  <2>3. ASSUME NEW db \in Db, DoFlushDb(db) PROVE InSync'
    BY <2>3, FlushRedone, ApplyInSync DEF DoFlushDb, Do
  <2>4. CASE DoFlushAll
    BY <2>4, FlushAllRedone, ApplyInSync DEF DoFlushAll, Do
  <2>5. CASE Tick
    BY <2>5 DEF Tick, InSync
  <2>6. CASE UNCHANGED vars
    BY <2>6 DEF vars, InSync
  <2> QED
    BY <2>1, <2>2, <2>3, <2>4, <2>5, <2>6 DEF Next
<1>3. Spec => []Strong
  <2>1. NoEmptyHash => AllFull(data)
    BY NoEmptyHashIsAllFull
  <2>2. NoExpiry => (Spec => []AllLasting(data))
    BY StayLasting
  <2>3. CASE NoExpiry
    BY <2>1, <2>2, <2>3, Typing, HashesNeverEmpty, PTL
  <2>4. CASE ~NoExpiry
    BY <2>1, <2>4, Typing, HashesNeverEmpty, PTL
  <2> QED
    BY <2>3, <2>4
<1> QED
  BY <1>1, <1>2, <1>3, PTL DEF Spec

-----------------------------------------------------------------------------
(* SET NX as a lock.  A key that is not there has no grants.                *)
AtMostOne   == \A db \in Db, k \in Key :
                   grants[db][k] <= 1 /\ (~Live(data[db][k], now) => grants[db][k] = 0)
NobodySetsNX == \A c \in Client : setting[c] = Idle

(* A critical section that grants nothing.                                  *)
LEMMA NoGrant ==
    ASSUME TypeOK, AtMostOne, NEW r, Apply(r, {})
    PROVE  AtMostOne'
<1>1. \A db \in Db, k \in Key : Count1({}, db, k) = 0
  BY DEF Count1
<1>2. ASSUME NEW db \in Db, NEW k \in Key
      PROVE  grants'[db][k] <= 1 /\ (~Live(data'[db][k], now') => grants'[db][k] = 0)
  <2>1. grants'[db][k] = IF Live(r.data[db][k], now) THEN grants[db][k] + Count1({}, db, k) ELSE 0
    BY DEF Apply
  <2>2. grants[db][k] \in Nat /\ grants[db][k] <= 1
    BY DEF AtMostOne, TypeOK
  <2> QED
    BY <1>1, <2>1, <2>2 DEF Apply
<1> QED
  BY <1>2 DEF AtMostOne

(* SET NX grants a key only when it is not there.                           *)
LEMMA SetGrant ==
    ASSUME TypeOK, AtMostOne, NEW db \in Db, NEW k \in Key, NEW v \in Writes, NEW o \in OptionSets,
           DoSet(db, k, v, o)
    PROVE  AtMostOne'
<1> DEFINE s == Set(data[db][k], now, db, k, v, o)
           R == At(data, db, k, s)
<1>1. CASE ~(o.nx /\ R.reply = Ok)
  <2>1. Apply(R, {})
    BY <1>1 DEF DoSet
  <2> HIDE DEF R
  <2> QED
    BY <2>1, NoGrant
<1>2. CASE o.nx /\ R.reply = Ok
  <2>1. Apply(R, {<<db, k>>})
    BY <1>2 DEF DoSet
  <2>2. s.reply = Ok
    BY <1>2 DEF At, Outcome
  <2>3. ~Live(data[db][k], now)
    BY <1>2, <2>2 DEF Set, Result, Ok, Nil, ErrSyntax
  <2>4. grants[db][k] = 0
    BY <2>3 DEF AtMostOne
  <2> HIDE DEF R
  <2>5. ASSUME NEW b \in Db, NEW j \in Key
        PROVE  grants'[b][j] <= 1 /\ (~Live(data'[b][j], now') => grants'[b][j] = 0)
    <3>1. grants'[b][j] = IF Live(R.data[b][j], now) THEN grants[b][j] + Count1({<<db, k>>}, b, j) ELSE 0
      BY <2>1 DEF Apply
    <3>2. grants[b][j] \in Nat /\ grants[b][j] <= 1
      BY DEF AtMostOne, TypeOK
    <3>3. grants[b][j] + Count1({<<db, k>>}, b, j) <= 1
      BY <2>4, <3>2 DEF Count1
    <3> QED
      BY <2>1, <3>1, <3>3 DEF Apply
  <2> QED
    BY <2>5 DEF AtMostOne
<1> QED
  BY <1>1, <1>2

(* A call on one key keeps at most one grant.                               *)
LEMMA KeyOpGrant ==
    ASSUME "SETNX" \notin Ops, TypeOK, AtMostOne, NEW db \in Db, NEW k \in Key, KeyOp(db, k)
    PROVE  AtMostOne' /\ UNCHANGED setting
<1>1. ASSUME NEW r, Do(r) PROVE AtMostOne' /\ UNCHANGED setting
  BY <1>1, NoGrant DEF Do
<1>2. ASSUME NEW r, On(db, k, r) PROVE AtMostOne' /\ UNCHANGED setting
  BY <1>1, <1>2 DEF On
<1>3. ASSUME NEW v \in Writes, NEW o \in OptionSets, DoSet(db, k, v, o)
      PROVE  AtMostOne' /\ UNCHANGED setting
  BY <1>3, SetGrant DEF DoSet
<1>4. ASSUME NEW c \in Client, NEW v \in Writes, SetNXCheck(c, db, k, v)
      PROVE  FALSE
  BY <1>4 DEF SetNXCheck
<1>5. DoDel(db, k) \/ DoIncr(db, k) \/ DoDecr(db, k) => AtMostOne' /\ UNCHANGED setting
  BY <1>2 DEF DoDel, DoIncr, DoDecr
<1>6. ASSUME NEW secs \in TTLs, DoExpire(db, k, secs) PROVE AtMostOne' /\ UNCHANGED setting
  BY <1>2, <1>6 DEF DoExpire
<1>7. ASSUME NEW vals \in Pushes, DoLPush(db, k, vals) \/ DoRPush(db, k, vals)
      PROVE  AtMostOne' /\ UNCHANGED setting
  BY <1>2, <1>7 DEF DoLPush, DoRPush
<1>8. ASSUME NEW count \in Counts, DoLPop(db, k, count) \/ DoRPop(db, k, count)
      PROVE  AtMostOne' /\ UNCHANGED setting
  BY <1>2, <1>8 DEF DoLPop, DoRPop
<1>9. ASSUME NEW w \in Windows, DoLTrim(db, k, w) PROVE AtMostOne' /\ UNCHANGED setting
  BY <1>2, <1>9 DEF DoLTrim
<1>10. ASSUME NEW fv \in FieldMaps, DoHSet(db, k, fv) PROVE AtMostOne' /\ UNCHANGED setting
  BY <1>2, <1>10 DEF DoHSet
<1>11. ASSUME NEW fs \in FieldSets, DoHDel(db, k, fs) PROVE AtMostOne' /\ UNCHANGED setting
  BY <1>2, <1>11 DEF DoHDel
<1>12. ASSUME NEW new \in Key, DoRename(db, k, new) PROVE AtMostOne' /\ UNCHANGED setting
  BY <1>1, <1>12 DEF DoRename
<1> QED
  BY <1>3, <1>4, <1>5, <1>6, <1>7, <1>8, <1>9, <1>10, <1>11, <1>12 DEF KeyOp

(* SET NX is a lock: as long as nobody uses the SETNX command, no two       *)
(* clients are told that they created the same key without the key having   *)
(* been deleted or expired in between.                                      *)
THEOREM SetNXLocks == "SETNX" \notin Ops => (Spec => []AtMostOneGrant)
<1> SUFFICES ASSUME "SETNX" \notin Ops PROVE Spec => []AtMostOneGrant
  OBVIOUS
<1> DEFINE Inv == AtMostOne /\ NobodySetsNX
<1>1. Init => Inv
  BY DEF Init, AtMostOne, NobodySetsNX
<1>2. TypeOK /\ Inv /\ [Next]_vars => Inv'
  <2> SUFFICES ASSUME TypeOK, Inv, [Next]_vars PROVE Inv'
    OBVIOUS
  <2>1. ASSUME NEW db \in Db, NEW k \in Key, KeyOp(db, k) PROVE Inv'
    BY <2>1, KeyOpGrant DEF NobodySetsNX
  <2>2. ASSUME NEW c \in Client, SetNXSet(c) PROVE Inv'
    BY <2>2 DEF SetNXSet, NobodySetsNX
  <2>3. ASSUME NEW r, Do(r) PROVE Inv'
    BY <2>3, NoGrant DEF Do, NobodySetsNX
  <2>4. ASSUME NEW db \in Db, DoFlushDb(db) PROVE Inv'
    BY <2>3, <2>4 DEF DoFlushDb
  <2>5. CASE DoFlushAll
    BY <2>3, <2>5 DEF DoFlushAll
  <2>6. CASE Tick
    <3>1. now \in Nat /\ grants \in [Db -> [Key -> Nat]]
      BY DEF TypeOK
    <3>2. AtMostOne'
      BY <2>6, <3>1 DEF Tick, AtMostOne
    <3> QED
      BY <2>6, <3>2 DEF Tick, NobodySetsNX
  <2>7. CASE UNCHANGED vars
    BY <2>7 DEF vars, AtMostOne, NobodySetsNX
  <2> QED
    BY <2>1, <2>2, <2>4, <2>5, <2>6, <2>7 DEF Next
<1>3. Inv => AtMostOneGrant
  BY DEF AtMostOne, AtMostOneGrant
<1> QED
  BY <1>1, <1>2, <1>3, Typing, PTL DEF Spec

-----------------------------------------------------------------------------
(* Expired keys.  A critical section on one key keeps all entries bare.     *)
LEMMA OnBare ==
    ASSUME data \in Data, AllBare(data), NEW db \in Db, NEW k \in Key, NEW r, Bare(r.value), NEW won,
           Apply(At(data, db, k, r), won)
    PROVE  AllBare(data')
BY BareAt DEF Apply

(* A call on one key keeps all entries bare.                                *)
LEMMA KeyOpBare ==
    ASSUME TypeOK, AllBare(data), NEW db \in Db, NEW k \in Key, KeyOp(db, k)
    PROVE  AllBare(data')
<1> DEFINE e == data[db][k]
<1>1. data \in Data /\ now \in Nat /\ e \in Entry /\ Bare(e)
  BY DEF TypeOK, Data, AllBare
<1>2. ASSUME NEW r, Bare(r.value), On(db, k, r) PROVE AllBare(data')
  BY <1>1, <1>2, OnBare DEF On, Do
<1> HIDE DEF e
<1>3. ASSUME NEW v \in Writes, NEW o \in OptionSets, DoSet(db, k, v, o) PROVE AllBare(data')
  <2>1. Bare(Set(e, now, db, k, v, o).value)
    BY <1>1, ArgsAssumption, KeysBare
  <2> QED
    BY <1>1, <1>3, <2>1, OnBare DEF DoSet, e
<1>4. ASSUME NEW c \in Client, NEW v \in Writes, SetNXCheck(c, db, k, v) PROVE AllBare(data')
  BY <1>4 DEF SetNXCheck
<1>5. DoDel(db, k) \/ DoIncr(db, k) \/ DoDecr(db, k) => AllBare(data')
  BY <1>1, <1>2, KeysBare DEF DoDel, DoIncr, DoDecr, e
<1>6. ASSUME NEW secs \in TTLs, DoExpire(db, k, secs) PROVE AllBare(data')
  BY <1>1, <1>2, <1>6, KeysBare DEF DoExpire, e
<1>7. ASSUME NEW vals \in Pushes, DoLPush(db, k, vals) \/ DoRPush(db, k, vals) PROVE AllBare(data')
  BY <1>1, <1>2, <1>7, KeysBare DEF DoLPush, DoRPush, e
<1>8. ASSUME NEW count \in Counts, DoLPop(db, k, count) \/ DoRPop(db, k, count) PROVE AllBare(data')
  BY <1>1, <1>2, <1>8, KeysBare DEF DoLPop, DoRPop, e
<1>9. ASSUME NEW w \in Windows, DoLTrim(db, k, w) PROVE AllBare(data')
  BY <1>1, <1>2, <1>9, KeysBare DEF DoLTrim, e
<1>10. ASSUME NEW fv \in FieldMaps, DoHSet(db, k, fv) PROVE AllBare(data')
  BY <1>1, <1>2, <1>10, KeysBare DEF DoHSet, e
<1>11. ASSUME NEW fs \in FieldSets, DoHDel(db, k, fs) PROVE AllBare(data')
  BY <1>1, <1>2, <1>11, KeysBare DEF DoHDel, e
<1>12. ASSUME NEW new \in Key, DoRename(db, k, new) PROVE AllBare(data')
  BY <1>1, <1>12, DbsBare DEF DoRename, Do, Apply
<1> QED
  BY <1>3, <1>4, <1>5, <1>6, <1>7, <1>8, <1>9, <1>10, <1>11, <1>12 DEF KeyOp

(* No key that is not there has a deadline.                                 *)
LEMMA StayBare == Spec => []AllBare(data)
<1>1. Init => AllBare(data)
  BY EmptyBare DEF Init
<1>2. TypeOK /\ AllBare(data) /\ [Next]_vars => AllBare(data)'
  <2> SUFFICES ASSUME TypeOK, AllBare(data), [Next]_vars PROVE AllBare(data)'
    OBVIOUS
  <2>1. ASSUME NEW db \in Db, NEW k \in Key, KeyOp(db, k) PROVE AllBare(data)'
    <3>1. AllBare(data')
      BY <2>1, KeyOpBare
    <3> QED
      BY <3>1
  <2>2. ASSUME NEW c \in Client, SetNXSet(c) PROVE AllBare(data)'
    <3> DEFINE db == setting[c][1]
               k  == setting[c][2]
               r  == Set(data[db][k], now, db, k, setting[c][3], NoOption)
    <3>1. db \in Db /\ k \in Key /\ setting[c][3] \in Str
      BY <2>2 DEF SetNXSet, TypeOK, Idle
    <3>2. data[db][k] \in Entry /\ Bare(data[db][k]) /\ data \in Data /\ now \in Nat
      BY <3>1 DEF TypeOK, Data, AllBare
    <3>3. Bare(r.value)
      BY <3>1, <3>2, KeysBare
    <3>4. PICK won : Apply(At(data, db, k, r), won)
      BY <2>2 DEF SetNXSet
    <3> HIDE DEF r, db, k
    <3>5. AllBare(data')
      BY <3>1, <3>2, <3>3, <3>4, OnBare
    <3> QED
      BY <3>5
  <2>3. ASSUME NEW db \in Db, DoFlushDb(db) PROVE AllBare(data)'
    BY <2>3, DbsBare DEF DoFlushDb, Do, Apply, TypeOK
  <2>4. CASE DoFlushAll
    BY <2>4, EmptyBare DEF DoFlushAll, Do, Apply, FlushAll, Outcome
  <2>5. CASE Tick
    BY <2>5 DEF Tick
  <2>6. CASE UNCHANGED vars
    BY <2>6 DEF vars
  <2> QED
    BY <2>1, <2>2, <2>3, <2>4, <2>5, <2>6 DEF Next
<1> QED
  BY <1>1, <1>2, Typing, PTL DEF Spec

(* What a step may do to the expired keys.                                  *)
BackOnlyBy(db, k) == IsExpired(data[db][k], now) /\ Live(data'[db][k], now') => Revives(db, k)
NoneComesBack     == \A db \in Db, k \in Key : BackOnlyBy(db, k)

(* A critical section on one key brings no other key back, and none if the  *)
(* entry it leaves there is not live.                                       *)
LEMMA OthersStayGone ==
    ASSUME TypeOK, NEW db \in Db, NEW k \in Key, NEW r, NEW won, Apply(At(data, db, k, r), won),
           IsExpired(data[db][k], now) => ~Live(r.value, now) \/ Revives(db, k)
    PROVE  NoneComesBack
<1>1. data' = Put(data, db, k, r.value) /\ now' = now
  BY AtFields DEF Apply
<1>2. data \in Data
  BY DEF TypeOK
<1>3. ASSUME NEW b \in Db, NEW j \in Key PROVE BackOnlyBy(b, j)
  <2>1. CASE b = db /\ j = k
    <3>1. data'[b][j] = r.value
      BY <1>1, <1>2, <2>1 DEF Put, Data
    <3> QED
      BY <1>1, <2>1, <3>1 DEF BackOnlyBy
  <2>2. CASE ~(b = db /\ j = k)
    <3>1. data'[b][j] = data[b][j]
      BY <1>1, <1>2, <2>2 DEF Put, Data
    <3>2. IsExpired(data[b][j], now) => ~Live(data[b][j], now)
      BY DEF Live
    <3> QED
      BY <1>1, <3>1, <3>2 DEF BackOnlyBy
  <2> QED
    BY <2>1, <2>2
<1> QED
  BY <1>3 DEF NoneComesBack

(* A step that leaves no key but missing ones and unchanged ones brings     *)
(* none back.                                                               *)
LEMMA EmptiedStayGone ==
    ASSUME now' = now, \A db \in Db, k \in Key : data'[db][k] = Missing \/ data'[db][k] = data[db][k]
    PROVE  NoneComesBack
<1>1. ~Live(Missing, now)
  BY DEF Live, Present, Missing
<1>2. ASSUME NEW db \in Db, NEW k \in Key PROVE BackOnlyBy(db, k)
  <2>1. data'[db][k] = Missing \/ data'[db][k] = data[db][k]
    OBVIOUS
  <2>2. IsExpired(data[db][k], now) => ~Live(data[db][k], now)
    BY DEF Live
  <2> QED
    BY <1>1, <2>1, <2>2 DEF BackOnlyBy
<1> QED
  BY <1>2 DEF NoneComesBack

(* RENAME brings back at most the key it writes.                            *)
LEMMA RenameStaysGone ==
    ASSUME TypeOK, NEW db \in Db, NEW k \in Key, NEW new \in Key, DoRename(db, k, new)
    PROVE  NoneComesBack
<1>1. data' = Rename(data, now, db, k, new).data /\ now' = now
  BY DEF DoRename, Do, Apply
<1>2. data \in Data
  BY DEF TypeOK
<1>3. ASSUME NEW b \in Db, NEW j \in Key PROVE BackOnlyBy(b, j)
  <2>1. CASE b = db /\ j = new
    BY <2>1 DEF BackOnlyBy, Revives
  <2>2. CASE ~(b = db /\ j = new)
    <3>1. data'[b][j] = Missing \/ data'[b][j] = data[b][j]
      BY <1>1, <1>2, <2>2 DEF Rename, Outcome, Data
    <3>2. ~Live(Missing, now) /\ (IsExpired(data[b][j], now) => ~Live(data[b][j], now))
      BY DEF Live, Present, Missing
    <3> QED
      BY <1>1, <3>1, <3>2 DEF BackOnlyBy
  <2> QED
    BY <2>1, <2>2
<1> QED
  BY <1>3 DEF NoneComesBack

(* A call on one key brings an expired key back only by replacing its whole *)
(* value or its deadline.                                                   *)
LEMMA KeyOpStaysGone ==
    ASSUME TypeOK, AllBare(data), NEW db \in Db, NEW k \in Key, KeyOp(db, k)
    PROVE  NoneComesBack
<1> DEFINE e == data[db][k]
<1>1. now \in Nat /\ e \in Entry /\ Bare(e)
  BY DEF TypeOK, Data, AllBare
<1>2. ASSUME NEW r, On(db, k, r), IsExpired(e, now) => ~Live(r.value, now) \/ Revives(db, k)
      PROVE  NoneComesBack
  BY <1>2, OthersStayGone DEF On, Do
<1> HIDE DEF e
<1>3. ASSUME NEW v \in Writes, NEW o \in OptionSets, DoSet(db, k, v, o) PROVE NoneComesBack
  <2>1. Revives(db, k)
    BY <1>3 DEF Revives
  <2> QED
    BY <1>3, <2>1, OthersStayGone DEF DoSet
<1>4. ASSUME NEW c \in Client, NEW v \in Writes, SetNXCheck(c, db, k, v) PROVE NoneComesBack
  BY <1>4, EmptiedStayGone DEF SetNXCheck
<1>5. DoDel(db, k) \/ DoIncr(db, k) \/ DoDecr(db, k) => NoneComesBack
  BY <1>1, <1>2, KeysStayGone DEF DoDel, DoIncr, DoDecr, e
<1>6. ASSUME NEW secs \in TTLs, DoExpire(db, k, secs) PROVE NoneComesBack
  <2>1. Revives(db, k)
    BY <1>6 DEF Revives
  <2> QED
    BY <1>2, <1>6, <2>1 DEF DoExpire
<1>7. ASSUME NEW vals \in Pushes, DoLPush(db, k, vals) \/ DoRPush(db, k, vals) PROVE NoneComesBack
  BY <1>1, <1>2, <1>7, KeysStayGone DEF DoLPush, DoRPush, e
<1>8. ASSUME NEW count \in Counts, DoLPop(db, k, count) \/ DoRPop(db, k, count) PROVE NoneComesBack
  BY <1>1, <1>2, <1>8, KeysStayGone DEF DoLPop, DoRPop, e
<1>9. ASSUME NEW w \in Windows, DoLTrim(db, k, w) PROVE NoneComesBack
  BY <1>1, <1>2, <1>9, KeysStayGone DEF DoLTrim, e
<1>10. ASSUME NEW fv \in FieldMaps, DoHSet(db, k, fv) PROVE NoneComesBack
  <2> DEFINE r == HSet(e, now, db, k, fv)
  <2>1. ASSUME IsExpired(e, now) PROVE r.value.hash = fv
    <3>1. fv \in HashData
      BY ArgsAssumption
    <3> QED
      BY <1>1, <2>1, <3>1, HSetStartsAnew
  <2>2. data'[db][k] = r.value
    BY <1>10 DEF DoHSet, On, Do, Apply, At, Outcome, Put, TypeOK, Data, e
  <2>3. IsExpired(e, now) => Revives(db, k)
    BY <1>10, <2>1, <2>2 DEF Revives
  <2> QED
    BY <1>2, <1>10, <2>3 DEF DoHSet, e
<1>11. ASSUME NEW fs \in FieldSets, DoHDel(db, k, fs) PROVE NoneComesBack
  BY <1>1, <1>2, <1>11, KeysStayGone DEF DoHDel, e
<1>12. ASSUME NEW new \in Key, DoRename(db, k, new) PROVE NoneComesBack
  BY <1>12, RenameStaysGone
<1> QED
  BY <1>3, <1>4, <1>5, <1>6, <1>7, <1>8, <1>9, <1>10, <1>11, <1>12 DEF KeyOp

(* A key whose deadline has passed becomes visible again only by a method   *)
(* that replaces its value or its deadline: INCR, the pushes, the pops,     *)
(* LTRIM and HDEL, which work on the stale value, never bring it back.      *)
THEOREM ExpiredNeverReturns == Spec => ExpiredStaysGone
<1>1. TypeOK /\ AllBare(data) /\ [Next]_vars => [NoneComesBack]_vars
  <2> SUFFICES ASSUME TypeOK, AllBare(data), Next PROVE NoneComesBack
    OBVIOUS
  <2>1. ASSUME NEW db \in Db, NEW k \in Key, KeyOp(db, k) PROVE NoneComesBack
    BY <2>1, KeyOpStaysGone
  <2>2. ASSUME NEW c \in Client, SetNXSet(c) PROVE NoneComesBack
    <3>1. setting[c][1] \in Db /\ setting[c][2] \in Key
      BY <2>2 DEF SetNXSet, TypeOK, Idle
    <3>2. Revives(setting[c][1], setting[c][2])
      BY <2>2 DEF Revives
    <3> QED
      BY <2>2, <3>1, <3>2, OthersStayGone DEF SetNXSet
  <2>3. ASSUME NEW db \in Db, DoFlushDb(db) PROVE NoneComesBack
    <3>1. data' = [data EXCEPT ![db] = Empty] /\ now' = now
      BY <2>3 DEF DoFlushDb, Do, Apply, FlushDb, Outcome
    <3>2. \A b \in Db, k \in Key : data'[b][k] = Missing \/ data'[b][k] = data[b][k]
      BY <3>1 DEF Empty, TypeOK, Data
    <3> QED
      BY <3>1, <3>2, EmptiedStayGone
  <2>4. CASE DoFlushAll
    <3>1. data' = [db \in Db |-> Empty] /\ now' = now
      BY <2>4 DEF DoFlushAll, Do, Apply, FlushAll, Outcome
    <3>2. \A b \in Db, k \in Key : data'[b][k] = Missing
      BY <3>1 DEF Empty
    <3> QED
      BY <3>1, <3>2, EmptiedStayGone
  <2>5. CASE Tick
    <3>1. now \in Nat /\ data \in Data /\ now' = now + 1 /\ data' = data
      BY <2>5 DEF TypeOK, Tick
    <3>2. ASSUME NEW db \in Db, NEW k \in Key, IsExpired(data[db][k], now)
          PROVE  IsExpired(data[db][k], now + 1)
      <4>1. data[db][k].exp \in Nat \cup {Never}
        BY <3>1 DEF Data, Entry
      <4> QED
        BY <3>1, <3>2, <4>1 DEF IsExpired, Never
    <3> QED
      BY <3>1, <3>2 DEF NoneComesBack, BackOnlyBy, Live
  <2> QED
    BY <2>1, <2>2, <2>3, <2>4, <2>5 DEF Next
<1>2. [NoneComesBack]_vars
      <=> [\A db \in Db, k \in Key : IsExpired(data[db][k], now) /\ Live(data[db][k], now)' => Revives(db, k)]_vars
  BY DEF NoneComesBack, BackOnlyBy
<1>3. Spec => []TypeOK /\ []AllBare(data)
  BY Typing, StayBare
<1> QED
  BY <1>1, <1>2, <1>3, PTL DEF Spec, ExpiredStaysGone

-----------------------------------------------------------------------------
(* Replies against the readers.                                             *)

(* HLEN counts the fields of a live hash.                                   *)
LEMMA HLenIs ==
    ASSUME NEW e
    PROVE  HLen(e) = IF Live(e, now) /\ e.type = "hash" THEN Cardinality(Fields(e.hash)) ELSE 0
<1>1. CASE ~Live(e, now)
  <2>1. HGetAll(e, now) = <<"hash", NoFields>>
    BY <1>1 DEF HGetAll
  <2>2. Fields(NoFields) = {}
    BY DEF Fields, NoFields
  <2> QED
    BY <1>1, <2>1, <2>2, FS_EmptySet DEF HLen
<1>2. CASE Live(e, now) /\ e.type # "hash"
  <2>1. HGetAll(e, now)[1] = "err"
    BY <1>2 DEF HGetAll, ErrWrongType
  <2> QED
    BY <1>2, <2>1 DEF HLen
<1>3. CASE Live(e, now) /\ e.type = "hash"
  <2>1. HGetAll(e, now) = <<"hash", e.hash>>
    BY <1>3 DEF HGetAll
  <2> QED
    BY <1>3, <2>1 DEF HLen
<1> QED
  BY <1>1, <1>2, <1>3

(* LRANGE 0 -1 shows a live list.                                           *)
LEMMA AllElemsIs ==
    ASSUME NEW e \in Entry
    PROVE  AllElems(e) = IF Live(e, now) /\ e.type = "list" THEN e.list ELSE <<>>
<1> DEFINE len == Len(e.list)
<1>1. e.list \in Seq(Str) /\ len \in Nat
  BY DEF Entry
<1>2. Lo(0, len) = 0 /\ Hi(-1, len) = len - 1
  BY <1>1 DEF Lo, Hi
<1>3. CASE ~Live(e, now) \/ e.type # "list"
  <2>1. LRange(e, now, 0, -1)[1] \in {"nil", "err"}
    BY <1>3 DEF LRange, Nil, ErrWrongType
  <2> QED
    BY <1>3, <2>1 DEF AllElems, Elems
<1>4. CASE Live(e, now) /\ e.type = "list" /\ len = 0
  <2>1. e.list = <<>>
    BY <1>1, <1>4, EmptySeq
  <2>2. LRange(e, now, 0, -1) = <<"list", <<>>>>
    BY <1>1, <1>2, <1>4 DEF LRange
  <2> QED
    BY <1>4, <2>1, <2>2 DEF AllElems, Elems
<1>5. CASE Live(e, now) /\ e.type = "list" /\ len # 0
  <2>1. SubSeq(e.list, 1, len) = e.list
    BY <1>1, SubSeqFull
  <2>2. LRange(e, now, 0, -1) = <<"list", SubSeq(e.list, 0 + 1, len - 1 + 1)>>
    <3> HIDE DEF len
    <3>1. ~(0 > len - 1 \/ 0 >= len \/ len - 1 < 0)
      BY <1>1, <1>5
    <3> QED
      BY <1>2, <1>5, <3>1 DEF LRange, len
  <2>3. 0 + 1 = 1 /\ len - 1 + 1 = len
    BY <1>1
  <2>4. LRange(e, now, 0, -1) = <<"list", e.list>>
    <3> HIDE DEF len
    <3> QED
      BY <2>1, <2>2, <2>3, Zenon
  <2> QED
    BY <1>5, <2>4 DEF AllElems, Elems
<1> QED
  BY <1>3, <1>4, <1>5

(* HSET counts the fields by which the hash grows.                          *)
LEMMA HSetCounts ==
    ASSUME IsFiniteSet(Field), NEW e \in Entry, NEW db, NEW k, NEW fv \in HashData,
           NEW r, r = HSet(e, now, db, k, fv), Counted(r)
    PROVE  r.reply[2] = HLen(r.value) - HLen(e)
<1> DEFINE old == IF Live(e, now) THEN e ELSE NewHashValue(NoFields)
           new == [f \in Field |-> IF fv[f] # NoStr THEN fv[f] ELSE old.hash[f]]
           A   == Fields(old.hash)
           B   == Fields(fv)
<1>1. old \in Entry
  BY NewValueType, NoFieldsType
<1>2. old.type = "hash"
  BY DEF HSet, Counted, Result, ErrWrongType
<1>3. r = Result([old EXCEPT !.hash = new], <<<<"HSET", db, k, fv>>>>, Num(Cardinality(B \ A)))
  BY <1>2 DEF HSet
<1>4. r.value = [old EXCEPT !.hash = new] /\ r.reply[2] = Cardinality(B \ A)
  <2> HIDE DEF old, new, A, B
  <2> QED
    BY <1>3 DEF Result, Num
<1>5. Live(old, now)
  <2>1. Live(NewHashValue(NoFields), now)
    BY DEF NewHashValue, Missing, Live, Present, IsExpired
  <2> QED
    BY <2>1
<1>6. r.value.hash = new /\ r.value.type = "hash" /\ r.value.exp = old.exp
  <2> HIDE DEF old, new
  <2> QED
    BY <1>1, <1>2, <1>4 DEF Entry
<1>7. Live(r.value, now)
  <2> HIDE DEF old, new
  <2> QED
    BY <1>5, <1>6 DEF Live, Present, IsExpired
<1>8. HLen(r.value) = Cardinality(Fields(new))
  BY <1>6, <1>7, HLenIs
<1>9. HLen(e) = Cardinality(A)
  <2>1. CASE Live(e, now)
    BY <1>2, <2>1, HLenIs
  <2>2. CASE ~Live(e, now)
    <3>1. old.hash = NoFields
      BY <2>2 DEF NewHashValue, Missing
    <3>2. A = {}
      BY <3>1 DEF Fields, NoFields
    <3> QED
      BY <2>2, <3>2, HLenIs, FS_EmptySet
  <2> QED
    BY <2>1, <2>2
<1>10. Fields(new) = A \cup B
  <2> HIDE DEF old
  <2> QED
    BY DEF Fields
<1>11. Cardinality(A \cup B) = Cardinality(A) + Cardinality(B \ A)
  <2> HIDE DEF A, B
  <2>1. IsFiniteSet(A) /\ IsFiniteSet(B)
    BY FS_Subset DEF A, B, Fields
  <2>2. Cardinality(A \cup B) = Cardinality(A) + Cardinality(B) - Cardinality(A \cap B)
    BY <2>1, FS_Union
  <2>3. IsFiniteSet(B \ A) /\ Cardinality(B \ A) = Cardinality(B) - Cardinality(B \cap A)
    BY <2>1, FS_Difference
  <2>4. IsFiniteSet(A \cap B) /\ A \cap B = B \cap A
    BY <2>1, FS_Intersection
  <2>5. Cardinality(A) \in Nat /\ Cardinality(B) \in Nat /\ Cardinality(A \cap B) \in Nat
    BY <2>1, <2>4, FS_CardinalityType
  <2> QED
    BY <2>2, <2>3, <2>4, <2>5
<1>12. Cardinality(A) \in Nat /\ Cardinality(B \ A) \in Nat
  <2>1. IsFiniteSet(A) /\ IsFiniteSet(B \ A)
    BY FS_Subset DEF Fields
  <2> QED
    BY <2>1, FS_CardinalityType
<1> HIDE DEF A, B, old, new
<1> QED
  BY <1>4, <1>8, <1>9, <1>10, <1>11, <1>12

(* HDEL counts the fields by which the hash shrinks.                        *)
LEMMA HDelCounts ==
    ASSUME IsFiniteSet(Field), NEW e \in Entry, NEW db, NEW k, NEW fs \in SUBSET Field,
           NEW r, r = HDel(e, now, db, k, fs), Counted(r)
    PROVE  r.reply[2] = HLen(e) - HLen(r.value)
<1> DEFINE A    == Fields(e.hash)
           gone == fs \cap A
           left == [f \in Field |-> IF f \in fs THEN NoStr ELSE e.hash[f]]
           kept == [e EXCEPT !.hash = left]
<1>1. CASE ~Present(e)
  <2>1. r.value = e /\ r.reply[2] = 0
    BY <1>1 DEF HDel, Result, Num
  <2> QED
    BY <1>1, <2>1, HLenIs DEF Live
<1>2. CASE Present(e) /\ IsExpired(e, now)
  <2>1. r.value = Missing /\ r.reply[2] = 0
    BY <1>2 DEF HDel, Result, Num
  <2>2. ~Live(Missing, now) /\ ~Live(e, now)
    BY <1>2 DEF Live, Present, Missing
  <2> QED
    BY <2>1, <2>2, HLenIs
<1>3. CASE Live(e, now)
  <2>1. e.type = "hash"
    BY <1>3 DEF HDel, Counted, Result, ErrWrongType, Live
  <2>2. r.value = (IF left = NoFields THEN Missing ELSE kept) /\ r.reply = Num(Cardinality(gone))
    <3> HIDE DEF left, A, kept
    <3> QED
      BY <1>3, <2>1 DEF HDel, Result, Live, left, A, kept
  <2>3. r.reply[2] = Cardinality(gone)
    <3> HIDE DEF gone
    <3> QED
      BY <2>2 DEF Num
  <2>4. HLen(e) = Cardinality(A)
    BY <1>3, <2>1, HLenIs
  <2>5. Fields(left) = A \ fs
    BY DEF Fields
  <2>6. HLen(r.value) = Cardinality(A \ fs)
    <3>1. CASE left = NoFields
      <4>1. Fields(left) = {}
        BY <3>1 DEF Fields, NoFields
      <4>2. r.value = Missing /\ ~Live(Missing, now)
        BY <2>2, <3>1 DEF Live, Present, Missing
      <4> QED
        BY <2>5, <4>1, <4>2, HLenIs, FS_EmptySet
    <3>2. CASE left # NoFields
      <4>1. kept.hash = left /\ kept.type = "hash" /\ kept.exp = e.exp
        <5> HIDE DEF left
        <5> QED
          BY <2>1 DEF Entry
      <4>2. r.value = kept /\ Live(kept, now)
        <5> HIDE DEF left, kept
        <5> QED
          BY <1>3, <2>2, <3>2, <4>1 DEF Live, Present, IsExpired
      <4> HIDE DEF kept, left
      <4> QED
        BY <2>5, <4>1, <4>2, HLenIs
    <3> QED
      BY <3>1, <3>2
  <2>7. /\ Cardinality(A \ fs) = Cardinality(A) - Cardinality(gone)
        /\ Cardinality(A) \in Nat /\ Cardinality(gone) \in Nat
    <3> HIDE DEF A
    <3>1. IsFiniteSet(A)
      BY FS_Subset DEF A, Fields
    <3>2. Cardinality(A \ fs) = Cardinality(A) - Cardinality(A \cap fs)
      BY <3>1, FS_Difference
    <3>3. IsFiniteSet(gone) /\ gone = A \cap fs
      BY <3>1, FS_Intersection
    <3> QED
      BY <3>1, <3>2, <3>3, FS_CardinalityType
  <2> HIDE DEF A, gone, left, kept
  <2> QED
    BY <2>3, <2>4, <2>6, <2>7
<1> QED
  BY <1>1, <1>2, <1>3 DEF Live

(* What a push that is not refused leaves and replies.                      *)
Grown(r, e, l) == r.value = [e EXCEPT !.type = "list", !.list = l] /\ r.reply = Num(Len(l))

(* A grown list has the length that LRANGE shows.                           *)
LEMMA GrownCounts ==
    ASSUME NEW e \in Entry, ~IsExpired(e, now), NEW r, NEW l \in Seq(Str), Grown(r, e, l)
    PROVE  r.reply[2] = Len(AllElems(r.value))
<1>1. r.value = [e EXCEPT !.type = "list", !.list = l] /\ r.reply[2] = Len(l)
  BY DEF Grown, Num
<1>2. r.value \in Entry /\ r.value.type = "list" /\ r.value.list = l /\ r.value.exp = e.exp
  BY <1>1 DEF Entry
<1>3. Live(r.value, now)
  BY <1>2 DEF Live, Present, IsExpired
<1>4. AllElems(r.value) = l
  BY <1>2, <1>3, AllElemsIs
<1> QED
  BY <1>1, <1>4

(* LPUSH and RPUSH grow the list, or are refused.                           *)
LEMMA PushCounts ==
    ASSUME NEW e \in Entry, NEW db, NEW k, NEW vals \in Seq(Str), ~IsExpired(e, now), NEW r, Counted(r),
           r = LPush(e, db, k, vals) \/ r = RPush(e, db, k, vals)
    PROVE  r.reply[2] = Len(AllElems(r.value))
<1> DEFINE a == Reverse(vals) \o e.list
           b == e.list \o vals
<1>1. e.list \in Seq(Str) /\ Reverse(vals) \in Seq(Str)
  BY DEF Entry, Reverse
<1>2. a \in Seq(Str) /\ b \in Seq(Str)
  BY <1>1
<1>3. ~(Present(e) /\ e.type # "list")
  BY DEF LPush, RPush, Counted, Result, ErrWrongType
<1>4. CASE r = LPush(e, db, k, vals)
  <2>1. r = Result([e EXCEPT !.type = "list", !.list = a], <<<<"LPUSH", db, k, vals>>>>, Num(Len(a)))
    BY <1>3, <1>4 DEF LPush
  <2> HIDE DEF a
  <2>2. Grown(r, e, a)
    BY <2>1 DEF Result, Grown
  <2> QED
    BY <1>2, <2>2, GrownCounts
<1>5. CASE r = RPush(e, db, k, vals)
  <2>1. r = Result([e EXCEPT !.type = "list", !.list = b], <<<<"RPUSH", db, k, vals>>>>, Num(Len(b)))
    BY <1>3, <1>5 DEF RPush
  <2> HIDE DEF b
  <2>2. Grown(r, e, b)
    BY <2>1 DEF Result, Grown
  <2> QED
    BY <1>2, <2>2, GrownCounts
<1> QED
  BY <1>4, <1>5

(* A sequence with its two parts, element by element.                       *)
LEMMA Joined ==
    ASSUME NEW a \in Seq(Str), NEW b \in Seq(Str), NEW l \in Seq(Str), Len(l) = Len(a) + Len(b),
           \A i \in 1 .. Len(a) : a[i] = l[i], \A i \in 1 .. Len(b) : b[i] = l[Len(a) + i]
    PROVE  a \o b = l
<1>1. Len(a) \in Nat /\ Len(b) \in Nat /\ Len(l) \in Nat
  OBVIOUS
<1>2. a \o b \in Seq(Str) /\ Len(a \o b) = Len(l)
  BY ConcatProperties
<1>3. ASSUME NEW i \in 1 .. Len(l) PROVE (a \o b)[i] = l[i]
  <2>1. i \in Int /\ 1 <= i /\ i <= Len(a) + Len(b) /\ (i <= Len(a) \/ i > Len(a))
    BY <1>1, <1>3
  <2>2. (a \o b)[i] = IF i <= Len(a) THEN a[i] ELSE b[i - Len(a)]
    BY <1>1, <2>1, ConcatProperties
  <2>3. CASE i <= Len(a)
    <3>1. i \in 1 .. Len(a)
      BY <1>1, <2>1, <2>3
    <3> QED
      BY <2>2, <2>3, <3>1
  <2>4. CASE i > Len(a)
    <3>1. i - Len(a) \in 1 .. Len(b) /\ Len(a) + (i - Len(a)) = i /\ ~(i <= Len(a))
      BY <1>1, <2>1, <2>4
    <3>2. b[i - Len(a)] = l[Len(a) + (i - Len(a))]
      BY <3>1
    <3> QED
      BY <2>2, <3>1, <3>2
  <2> QED
    BY ONLY <2>1, <2>3, <2>4
<1> QED
  BY <1>2, <1>3, SeqEqual

(* What a pop takes and what it leaves, in front or behind, is the list.    *)
LEMMA SplitAt ==
    ASSUME NEW l \in Seq(Str), NEW n \in 0 .. Len(l)
    PROVE  SubSeq(l, 1, n) \o SubSeq(l, n + 1, Len(l)) = l
<1> DEFINE a == SubSeq(l, 1, n)
           b == SubSeq(l, n + 1, Len(l))
<1>1. Len(l) \in Nat /\ n \in Nat /\ n <= Len(l)
  OBVIOUS
<1>2. a \in Seq(Str) /\ Len(a) = n /\ \A i \in 1 .. n : a[i] = l[i]
  BY SubSeqProperties
<1>3. b \in Seq(Str) /\ Len(b) = Len(l) - n /\ \A i \in 1 .. Len(l) - n : b[i] = l[n + i]
  BY SubSeqProperties
<1> HIDE DEF a, b
<1>4. Len(l) = Len(a) + Len(b)
  BY <1>1, <1>2, <1>3
<1>5. (\A i \in 1 .. Len(a) : a[i] = l[i]) /\ (\A i \in 1 .. Len(b) : b[i] = l[Len(a) + i])
  BY <1>2, <1>3
<1>6. a \o b = l
  BY <1>2, <1>3, <1>4, <1>5, Joined
<1> QED
  BY <1>6 DEF a, b

(* The elements of the reply of a pop.                                      *)
LEMMA ElemsPopped ==
    ASSUME NEW count, NEW taken \in Seq(Str), count = <<>> => Len(taken) = 1
    PROVE  Elems(Popped(count, taken)) = taken
<1>1. CASE count = <<>>
  <2>1. taken = <<taken[1]>>
    BY <1>1
  <2>2. Elems(Popped(count, taken)) = <<taken[1]>>
    BY <1>1 DEF Popped, Elems
  <2> QED
    BY <2>1, <2>2
<1>2. CASE count # <<>>
  BY <1>2 DEF Popped, Elems
<1> QED
  BY <1>1, <1>2

(* An entry that keeps its deadline and its type, with another list.        *)
LEMMA Shortened ==
    ASSUME NEW e \in Entry, Live(e, now), e.type = "list", NEW l \in Seq(Str)
    PROVE  AllElems([e EXCEPT !.list = l]) = l
<1> DEFINE x == [e EXCEPT !.list = l]
<1>1. x \in Entry /\ x.type = "list" /\ x.list = l /\ x.exp = e.exp
  BY DEF Entry
<1> HIDE DEF x
<1>2. Live(x, now)
  BY <1>1 DEF Live, Present, IsExpired
<1>3. AllElems(x) = l
  BY <1>1, <1>2, AllElemsIs
<1> QED
  BY <1>3 DEF x

(* A pop replies with the elements LRANGE showed at its end of the list,    *)
(* and leaves the others.                                                   *)
LEMMA PopShows ==
    ASSUME now \in Nat, NEW e \in Entry, NEW db, NEW k, NEW count \in CountArg
    PROVE  /\ Elems(LPop(e, now, db, k, count).reply) \o AllElems(LPop(e, now, db, k, count).value) = AllElems(e)
           /\ AllElems(RPop(e, now, db, k, count).value) \o Elems(RPop(e, now, db, k, count).reply) = AllElems(e)
<1>1. e.list \in Seq(Str) /\ Len(e.list) \in Nat
  BY DEF Entry
<1>2. AllElems(e) \in Seq(Str)
  BY <1>1, AllElemsIs, EmptySeq
<1>3. CASE PopRefused(e, now, count)
  <2> DEFINE no == PopRefusal(e, now, count)
  <2>1. Elems(no) = <<>>
    BY DEF PopRefusal, Nil, ErrRange, ErrWrongType, Elems
  <2>2. /\ LPop(e, now, db, k, count).value = e /\ LPop(e, now, db, k, count).reply = no
        /\ RPop(e, now, db, k, count).value = e /\ RPop(e, now, db, k, count).reply = no
    <3> HIDE DEF no
    <3> QED
      BY <1>3 DEF LPop, RPop, Result, no
  <2>3. <<>> \o AllElems(e) = AllElems(e) /\ AllElems(e) \o <<>> = AllElems(e)
    BY <1>2, ConcatEmptySeq
  <2> QED
    BY <2>1, <2>2, <2>3
<1>4. CASE ~PopRefused(e, now, count)
  <2> DEFINE l == e.list
  <2>1. PICK n \in 0 .. Len(l) : n = Count(count, Len(l))
    BY <1>4, CountRange
  <2>2. Live(e, now) /\ e.type = "list" /\ Len(l) # 0
    BY <1>1, <1>4 DEF PopRefused
  <2>3. count = <<>> => n = 1
    BY <1>1, <2>1, <2>2 DEF Count
  <2>4. AllElems(e) = l
    BY <2>2, AllElemsIs
  <2>5. PICK m \in 0 .. Len(l) : m = Len(l) - n
    BY <1>1, <2>1
  <2> DEFINE La == SubSeq(l, 1, n)
             Lb == SubSeq(l, n + 1, Len(l))
             Ra == SubSeq(l, 1, m)
             Rb == SubSeq(l, m + 1, Len(l))
  <2>6. LPop(e, now, db, k, count) = Result([e EXCEPT !.list = Lb], <<<<"LPOP", db, k, n>>>>, Popped(count, La))
    <3> HIDE DEF La, Lb
    <3> QED
      BY <1>4, <2>1 DEF LPop, La, Lb
  <2>7. RPop(e, now, db, k, count) = Result([e EXCEPT !.list = Ra], <<<<"RPOP", db, k, n>>>>, Popped(count, Rb))
    BY <1>4, <2>1, <2>5 DEF RPop
  <2>8. La \in Seq(Str) /\ Lb \in Seq(Str) /\ Ra \in Seq(Str) /\ Rb \in Seq(Str)
    BY <1>1
  <2>9. Len(La) = n /\ Len(Rb) = n
    BY <1>1, <2>1, <2>5
  <2>10. La \o Lb = l /\ Ra \o Rb = l
    BY <1>1, SplitAt
  <2> HIDE DEF l, La, Lb, Ra, Rb
  <2>11. Elems(Popped(count, La)) = La /\ Elems(Popped(count, Rb)) = Rb
    <3>1. count = <<>> => Len(La) = 1 /\ Len(Rb) = 1
      BY <2>3, <2>9
    <3> QED
      BY <2>8, <3>1, ElemsPopped
  <2>12. AllElems([e EXCEPT !.list = Lb]) = Lb /\ AllElems([e EXCEPT !.list = Ra]) = Ra
    BY <2>2, <2>8, Shortened
  <2>13. /\ LPop(e, now, db, k, count).value = [e EXCEPT !.list = Lb]
         /\ LPop(e, now, db, k, count).reply = Popped(count, La)
    BY <2>6 DEF Result
  <2>14. /\ RPop(e, now, db, k, count).value = [e EXCEPT !.list = Ra]
         /\ RPop(e, now, db, k, count).reply = Popped(count, Rb)
    BY <2>7 DEF Result
  <2> QED
    BY <2>4, <2>10, <2>11, <2>12, <2>13, <2>14
<1> QED
  BY <1>3, <1>4

(* LTRIM leaves what LRANGE shows of the same window.                       *)
LEMMA TrimShows ==
    ASSUME now \in Nat, NEW e \in Entry, NEW db, NEW k, NEW start \in Int, NEW stop \in Int, e.type = "list"
    PROVE  AllElems(LTrim(e, now, db, k, start, stop).value) = Elems(LRange(e, now, start, stop))
<1> DEFINE len == Len(e.list)
           lo  == Lo(start, len)
           hi  == Hi(stop, len)
           l   == SubSeq(e.list, lo + 1, hi + 1)
<1>1. e.list \in Seq(Str) /\ len \in Nat
  BY DEF Entry
<1>2. lo \in Nat /\ hi \in Int /\ hi < len
  BY <1>1, WindowRange
<1>3. CASE ~Live(e, now)
  <2>1. LTrim(e, now, db, k, start, stop).value = e
    BY <1>3 DEF LTrim, Result
  <2>2. LRange(e, now, start, stop) = Nil
    BY <1>3 DEF LRange
  <2> QED
    BY <1>3, <2>1, <2>2, AllElemsIs DEF Nil, Elems
<1>4. CASE Live(e, now) /\ (lo > hi \/ lo >= len)
  <2>1. LTrim(e, now, db, k, start, stop).value = Missing
    BY <1>4 DEF LTrim, Result
  <2>2. LRange(e, now, start, stop) = <<"list", <<>>>>
    BY <1>4 DEF LRange
  <2>3. ~Live(Missing, now)
    BY DEF Live, Present, Missing
  <2> QED
    BY <2>1, <2>2, <2>3, MissingType, AllElemsIs DEF Elems
<1>5. CASE Live(e, now) /\ ~(lo > hi \/ lo >= len)
  <2>1. ~(lo > hi \/ lo >= len \/ hi < 0)
    <3> HIDE DEF lo, hi, len
    <3> QED
      BY <1>2, <1>5
  <2>2. LTrim(e, now, db, k, start, stop).value = [e EXCEPT !.list = l]
    <3> HIDE DEF l
    <3> QED
      BY <1>5 DEF LTrim, Result, l
  <2>3. LRange(e, now, start, stop) = <<"list", l>>
    <3> HIDE DEF l
    <3> QED
      BY <1>5, <2>1 DEF LRange, l
  <2>4. l \in Seq(Str)
    <3> HIDE DEF lo, hi
    <3> QED
      BY <1>1, <1>2
  <2> HIDE DEF l
  <2>5. AllElems([e EXCEPT !.list = l]) = l
    BY <1>5, <2>4, Shortened
  <2> QED
    BY <2>2, <2>3, <2>5 DEF Elems
<1> QED
  BY <1>3, <1>4, <1>5

(* TTL of an entry whose deadline lies secs seconds ahead.                  *)
LEMMA TTLAhead ==
    ASSUME now \in Nat, NEW e, Present(e), NEW x \in Nat, e.exp = now + x
    PROVE  TTL(e, now) = x \div Second
<1>1. e.exp # Never /\ e.exp >= now /\ e.exp - now = x
  BY DEF Never
<1> QED
  BY <1>1 DEF TTL

(* TTL shows the deadline that EXPIRE gave.                                 *)
LEMMA ExpireShows ==
    ASSUME now \in Nat, NEW e \in Entry, NEW db, NEW k, NEW secs \in Nat, NEW r, r = Expire(e, now, db, k, secs)
    PROVE  /\ ~IsExpired(e, now) => r.reply = Num(IF TTL(e, now) = -2 THEN 0 ELSE 1)
           /\ TTL(r.value, now) = IF r.reply = Num(1) THEN secs ELSE -2
<1>1. secs * Second \in Nat /\ (secs * Second) \div Second = secs
  BY SecondAssumption
<1>2. CASE ~Present(e)
  <2>1. r.value = e /\ r.reply = Num(0) /\ TTL(e, now) = -2
    BY <1>2 DEF Expire, Result, TTL
  <2> QED
    BY <2>1 DEF Num
<1>3. CASE Present(e)
  <2> DEFINE x == secs * Second
             v == [e EXCEPT !.exp = now + x]
  <2>1. r.value = v /\ r.reply = Num(1)
    <3> HIDE DEF v
    <3> QED
      BY <1>3 DEF Expire, Result, v
  <2>2. v.exp = now + x /\ Present(v)
    BY <1>3 DEF Entry, Present
  <2>3. TTL(v, now) = x \div Second
    <3> HIDE DEF v, x
    <3>1. x \in Nat
      BY <1>1 DEF x
    <3> QED
      BY <2>2, <3>1, TTLAhead
  <2>4. ASSUME ~IsExpired(e, now) PROVE TTL(e, now) # -2
    <3>1. e.exp = Never \/ (e.exp \in Nat /\ e.exp >= now)
      BY <2>4 DEF IsExpired, Entry
    <3>2. CASE e.exp = Never
      BY <1>3, <3>2 DEF TTL
    <3>3. CASE e.exp # Never
      <4>1. PICK y \in Nat : y = e.exp - now
        BY <3>1, <3>3
      <4>2. TTL(e, now) = y \div Second
        BY <1>3, <3>1, <3>3, <4>1 DEF TTL
      <4>3. y \div Second >= 0
        BY SecondAssumption
      <4>4. y \div Second \in Int
        BY SecondAssumption
      <4> QED
        BY <4>2, <4>3, <4>4
    <3> QED
      BY <3>2, <3>3
  <2> HIDE DEF v
  <2> QED
    BY <1>1, <2>1, <2>3, <2>4 DEF Num
<1> QED
  BY <1>2, <1>3

(* TTL shows the deadline that SET gave, or that it gave none.              *)
LEMMA SetShows ==
    ASSUME now \in Nat, NEW e \in Entry, NEW db, NEW k, NEW v \in Str, NEW o \in Options,
           NEW r, r = Set(e, now, db, k, v, o), r.reply = Ok
    PROVE  TTL(r.value, now) = IF o.ex > 0 THEN o.ex ELSE IF o.px > 0 THEN o.px \div Second ELSE -1
<1> DEFINE new      == NewStringValue(v)
           later(x) == [new EXCEPT !.exp = now + x]
<1>1. new \in Entry /\ Present(new) /\ new.exp = Never
  <2>1. Present(new) /\ new.exp = Never
    BY DEF NewStringValue, Missing, Present
  <2> QED
    BY <2>1, NewValueType
<1>2. ASSUME NEW x \in Nat PROVE TTL(later(x), now) = x \div Second
  <2> HIDE DEF new
  <2>1. later(x).exp = now + x /\ Present(later(x))
    BY <1>1 DEF Entry, Present
  <2> HIDE DEF later
  <2> QED
    BY <2>1, TTLAhead
<1>3. TTL(new, now) = -1
  <2> HIDE DEF new
  <2> QED
    BY <1>1 DEF TTL
<1>4. r.value = IF o.ex > 0 THEN later(o.ex * Second) ELSE IF o.px > 0 THEN later(o.px) ELSE new
  <2> HIDE DEF new
  <2> QED
    BY DEF Set, Result, Ok, Nil, ErrSyntax, new
<1>5. o.ex > 0 => o.ex * Second \in Nat /\ (o.ex * Second) \div Second = o.ex
  BY SecondAssumption DEF Options
<1>6. o.px > 0 => o.px \in Nat
  BY DEF Options
<1> HIDE DEF later, new
<1> QED
  BY <1>2, <1>3, <1>4, <1>5, <1>6

(* RENAME moves what GET shows.                                             *)
LEMMA RenameShows ==
    ASSUME TypeOK, NEW db \in Db, NEW k \in Key
    PROVE  RenameReplies(db, k)
<1> SUFFICES ASSUME NEW new \in Key \ {k}, NEW r, r = Rename(data, now, db, k, new), Live(data[db][k], now)
             PROVE  /\ Get(r.data[db][new], now) = Get(data[db][k], now)
                    /\ ~Exists(r.data[db][k], now)
  BY DEF RenameReplies
<1>1. data \in Data
  BY DEF TypeOK
<1>2. r.data = [data EXCEPT ![db] = [[@ EXCEPT ![new] = data[db][k]] EXCEPT ![k] = Missing]]
  BY DEF Rename, Outcome, Live
<1>3. r.data[db][new] = data[db][k] /\ r.data[db][k] = Missing
  BY <1>1, <1>2 DEF Data
<1>4. ~Live(Missing, now)
  BY DEF Live, Present, Missing
<1> QED
  BY <1>3, <1>4 DEF Exists

(* Replies and readers agree in every well-typed state.                     *)
LEMMA TypedReplies == ASSUME IsFiniteSet(Field), TypeOK PROVE RepliesMatchReads
<1> SUFFICES ASSUME NEW db \in Db, NEW k \in Key, NEW e, e = data[db][k]
             PROVE  HashReplies(db, k, e) /\ ListReplies(db, k, e) /\ TTLReplies(db, k, e) /\ RenameReplies(db, k)
  BY DEF RepliesMatchReads
<1>1. e \in Entry /\ now \in Nat
  BY DEF TypeOK, Data
<1>2. HashReplies(db, k, e)
  <2>1. ASSUME NEW fv \in FieldMaps, NEW r, r = HSet(e, now, db, k, fv), Counted(r)
        PROVE  r.reply[2] = HLen(r.value) - HLen(e)
    BY <1>1, <2>1, ArgsAssumption, HSetCounts
  <2>2. ASSUME NEW fs \in FieldSets, NEW r, r = HDel(e, now, db, k, fs), Counted(r)
        PROVE  r.reply[2] = HLen(e) - HLen(r.value)
    BY <1>1, <2>2, ArgsAssumption, HDelCounts
  <2> QED
    BY <2>1, <2>2 DEF HashReplies
<1>3. ListReplies(db, k, e)
  <2>1. ASSUME NEW vals \in Pushes, NEW r \in {LPush(e, db, k, vals), RPush(e, db, k, vals)},
               Counted(r), ~IsExpired(e, now)
        PROVE  r.reply[2] = Len(AllElems(r.value))
    BY <1>1, <2>1, ArgsAssumption, PushCounts
  <2>2. ASSUME NEW count \in Counts
        PROVE  /\ Elems(LPop(e, now, db, k, count).reply) \o AllElems(LPop(e, now, db, k, count).value) = AllElems(e)
               /\ AllElems(RPop(e, now, db, k, count).value) \o Elems(RPop(e, now, db, k, count).reply) = AllElems(e)
    BY <1>1, CountsAreArgs, PopShows
  <2>3. ASSUME NEW w \in Windows, e.type = "list"
        PROVE  AllElems(LTrim(e, now, db, k, w[1], w[2]).value) = Elems(LRange(e, now, w[1], w[2]))
    BY <1>1, <2>3, ArgsAssumption, TrimShows
  <2> QED
    BY <2>1, <2>2, <2>3 DEF ListReplies
<1>4. TTLReplies(db, k, e)
  <2>1. ASSUME NEW secs \in TTLs, NEW r, r = Expire(e, now, db, k, secs)
        PROVE  /\ ~IsExpired(e, now) => r.reply = Num(IF TTL(e, now) = -2 THEN 0 ELSE 1)
               /\ TTL(r.value, now) = IF r.reply = Num(1) THEN secs ELSE -2
    BY <1>1, <2>1, ArgsAssumption, ExpireShows
  <2>2. ASSUME NEW v \in Writes, NEW o \in OptionSets, NEW r, r = Set(e, now, db, k, v, o), r.reply = Ok
        PROVE  TTL(r.value, now) = IF o.ex > 0 THEN o.ex ELSE IF o.px > 0 THEN o.px \div Second ELSE -1
    BY <1>1, <2>2, ArgsAssumption, SetShows
  <2> QED
    BY <2>1, <2>2 DEF TTLReplies
<1> QED
  BY <1>2, <1>3, <1>4, RenameShows

(* The replies of the methods and what the readers show before and after    *)
(* agree in every reachable state, for all arguments: counts of fields and  *)
(* elements, popped elements, trimmed windows, deadlines, renamed values.   *)
THEOREM RepliesAreTrue == IsFiniteSet(Field) => (Spec => []RepliesMatchReads)
<1> SUFFICES ASSUME IsFiniteSet(Field) PROVE Spec => []RepliesMatchReads
  OBVIOUS
<1>1. TypeOK => RepliesMatchReads
  BY TypedReplies
<1> QED
  BY <1>1, Typing, PTL
=============================================================================
