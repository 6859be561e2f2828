------------------------- MODULE PersistenceProofs -------------------------
(***************************************************************************)
(* Theorems about Persistence, for any keys, calls, clocks and bounds.     *)
(***************************************************************************)
EXTENDS Persistence, StoreOpsProofs, SequenceTheorems

-----------------------------------------------------------------------------
(* Calls, and the commands they log.                                        *)

Command == ({"SET"} \X Db \X Key \X Str) \cup OtherCalls
Record  == [cmd : Command, op : Nat]

(* What a command maps data to, and what it logs again.                     *)
LEMMA CommandType ==
    ASSUME NEW c \in Command, NEW d \in Data, NEW t \in Nat
    PROVE  /\ dispatchAOF(c, d, t).data \in Data
           /\ dispatchAOF(c, d, t).log \in Seq(Command)
           /\ \/ dispatchAOF(c, d, t).log = <<>> /\ dispatchAOF(c, d, t).data = d
              \/ dispatchAOF(c, d, t).log = <<c>>
<1>1. \A db \in Db, k \in Key : d[db][k] \in Entry
  BY DEF Data
<1> DEFINE R == dispatchAOF(c, d, t)
           Good == R.data \in Data /\ ((R.log = <<>> /\ R.data = d) \/ R.log = <<c>>)
<1>0. ASSUME NEW db \in Db, NEW k \in Key, NEW r, R = At(d, db, k, r)
      PROVE  R.log = r.log /\ (r.value = d[db][k] => R.data = d)
  BY <1>0, AtFields, SameData
<1>2. ASSUME NEW db \in Db, NEW k \in Key, NEW v \in Str, c = <<"SET", db, k, v>> PROVE Good
  <2>1. R.data \in Data
    BY <1>2, ExecutableOnKey DEF Executable
  <2>2. R.log = Set(d[db][k], t, db, k, v, NoOption).log /\ (Set(d[db][k], t, db, k, v, NoOption).value = d[db][k] => R.data = d)
    <3>1. R = At(d, db, k, Set(d[db][k], t, db, k, v, NoOption))
      BY <1>2 DEF dispatchAOF
    <3> HIDE DEF R
    <3> QED
      BY <3>1, <1>0
  <2> QED
    BY <1>2, <2>1, <2>2 DEF Set, NoOption, Result
<1>3. ASSUME NEW db \in Db, NEW k \in Key, c = <<"DEL", db, k>> PROVE Good
  <2>1. R.data \in Data
    BY <1>3, ExecutableOnKey DEF Executable
  <2>2. R.log = Del(d[db][k], db, k).log /\ (Del(d[db][k], db, k).value = d[db][k] => R.data = d)
    <3>1. R = At(d, db, k, Del(d[db][k], db, k))
      BY <1>3 DEF dispatchAOF
    <3> HIDE DEF R
    <3> QED
      BY <3>1, <1>0
  <2> QED
    BY <1>3, <2>1, <2>2 DEF Del, Result
<1>4. ASSUME NEW db \in Db, NEW k \in Key, c = <<"INCR", db, k>> \/ c = <<"DECR", db, k>> PROVE Good
  <2>1. R.data \in Data
    BY <1>4, ExecutableOnKey DEF Executable
  <2>2. CASE c = <<"INCR", db, k>>
    <3>1. R.log = Incr(d[db][k], db, k).log /\ (Incr(d[db][k], db, k).value = d[db][k] => R.data = d)
      <4>1. R = At(d, db, k, Incr(d[db][k], db, k))
        BY <2>2 DEF dispatchAOF
      <4> HIDE DEF R
      <4> QED
        BY <4>1, <1>0
    <3> QED
      BY <2>1, <2>2, <3>1 DEF Incr, AddInt, Result
  <2>3. CASE c = <<"DECR", db, k>>
    <3>1. R.log = Decr(d[db][k], db, k).log /\ (Decr(d[db][k], db, k).value = d[db][k] => R.data = d)
      <4>1. R = At(d, db, k, Decr(d[db][k], db, k))
        BY <2>3 DEF dispatchAOF
      <4> HIDE DEF R
      <4> QED
        BY <4>1, <1>0
    <3> QED
      BY <2>1, <2>3, <3>1 DEF Decr, AddInt, Result
  <2> QED
    BY <1>4, <2>2, <2>3
<1>5. ASSUME NEW db \in Db, NEW k \in Key, NEW secs \in Nat, c = <<"EXPIRE", db, k, secs>> PROVE Good
  <2>1. R.data \in Data
    BY <1>5, ExecutableOnKey DEF Executable
  <2>2. R.log = Expire(d[db][k], t, db, k, secs).log /\ (Expire(d[db][k], t, db, k, secs).value = d[db][k] => R.data = d)
    <3>1. R = At(d, db, k, Expire(d[db][k], t, db, k, secs))
      BY <1>5 DEF dispatchAOF
    <3> HIDE DEF R
    <3> QED
      BY <3>1, <1>0
  <2> QED
    BY <1>5, <2>1, <2>2 DEF Expire, Result
<1>6. ASSUME NEW db \in Db, NEW k \in Key, NEW vals \in Seq(Str), c = <<"LPUSH", db, k, vals>> \/ c = <<"RPUSH", db, k, vals>>
      PROVE  Good
  <2>1. R.data \in Data
    BY <1>6, ExecutableOnList DEF Executable
  <2>2. CASE c = <<"LPUSH", db, k, vals>>
    <3>1. R.log = LPush(d[db][k], db, k, vals).log /\ (LPush(d[db][k], db, k, vals).value = d[db][k] => R.data = d)
      <4>1. R = At(d, db, k, LPush(d[db][k], db, k, vals))
        BY <2>2 DEF dispatchAOF
      <4> HIDE DEF R
      <4> QED
        BY <4>1, <1>0
    <3> QED
      BY <2>1, <2>2, <3>1 DEF LPush, Result
  <2>3. CASE c = <<"RPUSH", db, k, vals>>
    <3>1. R.log = RPush(d[db][k], db, k, vals).log /\ (RPush(d[db][k], db, k, vals).value = d[db][k] => R.data = d)
      <4>1. R = At(d, db, k, RPush(d[db][k], db, k, vals))
        BY <2>3 DEF dispatchAOF
      <4> HIDE DEF R
      <4> QED
        BY <4>1, <1>0
    <3> QED
      BY <2>1, <2>3, <3>1 DEF RPush, Result
  <2> QED
    BY <1>6, <2>2, <2>3
<1>7. ASSUME NEW db \in Db, NEW k \in Key, NEW fv \in HashData, c = <<"HSET", db, k, fv>> PROVE Good
  <2>1. R.data \in Data
    BY <1>7, ExecutableOnHash DEF Executable
  <2>2. R.log = HSet(d[db][k], t, db, k, fv).log /\ (HSet(d[db][k], t, db, k, fv).value = d[db][k] => R.data = d)
    <3>1. R = At(d, db, k, HSet(d[db][k], t, db, k, fv))
      BY <1>7 DEF dispatchAOF
    <3> HIDE DEF R
    <3> QED
      BY <3>1, <1>0
  <2> QED
    BY <1>7, <2>1, <2>2 DEF HSet, Result
<1>8. Good
  <2> HIDE DEF Good
  <2> QED
    BY <1>2, <1>3, <1>4, <1>5, <1>6, <1>7 DEF Command, OtherCalls
<1>9. <<>> \in Seq(Command) /\ <<c>> \in Seq(Command) 
  OBVIOUS
<1> HIDE DEF R
<1>10. R.data \in Data /\ R.log \in Seq(Command) /\ ((R.log = <<>> /\ R.data = d) \/ R.log = <<c>>)
  <2>1. CASE R.log = <<>>
    BY <1>8, <1>9, <2>1
  <2>2. CASE R.log = <<c>>
    BY <1>8, <1>9, <2>2
  <2> QED
    BY <1>8, <2>1, <2>2
<1> QED
  BY <1>10 DEF R

(* A call is SET with its options, or a command.                            *)
LEMMA CallShape ==
    ASSUME NEW call \in Calls
    PROVE  \/ \E db \in Db, k \in Key, v \in Str, o \in Options : call = <<"SET", db, k, v, o>>
           \/ call \in OtherCalls /\ call[1] # "SET" /\ call[2] \in Db /\ call[3] \in Key
BY CallsAssumption DEF SetCalls, OtherCalls

(* What a call does to the store, and what it logs.                         *)
LEMMA CallType ==
    ASSUME mem \in Data, now \in Nat, NEW call \in Calls
    PROVE  /\ Exec(call).data \in Data /\ Exec(call).log \in Seq(Command)
           /\ call[2] \in Db /\ call[3] \in Key
<1>1. ASSUME NEW db \in Db, NEW k \in Key, NEW v \in Str, NEW o \in Options, call = <<"SET", db, k, v, o>>
      PROVE  Exec(call).data \in Data /\ Exec(call).log \in Seq(Command)
  <2> DEFINE e == mem[db][k]
             r == Set(e, now, db, k, v, o)
             b == <<"SET", db, k, v>>
  <2>1. e \in Entry
    BY DEF Data
  <2>2. Exec(call) = At(mem, db, k, r)
    BY <1>1 DEF Exec
  <2>3. r.value \in Entry
    BY <2>1, SetType
  <2>4. At(mem, db, k, r).data \in Data /\ At(mem, db, k, r).log = r.log
    BY <2>3, AtType DEF At, Outcome
  <2>5. \A secs \in Nat : <<"EXPIRE", db, k, secs>> \in Command
    BY DEF Command, OtherCalls
  <2>6. b \in Command
    BY DEF Command
  <2>7. (o.ex > 0 => o.ex \in Nat) /\ (o.px > 0 => o.px \div Second \in Nat)
    BY SecondAssumption DEF Options
  <2>8. \/ r.log = <<>> \/ r.log = <<b>>
        \/ \E c \in Command : r.log = <<b, c>>
    BY <2>5, <2>7 DEF Set, Result
  <2>9. r.log \in Seq(Command)
    <3> HIDE DEF r, b
    <3>1. <<>> \in Seq(Command) /\ <<b>> \in Seq(Command)
      BY <2>6
    <3>2. ASSUME NEW c \in Command PROVE <<b, c>> \in Seq(Command)
      BY <2>6
    <3> QED
      BY <2>8, <3>1, <3>2
  <2> QED
    BY <2>2, <2>4, <2>9
<1>2. ASSUME call \in OtherCalls, call[1] # "SET"
      PROVE  Exec(call).data \in Data /\ Exec(call).log \in Seq(Command)
  <2>1. call \in Command /\ Exec(call) = dispatchAOF(call, mem, now)
    BY <1>2 DEF Command, Exec
  <2> QED
    BY <2>1, CommandType
<1>3. call[2] \in Db /\ call[3] \in Key
  BY CallShape
<1> QED
  BY <1>1, <1>2, <1>3, CallShape

(* A function on 1 .. n is a sequence of length n.                          *)
LEMMA IsRecords ==
    ASSUME NEW n \in Nat, NEW s \in [1 .. n -> Record]
    PROVE  s \in Seq(Record) /\ Len(s) = n
<1>1. s \in Seq(Record)
  BY SeqDef
<1> QED
  BY <1>1, LenProperties

-----------------------------------------------------------------------------
(* Types.  The records of s belong to the first n calls.                    *)
Known(s, n) == \A i \in 1 .. Len(s) : s[i].op <= n
Holder   == [by : {Client, Replay, Nobody}, out : Data \cup {<<>>}, todo : Seq(Record),
             key : (Db \X Key) \cup {<<>>}, inPlace : BOOLEAN]
Saver    == [step : {"idle", "called", "copied", "open"}, img : Data \cup {<<>>},
             shared : SUBSET (Db \X Key), overlap : BOOLEAN]
Snapshot == [state : {"none", "torn", "ok"}, img : Data]

StoreTypes ==
    /\ phase \in {"down", "load", "replay", "recovered", "up"}
    /\ mem \in Data /\ now \in Nat
    /\ holder \in Holder
    /\ ~Unlocked => holder.out \in Data
    /\ Unlocked => holder.todo = <<>>
LogTypes ==
    /\ {chan, pen, aof} \subseteq Seq(Record)
    /\ Len(chan) <= ChanCap /\ Len(pen) <= 1
    /\ closed \in BOOLEAN /\ writer \in {"off", "on"}
    /\ replayed \in Nat /\ replayed <= Len(aof)
    /\ hist \in Seq(Data) /\ durable \in Nat \ {0} /\ durable <= Len(hist)
    /\ Known(holder.todo, Len(hist)) /\ Known(chan, Len(hist)) /\ Known(pen, Len(hist))
SaveTypes ==
    /\ saver \in [Savers -> Saver]
    /\ \A s \in Savers : saver[s].step \in {"copied", "open"} \/ saver[s].shared # {} => saver[s].img \in Data
    /\ stop \in {"no", "stopped", "save", "done"}
    /\ rdb \in Snapshot
Types == StoreTypes /\ LogTypes /\ SaveTypes

(* The inductive types give the type invariant.                             *)
LEMMA TypesOK == Types => TypeOK
<1> SUFFICES ASSUME Types PROVE TypeOK
  OBVIOUS
<1>1. replayed \in 0 .. Len(aof) /\ durable \in 1 .. Len(hist)
  <2>1. Len(aof) \in Nat /\ Len(hist) \in Nat
    BY DEF Types, LogTypes
  <2> QED
    BY <2>1 DEF Types, LogTypes
<1> QED
  BY <1>1 DEF TypeOK, Types, StoreTypes, LogTypes, SaveTypes, Holder, Saver, Snapshot

(* The memory of a new process.                                             *)
LEMMA FreshTypes ==
    ASSUME Types, Fresh, UNCHANGED <<aof, hist, durable, now, rdb>>,
           phase' \in {"down", "load", "replay", "recovered", "up"}
    PROVE  Types'
<1>1. NoStore \in Data
  BY EmptyType DEF NoStore
<1>2. Free \in Holder /\ Free.by = Nobody /\ Free.todo = <<>>
  BY DEF Free, Holder
<1>0. <<>> \in Seq(Record) /\ Len(<<>>) = 0
  OBVIOUS
<1>3. NoSave \in Saver /\ NoSave.step = "idle" /\ NoSave.shared = {}
  BY DEF NoSave, Saver
<1>4. StoreTypes'
  BY <1>1, <1>2 DEF Types, StoreTypes, Fresh, Unlocked
<1>5. LogTypes'
  <2>1. chan' = <<>> /\ pen' = <<>> /\ holder'.todo = <<>> /\ replayed' = 0 /\ closed' = FALSE /\ writer' = "off"
    BY <1>2 DEF Fresh
  <2>2. Len(aof) \in Nat
    BY DEF Types, LogTypes
  <2>3. Known(holder'.todo, Len(hist')) /\ Known(chan', Len(hist')) /\ Known(pen', Len(hist'))
    BY <1>0, <2>1 DEF Known
  <2>4. Len(chan') <= ChanCap /\ Len(pen') <= 1 /\ replayed' <= Len(aof')
    BY <1>0, <2>1, <2>2, BoundsAssumption
  <2> QED
    BY <1>0, <2>1, <2>3, <2>4 DEF Types, LogTypes
<1>6. SaveTypes'
  BY <1>3 DEF Types, SaveTypes, Fresh
<1> QED
  BY <1>4, <1>5, <1>6 DEF Types

(* The types hold at first,                                                 *)
LEMMA InitTypes == Init => Types
<1> SUFFICES ASSUME Init PROVE Types
  OBVIOUS
<1>1. NoStore \in Data
  BY EmptyType DEF NoStore
<1>2. Free \in Holder /\ Free.by = Nobody /\ Free.todo = <<>>
  BY DEF Free, Holder
<1>0. <<>> \in Seq(Record) /\ Len(<<>>) = 0
  OBVIOUS
<1>3. NoSave \in Saver /\ NoSave.step = "idle" /\ NoSave.shared = {}
  BY DEF NoSave, Saver
<1>4. StoreTypes
  BY <1>1, <1>2 DEF StoreTypes, Init, Unlocked
<1>5. LogTypes
  <2>1. hist \in Seq(Data) /\ Len(hist) = 1
    BY <1>1 DEF Init
  <2>2. chan = <<>> /\ pen = <<>> /\ aof = <<>> /\ holder.todo = <<>> /\ replayed = 0 /\ closed = FALSE
        /\ writer = "off" /\ durable = 1
    BY <1>2 DEF Init
  <2>3. Known(holder.todo, Len(hist)) /\ Known(chan, Len(hist)) /\ Known(pen, Len(hist))
    BY <1>0, <2>2 DEF Known
  <2>4. Len(chan) <= ChanCap /\ Len(pen) <= 1 /\ replayed <= Len(aof) /\ durable <= Len(hist)
    BY <1>0, <2>1, <2>2, BoundsAssumption
  <2>5. {chan, pen, aof} \subseteq Seq(Record)
    BY <1>0, <2>2
  <2>6. closed \in BOOLEAN
    BY DEF Init
  <2>7. writer \in {"off", "on"} /\ replayed \in Nat /\ durable \in Nat \ {0}
    BY DEF Init
  <2> QED
    BY <2>1, <2>3, <2>4, <2>5, <2>6, <2>7 DEF LogTypes
<1>6. SaveTypes
  BY <1>1, <1>3 DEF SaveTypes, Init, NoFile, Snapshot
<1> QED
  BY <1>4, <1>5, <1>6 DEF Types

(* More calls know more.                                                    *)
LEMMA KnownGrows ==
    ASSUME NEW s \in Seq(Record), NEW m \in Nat, NEW n \in Nat, m <= n, Known(s, m)
    PROVE  Known(s, n)
<1>1. \A i \in 1 .. Len(s) : s[i] \in Record
  BY ElementOfSeq
<1>2. \A i \in 1 .. Len(s) : s[i].op \in Nat
  BY <1>1 DEF Record
<1> QED
  BY <1>2 DEF Known

(* Appending a record, and taking the first.                                *)
LEMMA QueueTypes ==
    ASSUME NEW s \in Seq(Record), NEW r \in Record, NEW n \in Nat, Known(s, n), r.op <= n
    PROVE  /\ Append(s, r) \in Seq(Record) /\ Len(Append(s, r)) = Len(s) + 1 /\ Known(Append(s, r), n)
           /\ s # <<>> => Head(s) \in Record /\ Tail(s) \in Seq(Record) /\ Len(Tail(s)) = Len(s) - 1
                          /\ Head(s).op <= n /\ Known(Tail(s), n)
<1>1. Append(s, r) \in Seq(Record) /\ Len(Append(s, r)) = Len(s) + 1
  OBVIOUS
<1>2. Known(Append(s, r), n)
  BY <1>1, AppendProperties DEF Known
<1>3. ASSUME s # <<>>
      PROVE  Head(s) \in Record /\ Tail(s) \in Seq(Record) /\ Len(Tail(s)) = Len(s) - 1
             /\ Head(s).op <= n /\ Known(Tail(s), n)
  <2>1. Len(s) \in Nat \ {0} /\ Head(s) = s[1] /\ Head(s) \in Record
    BY <1>3, EmptySeq, HeadTailProperties
  <2>2. Tail(s) \in Seq(Record) /\ Len(Tail(s)) = Len(s) - 1 /\ \A i \in 1 .. Len(Tail(s)) : Tail(s)[i] = s[i + 1]
    BY <1>3, HeadTailProperties
  <2>3. Head(s).op <= n
    BY <2>1 DEF Known
  <2>4. Known(Tail(s), n)
    BY <2>1, <2>2 DEF Known
  <2> QED
    BY <2>1, <2>2, <2>3, <2>4
<1> QED
  BY <1>1, <1>2, <1>3

(* Recovery.                                                                *)
LEMMA RecoveryTypes == ASSUME Types, Recovery PROVE Types'
<1>1. CASE LoadSnapshot
  BY <1>1 DEF LoadSnapshot, Types, StoreTypes, LogTypes, SaveTypes, Snapshot, Unlocked, files, history, Known
<1>2. CASE ReplayCommand
  <2> DEFINE r == dispatchAOF(aof[replayed + 1].cmd, mem, now)
             todo == [i \in 1 .. Len(r.log) |-> [cmd |-> r.log[i], op |-> 0]]
  <2>1. aof[replayed + 1] \in Record
    <3>1. replayed + 1 \in 1 .. Len(aof) /\ aof \in Seq(Record)
      BY <1>2 DEF ReplayCommand, Types, LogTypes
    <3> QED
      BY <3>1, ElementOfSeq
  <2>2. r.data \in Data /\ r.log \in Seq(Command)
    BY <2>1, CommandType DEF Record, Types, StoreTypes
  <2>3. holder' = [by |-> Replay, out |-> r.data, key |-> <<>>, inPlace |-> FALSE, todo |-> todo]
    BY <1>2 DEF ReplayCommand
  <2> HIDE DEF r
  <2>4. todo \in Seq(Record)
    <3>1. Len(r.log) \in Nat /\ \A i \in 1 .. Len(r.log) : r.log[i] \in Command
      BY <2>2, ElementOfSeq
    <3>2. todo \in [1 .. Len(r.log) -> Record]
      BY <3>1 DEF Record
    <3> HIDE DEF todo
    <3> QED
      BY <3>1, <3>2, IsRecords
  <2>5. Known(todo, Len(hist))
    <3>1. Len(todo) = Len(r.log) /\ Len(r.log) \in Nat /\ Len(hist) \in Nat
      BY <2>2 DEF Types, LogTypes
    <3> QED
      BY <3>1 DEF Known
  <2> HIDE DEF todo
  <2>6. holder' \in Holder /\ holder'.out \in Data /\ holder'.by # Nobody /\ holder'.todo = todo
    BY <2>2, <2>3, <2>4 DEF Holder, Replay, Nobody
  <2>7. StoreTypes'
    BY <1>2, <2>6 DEF ReplayCommand, Types, StoreTypes, Unlocked
  <2>8. LogTypes'
    <3>1. replayed' \in Nat /\ replayed' <= Len(aof)
      BY <1>2 DEF ReplayCommand, Types, LogTypes
    <3> QED
      BY <1>2, <2>5, <2>6, <3>1 DEF ReplayCommand, Types, LogTypes, files, history, Known
  <2>9. SaveTypes'
    BY <1>2 DEF ReplayCommand, Types, SaveTypes, files
  <2> QED
    BY <2>7, <2>8, <2>9 DEF Types
<1>3. CASE FinishReplay \/ Serve
  BY <1>3 DEF FinishReplay, Serve, Types, StoreTypes, LogTypes, SaveTypes, Unlocked, files, history, Known
<1> QED
  BY <1>1, <1>2, <1>3 DEF Recovery

(* A client's call begins.                                                  *)
LEMMA BeginTypes == ASSUME Types, NEW call \in Calls, Begin(call) PROVE Types'
<1> DEFINE r == Exec(call)
           n == Len(r.log)
           new == Len(hist) + 1
           op(j) == IF j = n THEN new ELSE 0
           todo == [j \in 1 .. n |-> [cmd |-> r.log[j], op |-> op(j)]]
<1>1. r.data \in Data /\ r.log \in Seq(Command) /\ call[2] \in Db /\ call[3] \in Key
  BY CallType DEF Types, StoreTypes
<1>2. /\ holder' = [by |-> Client, out |-> r.data, key |-> <<call[2], call[3]>>, inPlace |-> InPlace(call), todo |-> todo]
      /\ hist' = Append(hist, r.data)
  BY DEF Begin
<1>3. InPlace(call) \in BOOLEAN
  BY DEF InPlace
<1> HIDE DEF r
<1>4. hist' \in Seq(Data) /\ Len(hist') = Len(hist) + 1 /\ Len(hist) \in Nat
  BY <1>1, <1>2 DEF Types, LogTypes
<1>5. todo \in Seq(Record) /\ n \in Nat /\ Len(todo) = n
  <2>1. n \in Nat /\ \A i \in 1 .. n : r.log[i] \in Command
    BY <1>1, ElementOfSeq
  <2>2. todo \in [1 .. n -> Record]
    BY <1>4, <2>1 DEF Record
  <2> HIDE DEF todo, n
  <2> QED
    BY <2>1, <2>2, IsRecords
<1>6. Known(todo, new)
  <2> HIDE DEF n, r
  <2> QED
    BY <1>4, <1>5 DEF Known
<1> HIDE DEF todo
<1>7. holder' \in Holder /\ holder'.out \in Data /\ holder'.by # Nobody /\ holder'.todo = todo
  BY <1>1, <1>2, <1>3, <1>5 DEF Holder, Client, Nobody
<1>8. StoreTypes'
  BY <1>7 DEF Begin, Types, StoreTypes, Unlocked
<1>9. LogTypes'
  <2>1. Known(holder'.todo, Len(hist'))
    BY <1>4, <1>6, <1>7
  <2>2. Known(chan', Len(hist')) /\ Known(pen', Len(hist'))
    <3>1. /\ chan' = chan /\ pen' = pen /\ chan \in Seq(Record) /\ pen \in Seq(Record)
          /\ Known(chan, Len(hist)) /\ Known(pen, Len(hist))
      BY DEF Begin, Types, LogTypes
    <3>2. Len(hist) \in Nat /\ Len(hist') \in Nat /\ Len(hist) <= Len(hist')
      BY <1>4
    <3> QED
      BY <3>1, <3>2, KnownGrows
  <2>3. durable' = durable /\ durable \in Nat \ {0} /\ durable <= Len(hist')
    BY <1>4 DEF Begin, Types, LogTypes
  <2> QED
    BY <1>4, <2>1, <2>2, <2>3 DEF Begin, Types, LogTypes, files
<1>10. SaveTypes'
  BY DEF Begin, Types, SaveTypes, files
<1> QED
  BY <1>8, <1>9, <1>10 DEF Types

(* appendAOF.                                                               *)
LEMMA SendTypes == ASSUME Types, Send PROVE Types'
<1> DEFINE todo == holder.todo
           m    == Len(hist)
<1>1. /\ todo \in Seq(Record) /\ Known(todo, m) /\ chan \in Seq(Record) /\ Known(chan, m) /\ m \in Nat
      /\ todo # <<>> /\ Len(chan) < ChanCap /\ Len(chan) \in Nat
  BY DEF Send, Types, StoreTypes, LogTypes, Holder
<1>2. /\ Head(todo) \in Record /\ Head(todo).op <= m /\ Tail(todo) \in Seq(Record) /\ Known(Tail(todo), m)
  <2>1. Head(todo) \in Record
    BY <1>1, HeadTailProperties
  <2> QED
    BY <1>1, <2>1, QueueTypes DEF Known
<1>3. chan' = Append(chan, Head(todo)) /\ holder' = [holder EXCEPT !.todo = Tail(todo)]
  BY DEF Send
<1> HIDE DEF todo, m
<1>4. chan' \in Seq(Record) /\ Known(chan', m) /\ Len(chan') <= ChanCap
  <2>1. chan' \in Seq(Record) /\ Known(chan', m) /\ Len(chan') = Len(chan) + 1
    BY <1>1, <1>2, <1>3, QueueTypes
  <2> QED
    BY <1>1, <2>1, BoundsAssumption
<1>5. holder' \in Holder /\ holder'.by = holder.by /\ holder'.out = holder.out /\ holder'.todo = Tail(todo)
  BY <1>2, <1>3 DEF Types, StoreTypes, Holder
<1>6. ~Unlocked
  BY <1>1 DEF Types, StoreTypes, todo
<1>7. StoreTypes'
  BY <1>5, <1>6 DEF Send, Types, StoreTypes, Unlocked
<1>8. LogTypes'
  BY <1>2, <1>4, <1>5 DEF Send, Types, LogTypes, files, history, m
<1>9. SaveTypes'
  BY DEF Send, Types, SaveTypes, files
<1> QED
  BY <1>7, <1>8, <1>9 DEF Types

(* A saver's copy keeps its type when a method ends.                        *)
LEMMA AfterCommitType ==
    ASSUME StoreTypes, ~Unlocked, NEW sv \in Saver,
           sv.step \in {"copied", "open"} \/ sv.shared # {} => sv.img \in Data, NEW new \in AfterCommit(sv)
    PROVE  new \in Saver /\ (new.step \in {"copied", "open"} \/ new.shared # {} => new.img \in Data)
<1> DEFINE key  == holder.key
           kept == [sv EXCEPT !.shared = @ \ {key}]
           seen == [sv EXCEPT !.img[key[1]][key[2]] = holder.out[key[1]][key[2]]]
<1>1. new = sv \/ (key \in sv.shared /\ (new = kept \/ new = seen))
  BY DEF AfterCommit
<1>2. kept \in Saver /\ kept.img = sv.img /\ kept.step = sv.step /\ kept.shared \subseteq sv.shared
  BY DEF Saver
<1>3. ASSUME key \in sv.shared
      PROVE  seen \in Saver /\ seen.img \in Data
  <2>1. key \in Db \X Key /\ sv.img \in Data /\ holder.out \in Data
    BY <1>3 DEF Saver, StoreTypes
  <2> DEFINE e   == holder.out[key[1]][key[2]]
             img == [sv.img EXCEPT ![key[1]][key[2]] = e]
  <2>2. e \in Entry
    BY <2>1 DEF Data
  <2> HIDE DEF e
  <2>3. img \in Data
    BY <2>1, <2>2 DEF Data
  <2>4. seen = [sv EXCEPT !.img = img]
    BY <2>1 DEF e, Saver
  <2> HIDE DEF seen, img
  <2> QED
    BY <2>3, <2>4 DEF Saver
<1> HIDE DEF kept, seen
<1> QED
  BY <1>1, <1>2, <1>3

(* The end of a method.                                                     *)
LEMMA CommitTypes == ASSUME Types, Commit PROVE Types'
<1>1. Free \in Holder /\ Free.by = Nobody /\ Free.todo = <<>>
  BY DEF Free, Holder
<1>2. StoreTypes'
  BY <1>1 DEF Commit, Types, StoreTypes, Unlocked
<1>3. LogTypes'
  <2>1. Known(holder'.todo, Len(hist))
    <3>1. Len(<<>>) = 0
      OBVIOUS
    <3> QED
      BY <1>1, <3>1 DEF Commit, Known
  <2> QED
    BY <2>1 DEF Commit, Types, LogTypes, files, history
<1>4. SaveTypes'
  <2>1. PICK t \in AfterCommit(saver["ticker"]), d \in AfterCommit(saver["shutdown"]) :
          saver' = [s \in Savers |-> IF s = "ticker" THEN t ELSE d]
    BY DEF Commit
  <2> DEFINE Good(sv) == sv \in Saver /\ (sv.step \in {"copied", "open"} \/ sv.shared # {} => sv.img \in Data)
  <2>2. \A s \in Savers : Good(saver[s])
    BY DEF Types, SaveTypes
  <2>3. StoreTypes /\ ~Unlocked
    BY DEF Types, Commit
  <2>4. Good(t) /\ Good(d)
    BY <2>2, <2>3, AfterCommitType DEF Savers
  <2> HIDE DEF Good
  <2>5. \A s \in Savers : Good(saver'[s])
    BY <2>1, <2>4
  <2>6. saver' = [s \in Savers |-> saver'[s]]
    BY <2>1
  <2> QED
    BY <2>5, <2>6 DEF Commit, Types, SaveTypes, files, Good
<1> QED
  BY <1>2, <1>3, <1>4 DEF Types

(* The AOF writer.                                                          *)
LEMMA WriterTypes == ASSUME Types, Writer PROVE Types'
<1> DEFINE m == Len(hist)
<1>1. {chan, pen, aof} \subseteq Seq(Record) /\ Known(chan, m) /\ Known(pen, m) /\ m \in Nat /\ Len(chan) <= ChanCap
  BY DEF Types, LogTypes
<1>2. Len(<<>>) = 0 /\ <<>> \in Seq(Record) /\ Known(<<>>, m)
  BY DEF Known
<1>3. CASE Receive
  <2>1. chan # <<>> /\ pen' = <<Head(chan)>> /\ chan' = Tail(chan)
    BY <1>3 DEF Receive
  <2>2. Head(chan) \in Record /\ Head(chan).op <= m /\ Tail(chan) \in Seq(Record) /\ Known(Tail(chan), m)
        /\ Len(Tail(chan)) = Len(chan) - 1 /\ Len(chan) \in Nat
    <3>1. Head(chan) \in Record /\ Len(chan) \in Nat
      BY <1>1, <2>1, HeadTailProperties
    <3> QED
      BY <1>1, <2>1, <3>1, QueueTypes DEF Known
  <2> DEFINE x == Head(chan)
  <2> HIDE DEF x, m
  <2>3. <<x>> \in Seq(Record) /\ Len(<<x>>) = 1 /\ Known(<<x>>, m)
    BY <2>2 DEF Known, x
  <2>4. pen' = <<x>>
    BY <2>1 DEF x
  <2>5. Len(chan') <= ChanCap
    BY <1>1, <2>1, <2>2, BoundsAssumption
  <2>6. LogTypes'
    BY <1>3, <2>1, <2>2, <2>3, <2>4, <2>5 DEF Receive, Types, LogTypes, files, history, m
  <2> QED
    BY <1>3, <2>6 DEF Receive, Types, StoreTypes, SaveTypes, Unlocked, files
<1>4. CASE Flush
  <2>1. pen # <<>> /\ pen' = <<>> /\ aof' = Append(aof, pen[1])
        /\ durable' = IF pen[1].op > durable THEN pen[1].op ELSE durable
    BY <1>4 DEF Flush
  <2>2. pen[1] \in Record /\ pen[1].op <= m
    <3>1. Len(pen) \in Nat \ {0}
      BY <1>1, <2>1, EmptySeq
    <3> QED
      BY <1>1, <3>1, ElementOfSeq DEF Known
  <2> DEFINE x == pen[1]
  <2> HIDE DEF x, m
  <2>3. aof' \in Seq(Record) /\ Len(aof') = Len(aof) + 1 /\ Len(aof) \in Nat
    BY <1>1, <2>1, <2>2, AppendProperties
  <2>4. durable' \in Nat \ {0} /\ durable' <= m
    <3>1. durable \in Nat \ {0} /\ durable <= m
      BY DEF Types, LogTypes, m
    <3>2. x.op \in Nat /\ x.op <= m /\ durable' = IF x.op > durable THEN x.op ELSE durable
      BY <2>1, <2>2 DEF x, Record
    <3> QED
      BY <3>1, <3>2
  <2>5. replayed' = replayed /\ replayed <= Len(aof')
    BY <1>4, <2>3 DEF Flush, Types, LogTypes
  <2>6. LogTypes'
    BY <1>1, <1>2, <1>4, <2>1, <2>3, <2>4, <2>5 DEF Flush, Types, LogTypes, m
  <2> QED
    BY <1>4, <2>6 DEF Flush, Types, StoreTypes, SaveTypes, Unlocked
<1> QED
  BY <1>3, <1>4 DEF Writer

(* Snapshots.                                                               *)
LEMMA SavingTypes == ASSUME Types, Saving PROVE Types'
<1>1. StoreTypes' /\ LogTypes'
  <2>1. UNCHANGED <<phase, mem, now, holder, chan, closed, writer, pen, replayed, aof, history>>
    BY DEF Saving, TickerFires, SaveCopy, SaveCreate, SaveEncode, files
  <2>2. stop' \in {stop, "done"} /\ UNCHANGED boots
    BY DEF Saving, TickerFires, SaveCopy, SaveCreate, SaveEncode
  <2>3. StoreTypes'
    BY <2>1, <2>2 DEF Types, StoreTypes, Unlocked
  <2> QED
    BY <2>1, <2>2, <2>3 DEF Types, LogTypes, history
<1>2. SaveTypes'
  <2>1. saver \in [Savers -> Saver] /\ mem \in Data /\ NoStore \in Data
    BY EmptyType DEF Types, SaveTypes, StoreTypes, NoStore
  <2>2. CASE TickerFires
    <3>1. saver' = [saver EXCEPT !["ticker"] = [saver["ticker"] EXCEPT !.step = "called"]] /\ rdb' = rdb /\ stop' = stop
      BY <2>1, <2>2 DEF TickerFires, files
    <3>2. [saver["ticker"] EXCEPT !.step = "called"] \in Saver
      BY <2>1 DEF Savers, Saver
    <3> QED
      BY <2>1, <3>1, <3>2 DEF Types, SaveTypes, Saver, Savers
  <2>3. ASSUME NEW s \in Savers, SaveCopy(s) PROVE SaveTypes'
    <3>1. PresentKeys(mem) \subseteq Db \X Key
      BY DEF PresentKeys
    <3>2. [step |-> "copied", img |-> mem, shared |-> PresentKeys(mem), overlap |-> FALSE] \in Saver
      BY <2>1, <3>1 DEF Saver
    <3> QED
      BY <2>1, <2>3, <3>2 DEF SaveCopy, Types, SaveTypes, files
  <2>4. ASSUME NEW s \in Savers, SaveCreate(s) PROVE SaveTypes'
    <3>1. TornFile \in Snapshot
      BY <2>1 DEF TornFile, Snapshot
    <3> DEFINE both == \A x \in Savers \ {s} : saver[x].step = "open"
    <3>2. saver' = [x \in Savers |-> IF x = s THEN [saver[x] EXCEPT !.step = "open", !.overlap = both]
                                      ELSE [saver[x] EXCEPT !.overlap = @ \/ both]]
      BY <2>4 DEF SaveCreate
    <3>3. both \in BOOLEAN
      OBVIOUS
    <3> HIDE DEF both
    <3>4. ASSUME NEW x \in Savers
          PROVE  saver'[x] \in Saver /\ (saver'[x].step \in {"copied", "open"} \/ saver'[x].shared # {} => saver'[x].img \in Data)
      <4>1. saver[x] \in Saver /\ (saver[x].step \in {"copied", "open"} \/ saver[x].shared # {} => saver[x].img \in Data)
        BY <2>1 DEF Types, SaveTypes
      <4>2. CASE x = s
        <5>1. saver'[x] = [saver[x] EXCEPT !.step = "open", !.overlap = both] /\ saver[x].img \in Data
          BY <2>4, <3>2, <4>1, <4>2 DEF SaveCreate
        <5> QED
          BY <3>3, <4>1, <5>1 DEF Saver
      <4>3. CASE x # s
        <5>1. (saver[x].overlap \/ both) \in BOOLEAN
          OBVIOUS
        <5>2. saver'[x] = [saver[x] EXCEPT !.overlap = (saver[x].overlap \/ both)]
          BY <3>2, <4>3
        <5> QED
          BY <4>1, <5>1, <5>2 DEF Saver
      <4> QED
        BY <4>2, <4>3
    <3>5. saver' = [x \in Savers |-> saver'[x]]
      BY <3>2
    <3> QED
      BY <2>4, <3>1, <3>4, <3>5 DEF SaveCreate, Types, SaveTypes
  <2>5. ASSUME NEW s \in Savers, SaveEncode(s) PROVE SaveTypes'
    <3>1. TornFile \in Snapshot /\ [state |-> "ok", img |-> saver[s].img] \in Snapshot
      BY <2>1, <2>5 DEF TornFile, Snapshot, SaveEncode, Types, SaveTypes
    <3>2. NoSave \in Saver /\ NoSave.step = "idle" /\ NoSave.shared = {}
      BY DEF NoSave, Saver
    <3> QED
      BY <2>1, <2>5, <3>1, <3>2 DEF SaveEncode, Types, SaveTypes
  <2> QED
    BY <2>2, <2>3, <2>4, <2>5 DEF Saving
<1> QED
  BY <1>1, <1>2 DEF Types

(* and after every step.                                                    *)
LEMMA NextTypes == Types /\ [Next]_vars => Types'
<1> SUFFICES ASSUME Types, [Next]_vars PROVE Types'
  OBVIOUS
<1>1. CASE Boot \/ Panic \/ Exit \/ Crash
  <2>1. Fresh /\ UNCHANGED <<aof, hist, durable, now, rdb>>
    BY <1>1 DEF Boot, Panic, Exit, Crash, files, history
  <2>2. phase' \in {"down", "load", "replay", "recovered", "up"}
    BY <1>1 DEF Boot, Panic, Exit, Crash
  <2> QED
    BY <2>1, <2>2, FreshTypes
<1>2. CASE ShutdownStop \/ ShutdownClose
  BY <1>2, ConfigAssumption DEF ShutdownStop, ShutdownClose, Types, StoreTypes, LogTypes, SaveTypes, Unlocked, files, history
<1>3. CASE Tick
  BY <1>3 DEF Tick, Types, StoreTypes, LogTypes, SaveTypes, Unlocked, volatile, files, history
<1>4. CASE UNCHANGED vars
  BY <1>4 DEF vars, Types, StoreTypes, LogTypes, SaveTypes, Unlocked, volatile, files, history
<1> QED
  BY <1>1, <1>2, <1>3, <1>4, RecoveryTypes, BeginTypes, SendTypes, CommitTypes, WriterTypes, SavingTypes
     DEF Next, Locked, Shutdown

(* The types of Persistence hold whatever the process goes through, and the *)
(* channel never holds more than its capacity (NewServer, appendAOF).       *)
THEOREM Typing == Spec => []TypeOK
<1> QED
  BY InitTypes, NextTypes, TypesOK, PTL DEF Spec

-----------------------------------------------------------------------------
(* Snapshots.  With the AOF off and calls that replace values, everything   *)
(* that could reach dump.rdb is a state of the history.                     *)

Replacing    == \A call \in Calls : call[1] \in {"SET", "DEL"}
Among(d, h)  == \E i \in 1 .. Len(h) : d = h[i]
Copying(sv)  == sv.step \in {"copied", "open"}
Copies       == /\ Among(NoStore, hist) /\ Among(mem, hist)
                /\ phase # "replay" /\ ~holder.inPlace
                /\ ~Unlocked => Among(holder.out, hist)
                /\ \A s \in Savers : Copying(saver[s]) => Among(saver[s].img, hist)
                /\ rdb.state = "ok" => Among(rdb.img, hist)

(* The history only grows.                                                  *)
LEMMA HistGrows ==
    ASSUME Types, [Next]_vars
    PROVE  /\ hist' \in Seq(Data) /\ Len(hist) \in Nat /\ Len(hist') \in Nat /\ Len(hist) <= Len(hist')
           /\ \A i \in 1 .. Len(hist) : hist'[i] = hist[i]
<1>1. hist \in Seq(Data) /\ Len(hist) \in Nat
  BY DEF Types, LogTypes
<1>2. ASSUME NEW call \in Calls, Begin(call)
      PROVE  hist' \in Seq(Data) /\ Len(hist') = Len(hist) + 1 /\ \A i \in 1 .. Len(hist) : hist'[i] = hist[i]
  <2>1. hist' = Append(hist, Exec(call).data) /\ Exec(call).data \in Data
    BY <1>2, CallType DEF Begin, Types, StoreTypes
  <2> QED
    BY <1>1, <2>1, AppendProperties
<1>3. (\A call \in Calls : ~Begin(call)) => UNCHANGED hist
  BY DEF Next, vars, Boot, Recovery, LoadSnapshot, ReplayCommand, FinishReplay, Serve, Locked, Send, Panic, Commit,
         Writer, Receive, Flush, Saving, TickerFires, SaveCopy, SaveCreate, SaveEncode, Shutdown, ShutdownStop,
         ShutdownClose, Exit, Crash, Tick, history
<1> QED
  BY <1>1, <1>2, <1>3

(* What a saver copied is not touched by a method that replaces values.     *)
LEMMA CopyKept ==
    ASSUME ~holder.inPlace, NEW sv \in Saver, NEW new \in AfterCommit(sv)
    PROVE  new.img = sv.img /\ new.step = sv.step
BY DEF AfterCommit, Saver

(* A call that replaces values works on no value in place.                  *)
LEMMA BeginCopies ==
    ASSUME Types, Replacing, NEW call \in Calls, Begin(call)
    PROVE  ~holder'.inPlace /\ Among(holder'.out, hist')
<1>1. ~holder'.inPlace /\ holder'.out = Exec(call).data
  BY DEF Begin, InPlace, Replacing
<1>2. hist' = Append(hist, Exec(call).data) /\ Exec(call).data \in Data /\ hist \in Seq(Data)
  BY CallType DEF Begin, Types, StoreTypes, LogTypes
<1>3. Len(hist') \in 1 .. Len(hist') /\ hist'[Len(hist')] = Exec(call).data
  BY <1>2, AppendProperties
<1> QED
  BY <1>1, <1>3 DEF Among

(* Every step keeps whatever could reach dump.rdb a state of the history.   *)
LEMMA NextCopies == ~UseAOF /\ Replacing /\ Types /\ Copies /\ [Next]_vars => Copies'
<1> SUFFICES ASSUME ~UseAOF, Replacing, Types, Copies, [Next]_vars PROVE Copies'
  OBVIOUS
<1>1. ASSUME NEW d, Among(d, hist) PROVE Among(d, hist')
  BY <1>1, HistGrows DEF Among
<1> DEFINE In(d) == Among(d, hist')
<1>2. /\ In(NoStore) /\ In(mem)
      /\ ~Unlocked => In(holder.out)
      /\ \A s \in Savers : Copying(saver[s]) => In(saver[s].img)
      /\ rdb.state = "ok" => In(rdb.img)
  BY <1>1 DEF Copies
<1>3. phase # "replay" /\ ~holder.inPlace
  BY DEF Copies
<1>4. saver \in [Savers -> Saver]
  BY DEF Types, SaveTypes
<1> DEFINE Copied == /\ In(mem')
                     /\ phase' # "replay" /\ ~holder'.inPlace
                     /\ ~Unlocked' => In(holder'.out)
                     /\ \A s \in Savers : Copying(saver'[s]) => In(saver'[s].img)
                     /\ rdb'.state = "ok" => In(rdb'.img)
<1> SUFFICES Copied
  BY <1>2 DEF Copies
<1>5. CASE Boot \/ Panic \/ Exit \/ Crash
  <2>1. Fresh /\ rdb' = rdb /\ phase' # "replay"
    BY <1>5 DEF Boot, Panic, Exit, Crash, files
  <2>2. ~Copying(NoSave) /\ Free.by = Nobody /\ ~Free.inPlace
    BY DEF Copying, NoSave, Free
  <2> HIDE DEF In
  <2> QED
    BY <1>2, <2>1, <2>2 DEF Fresh, Unlocked
<1>6. CASE LoadSnapshot
  <2> HIDE DEF In
  <2> QED
    BY <1>2, <1>3, <1>6 DEF LoadSnapshot, Unlocked, files
<1>7. CASE Serve \/ Send \/ Writer \/ ShutdownStop \/ ShutdownClose \/ Tick \/ UNCHANGED vars
  <2>1. UNCHANGED <<mem, saver, rdb>> /\ phase' # "replay"
    BY <1>3, <1>7 DEF Serve, Send, Writer, Receive, Flush, ShutdownStop, ShutdownClose, Tick, vars, volatile, files
  <2>2. holder' = holder \/ holder' = [holder EXCEPT !.todo = Tail(holder.todo)]
    BY <1>7 DEF Serve, Send, Writer, Receive, Flush, ShutdownStop, ShutdownClose, Tick, vars, volatile
  <2>3. holder'.by = holder.by /\ holder'.out = holder.out /\ holder'.inPlace = holder.inPlace
    <3> DEFINE rest == Tail(holder.todo)
    <3>1. holder' = holder \/ holder' = [holder EXCEPT !.todo = rest]
      BY <2>2
    <3> HIDE DEF rest
    <3> QED
      BY <3>1 DEF Types, StoreTypes, Holder
  <2> HIDE DEF In
  <2> QED
    BY <1>2, <1>3, <2>1, <2>3 DEF Unlocked
<1>8. ASSUME NEW call \in Calls, Begin(call) PROVE Copied
  <2>1. UNCHANGED <<mem, saver, rdb, phase>>
    BY <1>8 DEF Begin, files
  <2> HIDE DEF In
  <2> QED
    BY <1>2, <1>3, <1>8, <2>1, BeginCopies DEF In
<1>9. CASE Commit
  <2>1. PICK t \in AfterCommit(saver["ticker"]), d \in AfterCommit(saver["shutdown"]) :
          saver' = [s \in Savers |-> IF s = "ticker" THEN t ELSE d]
    BY <1>9 DEF Commit
  <2>2. \A s \in Savers : saver'[s].img = saver[s].img /\ saver'[s].step = saver[s].step
    BY <1>3, <1>4, <2>1, CopyKept DEF Savers
  <2>3. mem' = holder.out /\ holder' = Free /\ phase' = phase /\ rdb' = rdb /\ ~Unlocked
    BY <1>9 DEF Commit, files
  <2>4. Free.by = Nobody /\ ~Free.inPlace
    BY DEF Free
  <2> HIDE DEF In
  <2> QED
    BY <1>2, <1>3, <2>2, <2>3, <2>4 DEF Copying, Unlocked
<1>10. CASE Saving
  <2>1. UNCHANGED <<mem, holder, phase>>
    BY <1>10 DEF Saving, TickerFires, SaveCopy, SaveCreate, SaveEncode
  <2>2. CASE TickerFires
    <3>1. saver' = [saver EXCEPT !["ticker"] = [saver["ticker"] EXCEPT !.step = "called"]] /\ rdb' = rdb
      BY <1>4, <2>2 DEF TickerFires, files
    <3>2. \A s \in Savers : Copying(saver'[s]) => saver'[s] = saver[s]
      BY <1>4, <3>1 DEF Copying, Saver, Savers
    <3> HIDE DEF In
    <3> QED
      BY <1>2, <1>3, <2>1, <3>1, <3>2 DEF Unlocked
  <2>3. ASSUME NEW s \in Savers, SaveCopy(s) PROVE Copied
    <3>1. rdb' = rdb /\ saver' = [saver EXCEPT ![s] = [step |-> "copied", img |-> mem, shared |-> PresentKeys(mem), overlap |-> FALSE]]
      BY <2>3 DEF SaveCopy, files
    <3>2. \A x \in Savers : saver'[x] = saver[x] \/ saver'[x].img = mem
      BY <1>4, <3>1
    <3> HIDE DEF In
    <3> QED
      BY <1>2, <1>3, <2>1, <3>1, <3>2 DEF Unlocked
  <2>4. ASSUME NEW s \in Savers, SaveCreate(s) PROVE Copied
    <3> DEFINE both == \A x \in Savers \ {s} : saver[x].step = "open"
    <3>1. saver' = [x \in Savers |-> IF x = s THEN [saver[x] EXCEPT !.step = "open", !.overlap = both]
                                      ELSE [saver[x] EXCEPT !.overlap = @ \/ both]]
      BY <2>4 DEF SaveCreate
    <3> HIDE DEF both
    <3>2. ASSUME NEW x \in Savers
          PROVE  saver'[x].img = saver[x].img /\ (Copying(saver'[x]) => Copying(saver[x]))
      <4>1. saver[x] \in Saver
        BY <1>4
      <4>2. CASE x = s
        <5>1. saver'[x] = [saver[x] EXCEPT !.step = "open", !.overlap = both]
          BY <3>1, <4>2
        <5>2. Copying(saver[x])
          BY <2>4, <4>2 DEF SaveCreate, Copying
        <5> QED
          BY <4>1, <5>1, <5>2 DEF Saver
      <4>3. CASE x # s
        <5>1. saver'[x] = [saver[x] EXCEPT !.overlap = @ \/ both]
          BY <3>1, <4>3
        <5>2. saver'[x].img = saver[x].img /\ saver'[x].step = saver[x].step
          BY <4>1, <5>1 DEF Saver
        <5> QED
          BY <5>2 DEF Copying
      <4> QED
        BY <4>2, <4>3
    <3>3. rdb'.state # "ok"
      BY <2>4 DEF SaveCreate, TornFile
    <3> HIDE DEF In
    <3> QED
      BY <1>2, <1>3, <2>1, <3>2, <3>3 DEF Unlocked
  <2>5. ASSUME NEW s \in Savers, SaveEncode(s) PROVE Copied
    <3>1. saver' = [saver EXCEPT ![s] = NoSave] /\ Copying(saver[s]) /\ ~Copying(NoSave)
      BY <2>5 DEF SaveEncode, Copying, NoSave
    <3>2. rdb' = [state |-> "ok", img |-> saver[s].img] \/ rdb' = TornFile
      BY <2>5 DEF SaveEncode
    <3>3. \A x \in Savers : Copying(saver'[x]) => saver'[x] = saver[x]
      BY <1>4, <3>1
    <3>4. rdb'.state = "ok" => rdb'.img = saver[s].img
      BY <3>2 DEF TornFile
    <3> HIDE DEF In
    <3> QED
      BY <1>2, <1>3, <2>1, <3>1, <3>3, <3>4 DEF Unlocked
  <2> QED
    BY <1>10, <2>2, <2>3, <2>4, <2>5 DEF Saving
<1>11. ~ReplayCommand /\ ~FinishReplay
  BY <1>3 DEF ReplayCommand, FinishReplay
<1> HIDE DEF Copied
<1> QED
  BY <1>5, <1>6, <1>7, <1>8, <1>9, <1>10, <1>11 DEF Next, Recovery, Locked, Shutdown

(* A snapshot that decodes is a state of the store, whatever clients do     *)
(* while gob encodes it and however saves overlap, when calls replace       *)
(* values rather than change them in place (SaveSnapshot, GetSnapshot).     *)
THEOREM SnapshotsAreStates == ~UseAOF /\ Replacing => (Spec => []SnapshotIsAState)
<1> SUFFICES ASSUME ~UseAOF, Replacing PROVE Spec => []SnapshotIsAState
  OBVIOUS
<1>1. Init => Copies
  <2> SUFFICES ASSUME Init PROVE Copies
    OBVIOUS
  <2>1. Among(NoStore, hist)
    <3>1. Len(<<NoStore>>) = 1 /\ <<NoStore>>[1] = NoStore
      OBVIOUS
    <3> QED
      BY <3>1 DEF Init, Among
  <2> QED
    BY <2>1 DEF Init, Copies, Copying, NoSave, NoFile, Free, Unlocked, Nobody
<1>2. Copies => SnapshotIsAState
  BY DEF Copies, SnapshotIsAState, Among
<1> QED
  BY <1>1, <1>2, InitTypes, NextTypes, NextCopies, PTL DEF Spec

-----------------------------------------------------------------------------
(* Recovery from the append-only file.                                      *)

(* No call sets a deadline.                                                 *)
Undated == \A call \in Calls :
              call[1] # "EXPIRE" /\ (call[1] = "SET" => call[5].ex <= 0 /\ call[5].px <= 0)

(* Replayed at any time, c leads from one state of the store to another.    *)
Leads(c, from, to) == \A t \in Nat : dispatchAOF(c, from, t).data = to

(* On a store without deadlines a command does the same at any time.        *)
LEMMA Timeless ==
    ASSUME NEW d \in Data, AllLasting(d), NEW c \in Command, c[1] # "EXPIRE", NEW t \in Nat, NEW u \in Nat
    PROVE  /\ dispatchAOF(c, d, u).data = dispatchAOF(c, d, t).data
           /\ AllLasting(dispatchAOF(c, d, t).data)
<1>1. ASSUME NEW db \in Db, NEW k \in Key PROVE d[db][k] \in Entry /\ Lasting(d[db][k])
  BY DEF Data, AllLasting
<1> DEFINE Good == /\ dispatchAOF(c, d, u).data = dispatchAOF(c, d, t).data
                   /\ AllLasting(dispatchAOF(c, d, t).data)
<1>2. ASSUME NEW db \in Db, NEW k \in Key, NEW r, Lasting(r.value),
             dispatchAOF(c, d, u) = At(d, db, k, r), dispatchAOF(c, d, t) = At(d, db, k, r)
      PROVE  Good
  BY <1>2, LastingAt
<1>3. ASSUME NEW db \in Db, NEW k \in Key, NEW v \in Str, c = <<"SET", db, k, v>> PROVE Good
  <2> DEFINE r == Result(NewStringValue(v), <<c>>, Ok)
  <2>1. r.value.exp = Never
    BY DEF Result, NewStringValue, Missing
  <2>2. Set(d[db][k], u, db, k, v, NoOption) = r /\ Set(d[db][k], t, db, k, v, NoOption) = r
    BY <1>3 DEF Set, NoOption
  <2>3. dispatchAOF(c, d, u) = At(d, db, k, r) /\ dispatchAOF(c, d, t) = At(d, db, k, r)
    BY <1>3, <2>2 DEF dispatchAOF
  <2> HIDE DEF r, Good
  <2> QED
    BY <1>2, <2>1, <2>3 DEF Lasting
<1>4. ASSUME NEW db \in Db, NEW k \in Key, c = <<"DEL", db, k>> PROVE Good
  <2> DEFINE r == Del(d[db][k], db, k)
  <2>1. Lasting(r.value)
    BY <1>1, KeysLasting
  <2>2. dispatchAOF(c, d, u) = At(d, db, k, r) /\ dispatchAOF(c, d, t) = At(d, db, k, r)
    BY <1>4 DEF dispatchAOF
  <2> HIDE DEF r, Good
  <2> QED
    BY <1>2, <2>1, <2>2
<1>5. ASSUME NEW db \in Db, NEW k \in Key, c = <<"INCR", db, k>> PROVE Good
  <2> DEFINE r == Incr(d[db][k], db, k)
  <2>1. Lasting(r.value)
    BY <1>1, KeysLasting
  <2>2. dispatchAOF(c, d, u) = At(d, db, k, r) /\ dispatchAOF(c, d, t) = At(d, db, k, r)
    BY <1>5 DEF dispatchAOF
  <2> HIDE DEF r, Good
  <2> QED
    BY <1>2, <2>1, <2>2
<1>6. ASSUME NEW db \in Db, NEW k \in Key, c = <<"DECR", db, k>> PROVE Good
  <2> DEFINE r == Decr(d[db][k], db, k)
  <2>1. Lasting(r.value)
    BY <1>1, KeysLasting
  <2>2. dispatchAOF(c, d, u) = At(d, db, k, r) /\ dispatchAOF(c, d, t) = At(d, db, k, r)
    BY <1>6 DEF dispatchAOF
  <2> HIDE DEF r, Good
  <2> QED
    BY <1>2, <2>1, <2>2
<1>7. ASSUME NEW db \in Db, NEW k \in Key, NEW vals \in Seq(Str), c = <<"LPUSH", db, k, vals>> PROVE Good
  <2> DEFINE r == LPush(d[db][k], db, k, vals)
  <2>1. Lasting(r.value)
    BY <1>1, KeysLasting
  <2>2. dispatchAOF(c, d, u) = At(d, db, k, r) /\ dispatchAOF(c, d, t) = At(d, db, k, r)
    BY <1>7 DEF dispatchAOF
  <2> HIDE DEF r, Good
  <2> QED
    BY <1>2, <2>1, <2>2
<1>8. ASSUME NEW db \in Db, NEW k \in Key, NEW vals \in Seq(Str), c = <<"RPUSH", db, k, vals>> PROVE Good
  <2> DEFINE r == RPush(d[db][k], db, k, vals)
  <2>1. Lasting(r.value)
    BY <1>1, KeysLasting
  <2>2. dispatchAOF(c, d, u) = At(d, db, k, r) /\ dispatchAOF(c, d, t) = At(d, db, k, r)
    BY <1>8 DEF dispatchAOF
  <2> HIDE DEF r, Good
  <2> QED
    BY <1>2, <2>1, <2>2
<1>9. ASSUME NEW db \in Db, NEW k \in Key, NEW fv \in HashData, c = <<"HSET", db, k, fv>> PROVE Good
  <2> DEFINE r == HSet(d[db][k], t, db, k, fv)
  <2>1. Lasting(r.value)
    BY <1>1, KeysLasting
  <2>2. Live(d[db][k], u) = Live(d[db][k], t)
    BY <1>1 DEF Live, IsExpired, Lasting
  <2>3. HSet(d[db][k], u, db, k, fv) = r
    BY <2>2 DEF HSet
  <2>4. dispatchAOF(c, d, u) = At(d, db, k, r) /\ dispatchAOF(c, d, t) = At(d, db, k, r)
    BY <1>9, <2>3 DEF dispatchAOF
  <2> HIDE DEF r, Good
  <2> QED
    BY <1>2, <2>1, <2>4
<1> HIDE DEF Good
<1>10. Good
  BY <1>3, <1>4, <1>5, <1>6, <1>7, <1>8, <1>9 DEF Command, OtherCalls
<1> QED
  BY <1>10 DEF Good

(* A call either changes and logs nothing, or logs one command that does    *)
(* the same whenever it is replayed.                                        *)
LEMMA CallRedone ==
    ASSUME Undated, mem \in Data, now \in Nat, AllLasting(mem), NEW call \in Calls
    PROVE  /\ AllLasting(Exec(call).data)
           /\ \/ Exec(call).log = <<>> /\ Exec(call).data = mem
              \/ \E c \in Command : /\ Exec(call).log = <<c>>
                                    /\ Leads(c, mem, Exec(call).data)
<1> DEFINE R == Exec(call)
           Good == /\ AllLasting(R.data)
                   /\ \/ R.log = <<>> /\ R.data = mem
                      \/ \E c \in Command : R.log = <<c>> /\ Leads(c, mem, R.data)
<1>1. ASSUME NEW db \in Db, NEW k \in Key, NEW v \in Str, NEW o \in Options, call = <<"SET", db, k, v, o>> PROVE Good
  <2> DEFINE e == mem[db][k]
             r == Set(e, now, db, k, v, o)
             c == <<"SET", db, k, v>>
  <2>1. R = At(mem, db, k, r) /\ o.ex <= 0 /\ o.px <= 0
    BY <1>1 DEF Exec, Undated
  <2>2. R.log = r.log /\ R.data = Put(mem, db, k, r.value)
    BY <2>1, AtFields
  <2>3. (r.log = <<>> /\ r.value = e) \/ (r.log = <<c>> /\ r.value = NewStringValue(v))
    BY <2>1 DEF Set, Result, Options
  <2>4. e \in Entry /\ Lasting(e) /\ c \in Command
    BY DEF Data, AllLasting, Command
  <2>5. Lasting(r.value)
    BY <2>1, <2>4, KeysLasting
  <2>6. AllLasting(R.data)
    <3> HIDE DEF r
    <3> QED
      BY <2>1, <2>5, LastingAt
  <2>7. CASE r.log = <<>> /\ r.value = e
    BY <2>2, <2>6, <2>7, SameData
  <2>8. CASE r.log = <<c>> /\ r.value = NewStringValue(v)
    <3>1. Leads(c, mem, R.data)
      <4> SUFFICES ASSUME NEW t \in Nat PROVE dispatchAOF(c, mem, t).data = R.data
        BY DEF Leads
      <4>1. Set(e, t, db, k, v, NoOption).value = NewStringValue(v)
        BY DEF Set, NoOption, Result
      <4>2. dispatchAOF(c, mem, t) = At(mem, db, k, Set(e, t, db, k, v, NoOption))
        BY DEF dispatchAOF
      <4> QED
        BY <2>2, <2>8, <4>1, <4>2, AtFields
    <3> HIDE DEF R, c, r
    <3> QED
      BY <2>2, <2>4, <2>6, <2>8, <3>1
  <2> QED
    BY <2>3, <2>7, <2>8
<1>2. ASSUME call \in OtherCalls, call[1] # "SET" PROVE Good
  <2>1. call \in Command /\ R = dispatchAOF(call, mem, now) /\ call[1] # "EXPIRE"
    BY <1>2 DEF Command, Exec, Undated
  <2>2. AllLasting(R.data) /\ Leads(call, mem, R.data)
    BY <2>1, Timeless DEF Leads
  <2>3. (R.log = <<>> /\ R.data = mem) \/ R.log = <<call>>
    BY <2>1, CommandType
  <2> HIDE DEF R
  <2> QED
    BY <2>1, <2>2, <2>3
<1>3. Good
  <2> HIDE DEF Good
  <2> QED
    BY <1>1, <1>2, CallShape
<1> QED
  BY <1>3

(* The store after the first i records of s, when h holds the states        *)
(* operations led to; and: each record of s, replayed at any time, leads    *)
(* from the state after the record before it to its operation's state.      *)
After(s, h, i) == IF i = 0 THEN NoStore ELSE h[s[i].op]
Tells(s, h)    == \A i \in 1 .. Len(s) :
                     /\ 1 < s[i].op /\ s[i].op <= Len(h)
                     /\ i > 1 => s[i - 1].op < s[i].op
                     /\ Leads(s[i].cmd, After(s, h, i - 1), h[s[i].op])

(* A record's operation is a number.                                        *)
LEMMA RecordOf ==
    ASSUME NEW s \in Seq(Record)
    PROVE  \A i \in 1 .. Len(s) : s[i] \in Record /\ s[i].op \in Nat
<1>1. \A i \in 1 .. Len(s) : s[i] \in Record
  BY ElementOfSeq
<1> QED
  BY <1>1 DEF Record

(* The first records of a sequence tell a story of their own.               *)
LEMMA TellsPrefix ==
    ASSUME NEW s \in Seq(Record), NEW r \in Seq(Record), NEW h \in Seq(Data), Tells(s \o r, h)
    PROVE  Tells(s, h)
<1>1. Len(s) \in Nat /\ Len(r) \in Nat /\ Len(s \o r) = Len(s) + Len(r)
      /\ \A i \in 1 .. Len(s) : (s \o r)[i] = s[i]
  BY LenProperties, ConcatProperties
<1>2. ASSUME NEW i \in 1 .. Len(s)
      PROVE  /\ i \in 1 .. Len(s \o r) /\ (s \o r)[i] = s[i]
             /\ i > 1 => (s \o r)[i - 1] = s[i - 1]
             /\ After(s \o r, h, i - 1) = After(s, h, i - 1)
  <2>1. i - 1 # 0 => i - 1 \in 1 .. Len(s)
    BY <1>1
  <2> QED
    BY <1>1, <2>1 DEF After
<1> QED
  BY <1>1, <1>2 DEF Tells

(* A new state in the history changes nothing in the story.                 *)
LEMMA TellsLonger ==
    ASSUME NEW s \in Seq(Record), NEW h \in Seq(Data), NEW d \in Data, Tells(s, h)
    PROVE  /\ Tells(s, Append(h, d))
           /\ \A i \in 0 .. Len(s) : After(s, Append(h, d), i) = After(s, h, i)
<1> DEFINE g == Append(h, d)
<1>1. Len(s) \in Nat /\ Len(h) \in Nat /\ Len(g) = Len(h) + 1 /\ \A i \in 1 .. Len(h) : g[i] = h[i]
  BY LenProperties, AppendProperties
<1>2. \A i \in 1 .. Len(s) : s[i].op \in Nat
  BY RecordOf
<1>3. \A i \in 1 .. Len(s) : s[i].op \in 1 .. Len(h)
  BY <1>2 DEF Tells
<1> HIDE DEF g
<1>4. \A i \in 0 .. Len(s) : After(s, g, i) = After(s, h, i)
  BY <1>1, <1>3 DEF After
<1>5. ASSUME NEW i \in 1 .. Len(s)
      PROVE  /\ 1 < s[i].op /\ s[i].op <= Len(g) /\ (i > 1 => s[i - 1].op < s[i].op)
             /\ Leads(s[i].cmd, After(s, g, i - 1), g[s[i].op])
  <2>1. i - 1 \in 0 .. Len(s) /\ g[s[i].op] = h[s[i].op]
    BY <1>1, <1>3
  <2>2. After(s, g, i - 1) = After(s, h, i - 1)
    BY <1>4, <2>1
  <2>3. 1 < s[i].op /\ s[i].op <= Len(g) /\ (i > 1 => s[i - 1].op < s[i].op)
    BY <1>1, <1>2, <1>3 DEF Tells
  <2> QED
    BY <2>1, <2>2, <2>3 DEF Tells
<1> QED
  BY <1>4, <1>5 DEF Tells, g

(* The record of a new operation continues the story.                       *)
LEMMA TellsMore ==
    ASSUME NEW s \in Seq(Record), NEW h \in Seq(Data), h # <<>>, NEW d \in Data, NEW c \in Command,
           Tells(s, h), After(s, h, Len(s)) = h[Len(h)],
           Leads(c, h[Len(h)], d),
           NEW r, r = [cmd |-> c, op |-> Len(h) + 1]
    PROVE  Tells(Append(s, r), Append(h, d)) /\ After(Append(s, r), Append(h, d), Len(Append(s, r))) = d
<1> DEFINE n    == Len(h) + 1
           more == Append(s, r)
           g    == Append(h, d)
<1>1. Len(s) \in Nat /\ Len(h) \in Nat \ {0} /\ n \in Nat
  BY LenProperties, EmptySeq
<1>2. r \in Record /\ r.op = n /\ r.cmd = c
  BY <1>1 DEF Record
<1>3. more \in Seq(Record) /\ Len(more) = Len(s) + 1 /\ more[Len(s) + 1] = r
      /\ \A i \in 1 .. Len(s) : more[i] = s[i]
  BY <1>1, <1>2, AppendProperties
<1>4. Len(g) = n /\ g[n] = d
  BY <1>1, AppendProperties
<1>5. Tells(s, g) /\ After(s, g, Len(s)) = h[Len(h)]
  <2>1. Len(s) \in 0 .. Len(s)
    BY <1>1
  <2> QED
    BY <2>1, TellsLonger
<1>6. \A i \in 1 .. Len(s) : s[i].op \in Nat /\ s[i].op < n
  BY <1>1, RecordOf DEF Tells
<1> HIDE DEF more, g, n
<1>7. \A i \in 0 .. Len(s) : After(more, g, i) = After(s, g, i)
  BY <1>1, <1>3 DEF After
<1>8. ASSUME NEW i \in 1 .. Len(more)
      PROVE  /\ 1 < more[i].op /\ more[i].op <= Len(g) /\ (i > 1 => more[i - 1].op < more[i].op)
             /\ Leads(more[i].cmd, After(more, g, i - 1), g[more[i].op])
  <2>1. CASE i \in 1 .. Len(s)
    <3>0. i - 1 \in 0 .. Len(s) /\ (i > 1 => i - 1 \in 1 .. Len(s))
      BY <1>1, <2>1
    <3>1. more[i] = s[i] /\ i - 1 \in 0 .. Len(s) /\ (i > 1 => more[i - 1] = s[i - 1])
      BY <1>3, <2>1, <3>0
    <3>2. After(more, g, i - 1) = After(s, g, i - 1)
      BY <1>7, <3>1
    <3> QED
      BY <1>5, <2>1, <3>1, <3>2 DEF Tells
  <2>2. CASE i = Len(s) + 1
    <3>1. more[i].op = n /\ more[i].cmd = c /\ 1 < n
      BY <1>1, <1>2, <1>3, <2>2 DEF n
    <3>2. i > 1 => more[i - 1].op < n
      <4>1. i > 1 => i - 1 \in 1 .. Len(s) /\ more[i - 1] = s[i - 1]
        BY <1>1, <1>3, <2>2
      <4> QED
        BY <1>6, <4>1
    <3>3. i - 1 = Len(s) /\ Len(s) \in 0 .. Len(s)
      BY <1>1, <2>2
    <3>4. After(more, g, i - 1) = h[Len(h)]
      BY <1>5, <1>7, <3>3
    <3>5. more[i].op <= Len(g)
      BY <1>1, <1>4, <3>1
    <3> QED
      BY <1>4, <3>1, <3>2, <3>4, <3>5
  <2> QED
    BY <1>1, <1>3, <2>1, <2>2
<1>9. After(more, g, Len(more)) = d
  BY <1>1, <1>2, <1>3, <1>4 DEF After
<1>10. Tells(more, g)
  BY <1>3, <1>8 DEF Tells
<1> QED
  BY <1>9, <1>10 DEF more, g

(* Moving the head of one queue to the end of the one before it.            *)
LEMMA HeadMoves ==
    ASSUME NEW s \in Seq(Record), NEW r \in Seq(Record), r # <<>>
    PROVE  Append(s, Head(r)) \o Tail(r) = s \o r
<1>1. Len(s) \in Nat /\ Len(r) \in Nat \ {0} /\ Head(r) = r[1] /\ Head(r) \in Record
      /\ Tail(r) \in Seq(Record) /\ Len(Tail(r)) = Len(r) - 1 /\ \A i \in 1 .. Len(Tail(r)) : Tail(r)[i] = r[i + 1]
  BY LenProperties, EmptySeq, HeadTailProperties
<1> DEFINE a == Append(s, Head(r))
           b == a \o Tail(r)
           c == s \o r
<1>2. a \in Seq(Record) /\ Len(a) = Len(s) + 1 /\ a[Len(s) + 1] = r[1] /\ \A i \in 1 .. Len(s) : a[i] = s[i]
  BY <1>1, AppendProperties
<1> HIDE DEF a
<1>3. b \in Seq(Record) /\ Len(b) = Len(s) + Len(r)
      /\ \A i \in 1 .. Len(b) : b[i] = IF i <= Len(a) THEN a[i] ELSE Tail(r)[i - Len(a)]
  <2>1. b \in Seq(Record) /\ Len(b) = Len(a) + Len(Tail(r))
        /\ \A i \in 1 .. Len(a) + Len(Tail(r)) : b[i] = IF i <= Len(a) THEN a[i] ELSE Tail(r)[i - Len(a)]
    BY <1>1, <1>2, ConcatProperties
  <2>2. Len(a) + Len(Tail(r)) = Len(s) + Len(r)
    BY <1>1, <1>2
  <2> HIDE DEF b
  <2> QED
    BY <2>1, <2>2
<1>4. c \in Seq(Record) /\ Len(c) = Len(s) + Len(r)
      /\ \A i \in 1 .. Len(c) : c[i] = IF i <= Len(s) THEN s[i] ELSE r[i - Len(s)]
  BY ConcatProperties
<1> HIDE DEF b, c
<1>5. ASSUME NEW i \in 1 .. Len(b) PROVE b[i] = c[i]
  <2>a. Len(a) = Len(s) + 1 /\ i \in 1 .. Len(c) /\ i \in Nat /\ i >= 1
    BY <1>1, <1>2, <1>3, <1>4
  <2>b. b[i] = (IF i <= Len(a) THEN a[i] ELSE Tail(r)[i - Len(a)]) /\ c[i] = IF i <= Len(s) THEN s[i] ELSE r[i - Len(s)]
    BY <1>3, <1>4, <2>a
  <2>1. CASE i <= Len(s)
    <3>1. i <= Len(a) /\ i \in 1 .. Len(s)
      BY <1>1, <2>1, <2>a
    <3>2. a[i] = s[i]
      BY <1>2, <3>1
    <3> QED
      BY <2>1, <2>b, <3>1, <3>2
  <2>2. CASE i = Len(s) + 1
    <3>1. i = Len(a) /\ ~(i <= Len(s)) /\ i <= Len(a) /\ i - Len(s) = 1
      BY <1>1, <2>2, <2>a
    <3>2. a[i] = r[1]
      BY <1>2, <2>2
    <3> QED
      BY <2>b, <3>1, <3>2
  <2>3. CASE i > Len(s) + 1
    <3>1. i - Len(a) \in 1 .. Len(Tail(r)) /\ (i - Len(a)) + 1 = i - Len(s)
      BY <1>1, <1>2, <1>3, <2>3
    <3> QED
      BY <1>1, <1>2, <1>3, <1>4, <2>3, <3>1
  <2> QED
    BY <1>1, <1>3, <2>1, <2>2, <2>3
<1>6. b = c
  BY <1>3, <1>4, <1>5, SeqEqual
<1> QED
  BY <1>6 DEF a, b, c

(* The records on their way into the file, in order, behind those in it.    *)
Line          == aof \o (pen \o (chan \o holder.todo))
Latest        == hist[Len(hist)]
Position(a)   == IF a = <<>> THEN 1 ELSE a[Len(a)].op
Starting      == {"load", "replay", "recovered"}
OneRestart    == ~UseRDB /\ MaxBoots <= 2 /\ Undated

(* What the phases rule out.                                                *)
Phases ==
    /\ boots \in 0 .. 2 /\ (boots = 0 => phase = "down")
    /\ hist[1] = NoStore
    /\ phase # "up" => writer = "off" /\ pen = <<>>
    /\ ~UseAOF => writer = "off" /\ pen = <<>> /\ aof = <<>>
    /\ phase \in {"down", "load", "recovered"} => Unlocked
    /\ phase = "recovered" => replayed = Len(aof)
(* Until the first process serves, nothing has happened.                    *)
Young ==
    boots = 0 \/ (boots = 1 /\ phase \in Starting) =>
       /\ aof = <<>> /\ Len(hist) = 1 /\ durable = 1
       /\ mem = NoStore /\ Unlocked /\ chan = <<>> /\ replayed = 0
(* While it serves, the records in line tell all that clients did.          *)
Serving ==
    boots = 1 /\ phase = "up" =>
       /\ Tells(Line, hist) /\ After(Line, hist, Len(Line)) = Latest
       /\ durable = Position(aof)
       /\ AllLasting(Latest)
       /\ IF Unlocked THEN mem = Latest ELSE holder.out = Latest
(* When it is gone, the file tells the beginning.                           *)
Fallen ==
    boots = 1 /\ phase = "down" => Tells(aof, hist) /\ durable = Position(aof)
(* The second process is where the records it has replayed lead.            *)
Rebuilding ==
    boots = 2 /\ phase \in Starting =>
       /\ Tells(aof, hist) /\ durable = Position(aof)
       /\ After(aof, hist, replayed) = IF Unlocked THEN mem ELSE holder.out
Recoverable == Phases /\ Young /\ Serving /\ Fallen /\ Rebuilding

(* An empty file tells nothing.                                             *)
LEMMA NothingTold == ASSUME NEW h PROVE Tells(<<>>, h) /\ After(<<>>, h, Len(<<>>)) = NoStore /\ Position(<<>>) = 1
BY DEF Tells, After, Position

(* The queues of records.                                                   *)
LEMMA QueuesOfRecords ==
    ASSUME Types
    PROVE  /\ {aof, pen, chan, holder.todo} \subseteq Seq(Record) /\ Line \in Seq(Record)
           /\ hist \in Seq(Data) /\ hist # <<>> /\ Len(hist) \in Nat \ {0}
           /\ NoStore \in Data /\ AllLasting(NoStore)
<1>1. {aof, pen, chan, holder.todo} \subseteq Seq(Record) /\ hist \in Seq(Data)
  BY DEF Types, StoreTypes, LogTypes, Holder
<1>2. Line \in Seq(Record)
  BY <1>1, ConcatProperties DEF Line
<1>3. Len(hist) \in Nat \ {0}
  BY <1>1, LenProperties DEF Types, LogTypes
<1>4. NoStore \in Data
  BY EmptyType DEF NoStore
<1>5. AllLasting(NoStore)
  BY DEF AllLasting, Lasting, NoStore, Empty, Missing
<1> QED
  BY <1>1, <1>2, <1>3, <1>4, <1>5

(* The invariant gives the property.                                        *)
LEMMA RecoverableFlushed == ASSUME Types, Recoverable PROVE RecoversFlushed
<1> SUFFICES ASSUME phase = "recovered" PROVE \E i \in durable .. Len(hist) : mem = hist[i]
  BY DEF RecoversFlushed
<1>1. durable \in durable .. Len(hist)
  BY QueuesOfRecords DEF Types, LogTypes
<1>2. mem = hist[durable]
  <2>1. CASE boots = 1
    BY <2>1 DEF Recoverable, Phases, Young, Starting
  <2>2. CASE boots = 2
    <3>1. durable = Position(aof) /\ After(aof, hist, Len(aof)) = mem /\ hist[1] = NoStore
      BY <2>2 DEF Recoverable, Phases, Rebuilding, Starting
    <3>2. aof = <<>> <=> Len(aof) = 0
      BY QueuesOfRecords, EmptySeq
    <3> QED
      BY <3>1, <3>2 DEF After, Position
  <2>3. boots = 1 \/ boots = 2
    BY DEF Recoverable, Phases
  <2> QED
    BY <2>1, <2>2, <2>3
<1> QED
  BY <1>1, <1>2

(* It holds before the first process starts.                                *)
LEMMA InitRecovers == Init => Recoverable
<1> SUFFICES ASSUME Init PROVE Recoverable
  OBVIOUS
<1>1. hist[1] = NoStore /\ Len(hist) = 1 /\ Unlocked
  BY DEF Init, Unlocked, Free
<1>2. Phases
  BY <1>1 DEF Init, Phases
<1>3. Young /\ Serving /\ Fallen /\ Rebuilding
  BY <1>1 DEF Init, Young, Serving, Fallen, Rebuilding
<1> QED
  BY <1>2, <1>3 DEF Recoverable

(* A process starts.                                                        *)
LEMMA BootRecovers == ASSUME OneRestart, Types, Recoverable, Boot PROVE Recoverable'
<1>1. /\ phase = "down" /\ boots' = boots + 1 /\ boots' \in 1 .. 2
      /\ phase' \in {"load", "recovered"} /\ (phase' = "recovered" => ~UseAOF)
      /\ UNCHANGED <<aof, hist, durable>>
  BY BoundsAssumption DEF Boot, files, history, OneRestart, Recoverable, Phases
<1>2. mem' = NoStore /\ chan' = <<>> /\ writer' = "off" /\ pen' = <<>> /\ replayed' = 0 /\ Unlocked'
  BY DEF Boot, Fresh, Unlocked, Free
<1>3. Len(<<>>) = 0
  OBVIOUS
<1>4. Phases'
  BY <1>1, <1>2, <1>3 DEF Recoverable, Phases
<1>5. Young'
  BY <1>1, <1>2 DEF Recoverable, Phases, Young
<1>6. Serving' /\ Fallen'
  BY <1>1 DEF Serving, Fallen
<1>7. Rebuilding'
  <2>1. ASSUME boots' = 2 PROVE Tells(aof, hist) /\ durable = Position(aof)
    BY <1>1, <2>1 DEF Recoverable, Phases, Fallen
  <2>2. After(aof, hist, 0) = NoStore
    BY DEF After
  <2> QED
    BY <1>1, <1>2, <2>1, <2>2 DEF Rebuilding
<1> QED
  BY <1>4, <1>5, <1>6, <1>7 DEF Recoverable

(* A process ends, and what is not in the file is lost.                     *)
LEMMA EndRecovers == ASSUME Types, Recoverable, Panic \/ Exit \/ Crash PROVE Recoverable'
<1>1. phase' = "down" /\ UNCHANGED <<boots, aof, hist, durable>>
  BY DEF Panic, Exit, Crash, files, history
<1>2. mem' = NoStore /\ chan' = <<>> /\ writer' = "off" /\ pen' = <<>> /\ replayed' = 0 /\ Unlocked'
  BY DEF Panic, Exit, Crash, Fresh, Unlocked, Free
<1>3. Phases'
  BY <1>1, <1>2 DEF Recoverable, Phases
<1>4. Young'
  BY <1>1, <1>2 DEF Recoverable, Young, Starting
<1>5. Serving' /\ Rebuilding'
  BY <1>1 DEF Serving, Rebuilding, Starting
<1>6. Fallen'
  <2> SUFFICES ASSUME boots = 1 PROVE Tells(aof, hist) /\ durable = Position(aof)
    BY <1>1 DEF Fallen
  <2>1. CASE phase \in Starting
    BY <2>1, NothingTold DEF Recoverable, Young
  <2>2. CASE phase = "up"
    <3>1. Tells(Line, hist) /\ durable = Position(aof)
      BY <2>2 DEF Recoverable, Serving
    <3>2. pen \o (chan \o holder.todo) \in Seq(Record)
      BY QueuesOfRecords, ConcatProperties
    <3> QED
      BY <3>1, <3>2, TellsPrefix, QueuesOfRecords DEF Line
  <2>3. CASE phase = "down"
    BY <2>3 DEF Recoverable, Fallen
  <2> QED
    BY <2>1, <2>2, <2>3 DEF Types, StoreTypes, Starting
<1> QED
  BY <1>3, <1>4, <1>5, <1>6 DEF Recoverable

(* The second process replays one more record, and ends up where its        *)
(* operation had led to.                                                    *)
LEMMA ReplayRecovers == ASSUME Types, Recoverable, ReplayCommand PROVE Recoverable'
<1> DEFINE r == dispatchAOF(aof[replayed + 1].cmd, mem, now)
<1>1. /\ phase = "replay" /\ Unlocked /\ replayed < Len(aof) /\ replayed' = replayed + 1 /\ holder'.out = r.data
      /\ ~Unlocked'
      /\ UNCHANGED <<phase, mem, chan, writer, pen, boots, aof, hist, durable>>
  BY DEF ReplayCommand, files, history, Unlocked, Replay, Nobody
<1>2. aof \in Seq(Record) /\ Len(aof) \in Nat /\ replayed \in Nat /\ replayed + 1 \in 1 .. Len(aof)
  BY <1>1 DEF Types, LogTypes
<1>3. boots = 2
  <2>1. aof # <<>>
    BY <1>2
  <2> QED
    BY <1>1, <2>1 DEF Recoverable, Phases, Young, Starting
<1>4. Phases'
  BY <1>1 DEF Recoverable, Phases
<1>5. Young' /\ Serving' /\ Fallen'
  BY <1>1, <1>3 DEF Young, Serving, Fallen
<1>6. Tells(aof, hist) /\ durable = Position(aof) /\ After(aof, hist, replayed) = mem
  BY <1>1, <1>3 DEF Recoverable, Rebuilding, Starting
<1>7. r.data = After(aof, hist, replayed + 1)
  <2>1. (replayed + 1) - 1 = replayed /\ replayed + 1 # 0 /\ now \in Nat
    BY <1>2 DEF Types, StoreTypes
  <2>2. dispatchAOF(aof[replayed + 1].cmd, After(aof, hist, (replayed + 1) - 1), now).data
        = hist[aof[replayed + 1].op]
    BY <1>2, <1>6, <2>1 DEF Tells, Leads
  <2> QED
    BY <1>6, <2>1, <2>2 DEF After
<1>8. Rebuilding'
  BY <1>1, <1>6, <1>7 DEF Rebuilding
<1> QED
  BY <1>4, <1>5, <1>8 DEF Recoverable

(* The other steps of recovery, and Serve.                                  *)
LEMMA RecoveryRecovers == ASSUME OneRestart, Types, Recoverable, Recovery PROVE Recoverable'
<1>1. CASE LoadSnapshot \/ FinishReplay
  <2>1. /\ phase \in Starting /\ phase' \in {"replay", "recovered"} /\ Unlocked
        /\ UNCHANGED <<mem, holder, chan, writer, pen, replayed, boots, aof, hist, durable>>
    BY <1>1 DEF LoadSnapshot, FinishReplay, files, history, OneRestart, Starting
  <2>2. phase' = "recovered" => replayed = Len(aof)
    <3>1. CASE LoadSnapshot
      <4>1. phase' = "recovered" => aof = <<>>
        BY <3>1 DEF LoadSnapshot, OneRestart, Recoverable, Phases
      <4>2. Len(<<>>) = 0 /\ replayed \in Nat /\ replayed <= Len(aof)
        BY DEF Types, LogTypes
      <4> QED
        BY <4>1, <4>2
    <3>2. CASE FinishReplay
      BY <3>2 DEF FinishReplay
    <3> QED
      BY <1>1, <3>1, <3>2
  <2>3. Phases'
    BY <2>1, <2>2 DEF Recoverable, Phases, Unlocked, Starting
  <2>4. Young'
    BY <2>1 DEF Recoverable, Young, Unlocked, Starting
  <2>5. Serving' /\ Fallen'
    BY <2>1 DEF Serving, Fallen
  <2>6. Rebuilding'
    BY <2>1 DEF Recoverable, Rebuilding, Unlocked, Starting
  <2> QED
    BY <2>3, <2>4, <2>5, <2>6 DEF Recoverable
<1>2. CASE Serve
  <2>1. /\ phase = "recovered" /\ phase' = "up" /\ (~UseAOF => writer' = "off")
        /\ UNCHANGED <<mem, holder, chan, pen, replayed, boots, aof, hist, durable>>
    BY <1>2 DEF Serve, files, history
  <2>2. Phases'
    BY <2>1 DEF Recoverable, Phases
  <2>3. Young' /\ Fallen' /\ Rebuilding'
    BY <2>1 DEF Recoverable, Phases, Young, Fallen, Rebuilding, Starting
  <2>4. Serving'
    <3> SUFFICES ASSUME boots = 1 PROVE Serving'
      BY <2>1 DEF Serving
    <3>1. aof = <<>> /\ Len(hist) = 1 /\ durable = 1 /\ mem = NoStore /\ Unlocked /\ chan = <<>> /\ pen = <<>>
          /\ hist[1] = NoStore
      BY <2>1 DEF Recoverable, Young, Phases, Starting
    <3>2. holder.todo = <<>>
      BY <3>1 DEF Types, StoreTypes
    <3>3. Line' = <<>> /\ Latest' = NoStore /\ Unlocked'
      BY <2>1, <3>1, <3>2 DEF Line, Latest, Unlocked
    <3> QED
      BY <2>1, <3>1, <3>3, NothingTold, QueuesOfRecords DEF Serving
  <2> QED
    BY <2>2, <2>3, <2>4 DEF Recoverable
<1> QED
  BY <1>1, <1>2, ReplayRecovers DEF Recovery

(* A step that leaves alone what the invariant speaks of.                   *)
LEMMA OtherRecovers ==
    ASSUME Recoverable, UNCHANGED <<phase, mem, holder, chan, writer, pen, replayed, boots, aof, hist, durable>>
    PROVE  Recoverable'
BY DEF Recoverable, Phases, Young, Serving, Fallen, Rebuilding, Line, Latest, Unlocked

(* Between processes and in the second one's service nothing is claimed.    *)
LEMMA ServiceOnly ==
    ASSUME Types, Recoverable, phase = "up", phase' = "up", boots' = boots, hist'[1] = hist[1],
           ~UseAOF => writer' = "off" /\ pen' = <<>> /\ aof' = <<>>,
           boots = 1 => Serving'
    PROVE  Recoverable'
<1>1. boots \in 1 .. 2
  BY DEF Recoverable, Phases
<1>2. Phases'
  BY <1>1 DEF Recoverable, Phases
<1>3. Young' /\ Fallen' /\ Rebuilding'
  BY <1>1 DEF Young, Fallen, Rebuilding, Starting
<1>4. Serving'
  BY DEF Serving
<1> QED
  BY <1>2, <1>3, <1>4 DEF Recoverable

(* A client's call begins.                                                  *)
LEMMA BeginRecovers == ASSUME OneRestart, Types, Recoverable, NEW call \in Calls, Begin(call) PROVE Recoverable'
<1> DEFINE r == Exec(call)
           n == Len(r.log)
           new == Len(hist) + 1
           todo == [j \in 1 .. n |-> [cmd |-> r.log[j], op |-> IF j = n THEN new ELSE 0]]
<1>1. /\ phase = "up" /\ Unlocked /\ ~Unlocked' /\ holder'.out = r.data /\ holder'.todo = todo
      /\ hist' = Append(hist, r.data)
      /\ UNCHANGED <<phase, mem, chan, writer, pen, replayed, boots, aof, durable>>
  BY DEF Begin, files, Unlocked, Client, Nobody
<1>2. hist \in Seq(Data) /\ hist # <<>> /\ Len(hist) \in Nat \ {0} /\ r.data \in Data /\ r.log \in Seq(Command)
  BY QueuesOfRecords, CallType DEF Types, StoreTypes
<1>3. hist'[1] = hist[1] /\ hist'[Len(hist')] = r.data
  <2>1. 1 \in 1 .. Len(hist)
    BY <1>2
  <2> HIDE DEF r
  <2> QED
    BY <1>1, <1>2, <2>1, AppendProperties
<1>4. ASSUME boots = 1 PROVE Serving'
  <2>1. Tells(Line, hist) /\ After(Line, hist, Len(Line)) = Latest /\ durable = Position(aof) /\ AllLasting(mem)
        /\ mem = Latest
    BY <1>1, <1>4 DEF Recoverable, Serving
  <2>2. AllLasting(r.data)
        /\ \/ r.log = <<>> /\ r.data = mem
           \/ \E c \in Command : r.log = <<c>> /\ Leads(c, mem, r.data)
    BY <2>1, CallRedone DEF OneRestart, Types, StoreTypes
  <2>3. holder.todo = <<>> /\ Line \in Seq(Record) /\ {aof, pen, chan} \subseteq Seq(Record)
    BY <1>1, QueuesOfRecords DEF Types, StoreTypes
  <2>4. Latest' = r.data
    BY <1>3 DEF Latest
  <2>5. Tells(Line', hist') /\ After(Line', hist', Len(Line')) = r.data
    <3>1. CASE r.log = <<>> /\ r.data = mem
      <4>1. todo = <<>>
        BY <3>1
      <4>2. Line' = Line
        BY <1>1, <2>3, <4>1 DEF Line
      <4>3. Len(Line) \in 0 .. Len(Line)
        BY <2>3, LenProperties
      <4> HIDE DEF r
      <4>4. Tells(Line, hist') /\ After(Line, hist', Len(Line)) = Latest
        BY <1>1, <1>2, <2>1, <2>3, <4>3, TellsLonger
      <4> QED
        BY <2>1, <3>1, <4>2, <4>4
    <3>2. ASSUME NEW c \in Command, r.log = <<c>>, Leads(c, mem, r.data)
          PROVE  Tells(Line', hist') /\ After(Line', hist', Len(Line')) = r.data
      <4> DEFINE rec == [cmd |-> c, op |-> new]
      <4>1. todo = <<rec>>
        <5>1. n = 1 /\ r.log[1] = c
          BY <3>2
        <5> HIDE DEF r, n
        <5> QED
          BY <5>1
      <4>2. rec \in Record
        BY <1>2 DEF Record
      <4> HIDE DEF rec, r
      <4>3. Line' = Append(Line, rec)
        <5>1. Line' = aof \o (pen \o (chan \o <<rec>>))
          BY <1>1, <4>1 DEF Line
        <5>2. Line = aof \o (pen \o chan)
          BY <2>3 DEF Line
        <5>3. <<rec>> \in Seq(Record) /\ pen \o chan \in Seq(Record)
          BY <2>3, <4>2
        <5>4. pen \o (chan \o <<rec>>) = (pen \o chan) \o <<rec>>
          BY <2>3, <5>3, ConcatAssociative
        <5>5. aof \o ((pen \o chan) \o <<rec>>) = (aof \o (pen \o chan)) \o <<rec>>
          BY <2>3, <5>3, ConcatAssociative
        <5>6. Line \o <<rec>> = Append(Line, rec)
          BY <2>3, <4>2, AppendIsConcat
        <5> QED
          BY <5>1, <5>2, <5>4, <5>5, <5>6
      <4>4. After(Line, hist, Len(Line)) = hist[Len(hist)] /\ mem = hist[Len(hist)]
        BY <2>1 DEF Latest
      <4>5. Leads(c, hist[Len(hist)], r.data)
        BY <3>2, <4>4
      <4>6. rec = [cmd |-> c, op |-> Len(hist) + 1]
        BY DEF rec
      <4>7. Tells(Append(Line, rec), Append(hist, r.data))
            /\ After(Append(Line, rec), Append(hist, r.data), Len(Append(Line, rec))) = r.data
        BY <1>2, <2>1, <2>3, <3>2, <4>4, <4>5, <4>6, TellsMore
      <4> QED
        BY <1>1, <4>3, <4>7
    <3> HIDE DEF r
    <3> QED
      BY <2>2, <3>1, <3>2
  <2> QED
    BY <1>1, <2>1, <2>2, <2>4, <2>5 DEF Serving
<1>5. ~UseAOF => writer' = "off" /\ pen' = <<>> /\ aof' = <<>>
  BY <1>1 DEF Recoverable, Phases
<1> QED
  BY <1>1, <1>3, <1>4, <1>5, ServiceOnly

(* appendAOF hands a record to the channel: the line stays as it is.        *)
LEMMA SendRecovers == ASSUME Types, Recoverable, Send PROVE Recoverable'
<1> DEFINE todo == holder.todo
<1>1. /\ todo # <<>> /\ chan' = Append(chan, Head(todo)) /\ holder' = [holder EXCEPT !.todo = Tail(todo)]
      /\ UNCHANGED <<phase, mem, writer, pen, replayed, boots, aof, hist, durable>>
  BY DEF Send, files, history
<1>2. holder'.by = holder.by /\ holder'.out = holder.out /\ holder'.todo = Tail(todo)
  <2>1. holder \in Holder
    BY DEF Types, StoreTypes
  <2> HIDE DEF todo
  <2> QED
    BY <1>1, <2>1 DEF Holder
<1>3. Unlocked' <=> Unlocked
  BY <1>2 DEF Unlocked
<1>4. ~Unlocked
  BY <1>1 DEF Types, StoreTypes
<1>5. phase \in {"replay", "up"}
  BY <1>4 DEF Recoverable, Phases, Types, StoreTypes
<1>6. CASE phase = "up"
  <2>1. chan' \o holder'.todo = chan \o holder.todo
    BY <1>1, <1>2, HeadMoves, QueuesOfRecords
  <2>2. Line' = Line /\ Latest' = Latest
    BY <1>1, <2>1 DEF Line, Latest
  <2>3. boots = 1 => Serving'
    BY <1>1, <1>2, <1>3, <1>6, <2>2 DEF Recoverable, Serving
  <2>4. ~UseAOF => writer' = "off" /\ pen' = <<>> /\ aof' = <<>>
    BY <1>1 DEF Recoverable, Phases
  <2> QED
    BY <1>1, <1>6, <2>3, <2>4, ServiceOnly
<1>7. CASE phase = "replay"
  <2>1. boots = 2
    BY <1>4, <1>7 DEF Recoverable, Phases, Young, Starting
  <2>2. Phases'
    BY <1>1, <1>7 DEF Recoverable, Phases
  <2>3. Young' /\ Serving' /\ Fallen'
    BY <1>1, <1>7, <2>1 DEF Young, Serving, Fallen
  <2>4. Rebuilding'
    BY <1>1, <1>2, <1>3, <1>7 DEF Recoverable, Rebuilding
  <2> QED
    BY <2>2, <2>3, <2>4 DEF Recoverable
<1> QED
  BY <1>5, <1>6, <1>7

(* A method's effect becomes the store.                                     *)
LEMMA CommitRecovers == ASSUME Types, Recoverable, Commit PROVE Recoverable'
<1>1. /\ ~Unlocked /\ holder.todo = <<>> /\ mem' = holder.out /\ Unlocked' /\ holder'.todo = <<>>
      /\ UNCHANGED <<phase, chan, writer, pen, replayed, boots, aof, hist, durable>>
  BY DEF Commit, files, history, Unlocked, Free
<1>2. phase \in {"replay", "up"}
  BY <1>1 DEF Recoverable, Phases, Types, StoreTypes
<1>3. CASE phase = "up"
  <2>1. Line' = Line /\ Latest' = Latest
    BY <1>1 DEF Line, Latest
  <2>2. boots = 1 => Serving'
    BY <1>1, <1>3, <2>1 DEF Recoverable, Serving
  <2>3. ~UseAOF => writer' = "off" /\ pen' = <<>> /\ aof' = <<>>
    BY <1>1 DEF Recoverable, Phases
  <2> QED
    BY <1>1, <1>3, <2>2, <2>3, ServiceOnly
<1>4. CASE phase = "replay"
  <2>1. boots = 2
    BY <1>1, <1>4 DEF Recoverable, Phases, Young, Starting
  <2>2. Phases'
    BY <1>1, <1>4 DEF Recoverable, Phases
  <2>3. Young' /\ Serving' /\ Fallen'
    BY <1>1, <1>4, <2>1 DEF Young, Serving, Fallen
  <2>4. Rebuilding'
    BY <1>1, <1>4 DEF Recoverable, Rebuilding
  <2> QED
    BY <2>2, <2>3, <2>4 DEF Recoverable
<1> QED
  BY <1>2, <1>3, <1>4

(* AOFWriter takes a record out of the channel: the line stays as it is.    *)
LEMMA ReceiveRecovers == ASSUME Types, Recoverable, Receive PROVE Recoverable'
<1>1. /\ writer = "on" /\ pen = <<>> /\ chan # <<>> /\ pen' = <<Head(chan)>> /\ chan' = Tail(chan)
      /\ UNCHANGED <<phase, mem, holder, writer, replayed, boots, aof, hist, durable>>
  BY DEF Receive, files, history
<1>2. phase = "up" /\ UseAOF
  BY <1>1 DEF Recoverable, Phases
<1>3. pen' \o (chan' \o holder.todo) = pen \o (chan \o holder.todo)
  <2> DEFINE x == Head(chan)
             rest == Tail(chan)
             todo == holder.todo
  <2>1. x \in Record /\ rest \in Seq(Record) /\ todo \in Seq(Record) /\ chan \in Seq(Record)
    BY <1>1, QueuesOfRecords, HeadTailProperties
  <2>2. <<>> \in Seq(Record) /\ Append(<<>>, x) = <<x>>
    OBVIOUS
  <2>3. Append(<<>>, x) \o rest = <<>> \o chan
    BY <1>1, <2>1, <2>2, HeadMoves
  <2>4. <<>> \o chan = chan /\ <<>> \o (chan \o todo) = chan \o todo
    <3>1. chan \o todo \in Seq(Record)
      BY <2>1, ConcatProperties
    <3> HIDE DEF todo
    <3> QED
      BY <2>1, <3>1, ConcatEmptySeq
  <2> HIDE DEF x, rest, todo
  <2>5. <<x>> \in Seq(Record)
    BY <2>1
  <2>6. <<x>> \o (rest \o todo) = (<<x>> \o rest) \o todo
    BY <2>1, <2>5, ConcatAssociative
  <2>7. <<x>> \o (rest \o todo) = <<>> \o (chan \o todo)
    BY <2>2, <2>3, <2>4, <2>6
  <2> QED
    BY <1>1, <2>7 DEF x, rest, todo
<1>4. Line' = Line /\ Latest' = Latest /\ (Unlocked' <=> Unlocked)
  BY <1>1, <1>3 DEF Line, Latest, Unlocked
<1>5. boots = 1 => Serving'
  BY <1>1, <1>2, <1>4 DEF Recoverable, Serving
<1> QED
  BY <1>1, <1>2, <1>5, ServiceOnly

(* AOFWriter flushes its record: the line stays as it is, and the file      *)
(* grows to the next operation.                                             *)
LEMMA FlushRecovers == ASSUME Types, Recoverable, Flush PROVE Recoverable'
<1> DEFINE x    == pen[1]
           rest == chan \o holder.todo
<1>1. /\ pen # <<>> /\ pen' = <<>> /\ aof' = Append(aof, x)
      /\ durable' = IF x.op > durable THEN x.op ELSE durable
      /\ UNCHANGED <<phase, mem, holder, chan, writer, replayed, boots, hist>>
  BY DEF Flush
<1>2. phase = "up" /\ UseAOF
  BY <1>1 DEF Recoverable, Phases
<1>3. pen = <<x>> /\ x \in Record /\ x.op \in Nat
  <2>0. pen \in Seq(Record)
    BY QueuesOfRecords
  <2>1. Len(pen) = 1
    <3> DEFINE n == Len(pen)
    <3>1. n \in Nat /\ n # 0
      BY <1>1, <2>0, EmptySeq, LenProperties
    <3>2. n <= 1
      BY DEF Types, LogTypes
    <3> HIDE DEF n
    <3>3. n = 1
      BY <3>1, <3>2
    <3> QED
      BY <3>3 DEF n
  <2>2. x \in Record /\ x.op \in Nat
    <3>1. 1 \in 1 .. Len(pen)
      BY <2>1
    <3> QED
      BY <2>0, <3>1, RecordOf
  <2>3. <<x>> \in Seq(Record) /\ Len(<<x>>) = 1 /\ <<x>>[1] = x
    BY <2>2
  <2>4. \A i \in 1 .. Len(pen) : pen[i] = <<x>>[i]
    BY <2>1, <2>3
  <2> HIDE DEF x
  <2>5. pen = <<x>>
    BY <2>0, <2>1, <2>3, <2>4, SeqEqual
  <2> QED
    BY <2>2, <2>5
<1>4. aof \in Seq(Record) /\ rest \in Seq(Record) /\ <<x>> \in Seq(Record) /\ Len(aof) \in Nat
  BY <1>3, QueuesOfRecords, ConcatProperties, LenProperties
<1> HIDE DEF x, rest
<1>5. Append(aof, x) \in Seq(Record) /\ Len(Append(aof, x)) = Len(aof) + 1 /\ Append(aof, x)[Len(aof) + 1] = x
  BY <1>3, <1>4, AppendProperties
<1>6. Line = Append(aof, x) \o rest
  <2>1. Line = aof \o (<<x>> \o rest)
    BY <1>3 DEF Line, rest
  <2>2. aof \o (<<x>> \o rest) = (aof \o <<x>>) \o rest
    BY <1>4, ConcatAssociative
  <2>3. aof \o <<x>> = Append(aof, x)
    BY <1>3, <1>4, AppendIsConcat
  <2> QED
    BY <2>1, <2>2, <2>3
<1>7. Line' = Line /\ Latest' = Latest /\ (Unlocked' <=> Unlocked)
  <2>1. Line' = Append(aof, x) \o (<<>> \o rest)
    BY <1>1 DEF Line, rest
  <2>2. <<>> \o rest = rest
    BY <1>4, ConcatEmptySeq
  <2> QED
    BY <1>1, <1>6, <2>1, <2>2 DEF Latest, Unlocked
<1>8. ASSUME boots = 1 PROVE durable' = Position(aof')
  <2>1. Tells(Line, hist) /\ durable = Position(aof)
    BY <1>2, <1>8 DEF Recoverable, Serving
  <2>2. Tells(Append(aof, x), hist)
    BY <1>4, <1>5, <1>6, <2>1, TellsPrefix, QueuesOfRecords
  <2> DEFINE a == Append(aof, x)
             n == Len(aof) + 1
  <2>3. n \in 1 .. Len(a) /\ a[n] = x /\ Len(a) = n
    BY <1>4, <1>5
  <2>4. 1 < x.op /\ (n > 1 => a[n - 1].op < x.op)
    <3> HIDE DEF a, n
    <3> QED
      BY <2>2, <2>3 DEF Tells, a
  <2>5. durable < x.op /\ durable \in Nat
    <3>1. durable \in Nat
      BY DEF Types, LogTypes
    <3>2. CASE aof = <<>>
      BY <2>1, <2>4, <3>1, <3>2 DEF Position
    <3>3. CASE aof # <<>>
      <4>1. Len(aof) \in 1 .. Len(aof) /\ n - 1 = Len(aof) /\ n > 1
        BY <1>4, <3>3, EmptySeq
      <4>2. a[Len(aof)] = aof[Len(aof)]
        BY <1>3, <1>4, <4>1, AppendProperties
      <4> HIDE DEF a, n
      <4> QED
        BY <2>1, <2>4, <3>1, <3>3, <4>1, <4>2 DEF Position
    <3> QED
      BY <3>2, <3>3
  <2>6. durable' = x.op
    BY <1>1, <1>3, <2>5
  <2>7. aof' = a /\ a # <<>>
    BY <1>1, <1>4, <2>3
  <2> HIDE DEF a, n
  <2> QED
    BY <2>3, <2>6, <2>7 DEF Position
<1>9. boots = 1 => Serving'
  BY <1>1, <1>2, <1>7, <1>8 DEF Recoverable, Serving
<1> QED
  BY <1>1, <1>2, <1>9, ServiceOnly

(* Every step keeps the records in line with what clients did.              *)
LEMMA NextRecovers == OneRestart /\ Types /\ Recoverable /\ [Next]_vars => Recoverable'
<1> SUFFICES ASSUME OneRestart, Types, Recoverable, [Next]_vars PROVE Recoverable'
  OBVIOUS
<1>1. CASE Saving \/ ShutdownStop \/ ShutdownClose \/ Tick \/ UNCHANGED vars
  <2>1. UNCHANGED <<phase, mem, holder, chan, writer, pen, replayed, boots, aof, hist, durable>>
    BY <1>1 DEF Saving, TickerFires, SaveCopy, SaveCreate, SaveEncode, ShutdownStop, ShutdownClose, Tick, vars,
                volatile, files, history
  <2> QED
    BY <2>1, OtherRecovers
<1> QED
  BY <1>1, BootRecovers, EndRecovers, RecoveryRecovers, BeginRecovers, SendRecovers, CommitRecovers,
     ReceiveRecovers, FlushRecovers DEF Next, Locked, Writer, Shutdown

(* With the AOF (or no persistence) and calls that set no deadline, the     *)
(* first restart, after any crash, panic or shutdown, finds the state of an *)
(* operation no older than the last one whose records are in the file       *)
(* (RebuildStoreFromAOF, recoverStore, AOFWriter, appendAOF).               *)
THEOREM FirstRestartRecovers == OneRestart => (Spec => []RecoversFlushed)
<1> SUFFICES ASSUME OneRestart PROVE Spec => []RecoversFlushed
  OBVIOUS
<1>1. Types /\ Recoverable => RecoversFlushed
  BY RecoverableFlushed
<1> QED
  BY <1>1, InitTypes, NextTypes, InitRecovers, NextRecovers, PTL DEF Spec
=============================================================================
