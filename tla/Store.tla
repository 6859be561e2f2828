------------------------------- MODULE Store -------------------------------
(***************************************************************************)
(* Client goroutines calling the methods of one shared store.Store while   *)
(* the clock runs.  Every method that changes the store is an action; all  *)
(* but SetNX run in one critical section of Store.mu.  SetNX calls Exists  *)
(* and then Set, each under its own lock, and other clients run in between.*)
(*                                                                         *)
(* Two history variables observe the store and influence nothing:          *)
(* follower executes every appended AOF command the moment it is appended, *)
(* and grants counts, per key, the clients that were told by SETNX or      *)
(* SET NX that they created the key, since the key was last absent.        *)
(***************************************************************************)
EXTENDS StoreOps

CONSTANTS
    Client,       \* client goroutines
    Ops,          \* the operations this instance's clients use
    Writes,       \* strings clients write
    OptionSets,   \* SetOptions records clients use
    Pushes,       \* argument lists of LPUSH and RPUSH
    Counts,       \* count arguments of LPOP and RPOP
    Windows,      \* <<start, stop>> arguments of LTRIM
    FieldMaps,    \* field/value arguments of HSET
    FieldSets,    \* field arguments of HDEL
    TTLs,         \* arguments of EXPIRE; expire.go refuses negative ones
    MaxNow,       \* bound on the clock
    MaxLen        \* bound on the length of a list

ASSUME ArgsAssumption ==
    /\ Writes \subseteq Str
    /\ OptionSets \subseteq Options
    /\ Pushes \subseteq Seq(Str) \ {<<>>}
    /\ \A count \in Counts : count \in Seq(Int) /\ Len(count) <= 1
    /\ Windows \subseteq Int \X Int
    /\ FieldMaps \subseteq HashData \ {NoFields}
    /\ FieldSets \subseteq (SUBSET Field) \ {{}}
    /\ TTLs \subseteq Nat
ASSUME BoundsAssumption == MaxNow \in Nat /\ MaxLen \in Nat

VARIABLES
    data,      \* Store.data
    now,       \* time.Now()
    setting,   \* clients between the two halves of SetNX: what they will Set
    follower,  \* history: the result of executing the appended AOF commands
    grants     \* history: successful creations since the key was last absent

vars == <<data, now, setting, follower, grants>>

Idle == <<>>

(* Types.  Every integer a string holds fits Go's int.                      *)
TypeOK ==
    /\ data \in Data
    /\ now \in Nat
    /\ setting \in [Client -> {Idle} \cup (Db \X Key \X Str)]
    /\ follower \in Data
    /\ grants \in [Db -> [Key -> Nat]]

Init ==
    /\ data = [db \in Db |-> Empty]
    /\ now = 0
    /\ setting = [c \in Client |-> Idle]
    /\ follower = data
    /\ grants = [db \in Db |-> [k \in Key |-> 0]]

-----------------------------------------------------------------------------
(* A critical section with outcome r; won is the set of <<db, k>> whose     *)
(* creation it reports to the client.                                       *)
Count1(won, db, k) == IF <<db, k>> \in won THEN 1 ELSE 0

Apply(r, won) ==
    /\ data' = r.data
    /\ follower' = ReplayLog(r.log, follower, now)
    /\ grants' = [db \in Db |-> [k \in Key |->
                     IF Live(r.data[db][k], now) THEN grants[db][k] + Count1(won, db, k) ELSE 0]]
    /\ now' = now

Do(r)      == Apply(r, {}) /\ UNCHANGED setting
On(db, k, r) == Do(At(data, db, k, r))

DoSet(db, k, v, o) ==
    LET r == At(data, db, k, Set(data[db][k], now, db, k, v, o))
    IN  /\ "SET" \in Ops
        /\ Apply(r, IF o.nx /\ r.reply = Ok THEN {<<db, k>>} ELSE {})
        /\ UNCHANGED setting

(* The first half of SetNX: Exists under the read lock.                     *)
SetNXCheck(c, db, k, v) ==
    /\ "SETNX" \in Ops
    /\ setting[c] = Idle
    /\ ~Exists(data[db][k], now)
    /\ setting' = [setting EXCEPT ![c] = <<db, k, v>>]
    /\ UNCHANGED <<data, now, follower, grants>>

(* The second half: an unconditional Set, and reply 1.                      *)
SetNXSet(c) ==
    LET db == setting[c][1]
        k  == setting[c][2]
    IN  /\ setting[c] # Idle
        /\ Apply(At(data, db, k, Set(data[db][k], now, db, k, setting[c][3], NoOption)), {<<db, k>>})
        /\ setting' = [setting EXCEPT ![c] = Idle]

DoDel(db, k)          == "DEL" \in Ops /\ On(db, k, Del(data[db][k], db, k))
DoExpire(db, k, secs) == "EXPIRE" \in Ops /\ On(db, k, Expire(data[db][k], now, db, k, secs))
DoIncr(db, k)         == "INCR" \in Ops /\ On(db, k, Incr(data[db][k], db, k))
DoDecr(db, k)         == "DECR" \in Ops /\ On(db, k, Decr(data[db][k], db, k))

Room(db, k, vals)     == Len(data[db][k].list) + Len(vals) <= MaxLen
DoLPush(db, k, vals)  == "LPUSH" \in Ops /\ Room(db, k, vals) /\ On(db, k, LPush(data[db][k], db, k, vals))
DoRPush(db, k, vals)  == "RPUSH" \in Ops /\ Room(db, k, vals) /\ On(db, k, RPush(data[db][k], db, k, vals))
DoLPop(db, k, count)  == "LPOP" \in Ops /\ On(db, k, LPop(data[db][k], now, db, k, count))
DoRPop(db, k, count)  == "RPOP" \in Ops /\ On(db, k, RPop(data[db][k], now, db, k, count))
DoLTrim(db, k, w)     == "LTRIM" \in Ops /\ On(db, k, LTrim(data[db][k], now, db, k, w[1], w[2]))
DoHSet(db, k, fv)     == "HSET" \in Ops /\ On(db, k, HSet(data[db][k], now, db, k, fv))
DoHDel(db, k, fs)     == "HDEL" \in Ops /\ On(db, k, HDel(data[db][k], now, db, k, fs))
DoRename(db, k, new)  == "RENAME" \in Ops /\ Do(Rename(data, now, db, k, new))
DoFlushDb(db)         == "FLUSHDB" \in Ops /\ Do(FlushDb(data, db))
DoFlushAll            == "FLUSHALL" \in Ops /\ Do(FlushAll(data))

(* Time passes; a key whose deadline passes is no longer there.             *)
Tick ==
    /\ now < MaxNow
    /\ now' = now + 1
    /\ grants' = [db \in Db |-> [k \in Key |->
                     IF Live(data[db][k], now + 1) THEN grants[db][k] ELSE 0]]
    /\ UNCHANGED <<data, setting, follower>>

KeyOp(db, k) ==
    \/ \E v \in Writes, o \in OptionSets : DoSet(db, k, v, o)
    \/ \E c \in Client, v \in Writes : SetNXCheck(c, db, k, v)
    \/ DoDel(db, k)
    \/ \E secs \in TTLs : DoExpire(db, k, secs)
    \/ DoIncr(db, k)
    \/ DoDecr(db, k)
    \/ \E vals \in Pushes : DoLPush(db, k, vals)
    \/ \E vals \in Pushes : DoRPush(db, k, vals)
    \/ \E count \in Counts : DoLPop(db, k, count)
    \/ \E count \in Counts : DoRPop(db, k, count)
    \/ \E w \in Windows : DoLTrim(db, k, w)
    \/ \E fv \in FieldMaps : DoHSet(db, k, fv)
    \/ \E fs \in FieldSets : DoHDel(db, k, fs)
    \/ \E new \in Key : DoRename(db, k, new)

Next ==
    \/ \E db \in Db, k \in Key : KeyOp(db, k)
    \/ \E c \in Client : SetNXSet(c)
    \/ \E db \in Db : DoFlushDb(db)
    \/ DoFlushAll
    \/ Tick

Spec == Init /\ [][Next]_vars

-----------------------------------------------------------------------------
(* Executing the appended AOF commands, each at the moment it is appended,  *)
(* reproduces the store exactly: every method logs a command that redoes    *)
(* all of what it did, and logs nothing when it did nothing (appendAOF in   *)
(* every method against dispatchAOF).                                       *)
InSync == follower = data

(* A key is created by at most one client per life: between two clients     *)
(* being told "you created it" (SET NX or SETNX used as a lock) the key was *)
(* deleted or expired.                                                      *)
AtMostOneGrant == \A db \in Db, k \in Key : grants[db][k] <= 1

(* HDel removes a hash with its last field, so no empty hash is ever        *)
(* visible to EXISTS, TYPE or KEYS.                                         *)
NoEmptyHash == \A db \in Db, k \in Key : data[db][k].type = "hash" => Fields(data[db][k].hash) # {}

(* What a reply says is what the readers then show: HSET and HDEL count the *)
(* fields by which HGETALL grows and shrinks, a push replies with the       *)
(* length LRANGE shows, a pop with the elements LRANGE showed at that end,  *)
(* LTRIM leaves exactly what LRANGE shows of the same window, TTL shows the *)
(* deadline EXPIRE and SET EX gave, and RENAME moves what GET shows.  Keys  *)
(* whose deadline has passed are the exception: a push replies with the     *)
(* length of a list nobody sees, and TTL says -2 of a key that expired two  *)
(* seconds ago as it does of no key, while EXPIRE tells them apart.         *)
Elems(reply) == IF reply[1] = "list" THEN reply[2] ELSE IF reply[1] = "str" THEN <<reply[2]>> ELSE <<>>
AllElems(e)  == Elems(LRange(e, now, 0, -1))
HLen(e)      == LET h == HGetAll(e, now) IN IF h[1] = "hash" THEN Cardinality(Fields(h[2])) ELSE 0
Counted(r)   == r.reply[1] = "int"
HashReplies(db, k, e) ==
    /\ \A fv \in FieldMaps : LET r == HSet(e, now, db, k, fv)
                             IN  Counted(r) => r.reply[2] = HLen(r.value) - HLen(e)
    /\ \A fs \in FieldSets : LET r == HDel(e, now, db, k, fs)
                             IN  Counted(r) => r.reply[2] = HLen(e) - HLen(r.value)
ListReplies(db, k, e) ==
    /\ \A vals \in Pushes : \A r \in {LPush(e, db, k, vals), RPush(e, db, k, vals)} :
           Counted(r) /\ ~IsExpired(e, now) => r.reply[2] = Len(AllElems(r.value))
    /\ \A count \in Counts :
           /\ LET r == LPop(e, now, db, k, count) IN Elems(r.reply) \o AllElems(r.value) = AllElems(e)
           /\ LET r == RPop(e, now, db, k, count) IN AllElems(r.value) \o Elems(r.reply) = AllElems(e)
    /\ \A w \in Windows :
           e.type = "list" => AllElems(LTrim(e, now, db, k, w[1], w[2]).value) = Elems(LRange(e, now, w[1], w[2]))
TTLReplies(db, k, e) ==
    /\ \A secs \in TTLs : LET r == Expire(e, now, db, k, secs)
                          IN  /\ ~IsExpired(e, now) => r.reply = Num(IF TTL(e, now) = -2 THEN 0 ELSE 1)
                              /\ TTL(r.value, now) = IF r.reply = Num(1) THEN secs ELSE -2
    /\ \A v \in Writes, o \in OptionSets :
           LET r == Set(e, now, db, k, v, o)
           IN  r.reply = Ok => TTL(r.value, now) = IF o.ex > 0 THEN o.ex ELSE IF o.px > 0 THEN o.px \div Second ELSE -1
RenameReplies(db, k) ==
    \A new \in Key \ {k} :
        LET r == Rename(data, now, db, k, new)
        IN  Live(data[db][k], now) => /\ Get(r.data[db][new], now) = Get(data[db][k], now)
                                     /\ ~Exists(r.data[db][k], now)
RepliesMatchReads ==
    \A db \in Db, k \in Key :
        LET e == data[db][k]
        IN  HashReplies(db, k, e) /\ ListReplies(db, k, e) /\ TTLReplies(db, k, e) /\ RenameReplies(db, k)

(* A key whose deadline has passed becomes visible again only by a method   *)
(* that replaces its whole value (Set, SetNX, HSet with nothing of the old  *)
(* hash, Rename onto it) or by Expire, never by Incr, a push or a pop that  *)
(* works on the stale value.                                                *)
Revives(db, k) ==
    \/ \E v \in Writes, o \in OptionSets : DoSet(db, k, v, o)
    \/ \E c \in Client : SetNXSet(c)
    \/ \E fv \in FieldMaps : DoHSet(db, k, fv) /\ data'[db][k].hash = fv
    \/ \E old \in Key : DoRename(db, old, k)
    \/ \E secs \in TTLs : DoExpire(db, k, secs)
ExpiredStaysGone ==
    [][\A db \in Db, k \in Key :
          IsExpired(data[db][k], now) /\ Live(data[db][k], now)' => Revives(db, k)]_vars
=============================================================================
