---------------------------- MODULE SessionProofs ----------------------------
(***************************************************************************)
(* Theorems about Session, for any connections, databases, commands,       *)
(* values and bounds.                                                      *)
(*                                                                         *)
(* Base (types, and what a handler in the middle of a command works on) is *)
(* inductive; LocksInOrder, Selection and LogInStep are inductive with it. *)
(***************************************************************************)
EXTENDS Session, TLAPS

(* What a handler that has begun a command works on.                        *)
InCommand(c) ==
    /\ at[c] \notin {"accepted", Ready, "leaving", "closed"} => request[c] \in Commands
    /\ at[c] \in {"SELECT", "count"} => request[c].op = "SELECT"
    /\ at[c] = "SET" => request[c].op = "SET"
    /\ at[c] = "DEL" => request[c].op = "DEL"
    /\ at[c] = "send" => request[c].op \in {"SET", "DEL"}

(* The records a writer has yet to send are an end of what its method logs. *)
ToSend(c) ==
    /\ at[c] # "send" => unsent[c] = <<>>
    /\ request[c].op = "DEL" => unsent[c] \in {<<"DEL">>, <<>>}
    /\ request[c].op = "SET" =>
          IF request[c].ttl > 0 THEN unsent[c] \in {<<"SET", "EXPIRE">>, <<"EXPIRE">>, <<>>}
                                ELSE unsent[c] \in {<<"SET">>, <<>>}

(* The parts of TypeOK.                                                     *)
Places == {"accepted", Ready, "begin", "invoke", "SELECT", "count", "CONN",
           "SET", "DEL", "send", "GET", "check", "delete", "leaving", "closed"}
HandlerTypes ==
    /\ at \in [Conns -> Places]
    /\ request \in [Conns -> Commands \cup {NoRequest}]
    /\ dbIndex \in [Conns -> Db]
    /\ found \in [Conns -> Value]
    /\ cmds \in 0 .. MaxCmds
ServerTypes ==
    /\ conn \in [Conns -> Db]
    /\ connections \subseteq Conns
    /\ listener \in {"open", "stopping", "closed"}
    /\ selected \in [Conns -> Db]
LockTypes ==
    /\ serverMu \in Conns \cup {Nobody}
    /\ storeMu \in Conns \cup {Nobody}
    /\ fatal \in BOOLEAN
    /\ now \in 0 .. MaxNow
StoreTypes ==
    /\ data \in [Db -> Value]
    /\ unsent \in [Conns -> Seq({"SET", "EXPIRE", "DEL"})]
    /\ queued \in 0 .. QueueCap
    /\ log \in [Db -> [val : Values \cup {"none"}, timed : BOOLEAN]]
    /\ lost \subseteq Db

Progress == \A c \in Conns : InCommand(c) /\ ToSend(c)
Base     == TypeOK /\ Progress

(* Server.mu is held across a step only by SELECT, and Store.mu only by a   *)
(* writer, which never waits for Server.mu: the two cannot form a cycle.    *)
LocksInOrder ==
    \A c \in Conns : /\ serverMu = c <=> at[c] = "count"
                     /\ storeMu = c <=> at[c] = "send"

(* The database of a connection is what its client selected.                *)
OwnSelection ==
    /\ \A c \in Conns : conn[c] = selected[c] /\ (at[c] = "accepted" => selected[c] = 0)
    /\ \A c \in Conns : at[c] \notin {"accepted", "closed"} => c \in connections

(* The data and the log of a database nobody writes to: a value logged      *)
(* without a deadline is there and has none.                                *)
Agrees(d) ==
    /\ Live(data[d]) => log[d].val = data[d].val
    /\ log[d].val # "none" /\ ~log[d].timed => data[d].val = log[d].val /\ data[d].deadline = Never

(* In the middle of a method: once SET is logged, the new Value agrees.     *)
WillAgree(c) ==
    LET d == dbIndex[c]
    IN  /\ request[c].op = "DEL" => data[d] = None /\ (unsent[c] = <<>> => log[d] = Unlogged)
        /\ request[c].op = "SET" /\ (unsent[c] = <<>> \/ unsent[c] = <<"EXPIRE">>) =>
              log[d].val = found[c].val /\ found[c].val # "none"
        /\ request[c].op = "SET" /\ unsent[c] = <<>> /\ ~log[d].timed => found[c].deadline = Never

LogInStep ==
    /\ \A d \in Db \ lost : (storeMu \in Conns => dbIndex[storeMu] # d) => Agrees(d)
    /\ storeMu \in Conns => WillAgree(storeMu)

-----------------------------------------------------------------------------
(* Commands.                                                                *)

(* What the kind of a command says of its fields.                           *)
LEMMA CommandFields ==
    ASSUME NEW r \in Commands
    PROVE  /\ r.op \in {"SELECT", "SET", "GET", "DEL", "CONN"}
           /\ r.op = "SET" => r.arg \in Values /\ r.ttl \in Nat
BY SessionAssumption

(* Between commands there is no request.                                    *)
LEMMA NoRequestFields == NoRequest.op = "none"
BY DEF NoRequest

(* Where the constants and the special values belong.                       *)
LEMMA Constants == /\ Never \in Nat /\ None \in Value /\ 0 \in Db
                   /\ Unlogged \in [val : Values \cup {"none"}, timed : BOOLEAN]
BY SessionAssumption DEF Never, None, Value, Db, Unlogged

(* A record is sent: what is left to send.                                  *)
LEMMA Shorter ==
    /\ <<"SET", "EXPIRE">> # <<>> /\ Head(<<"SET", "EXPIRE">>) = "SET" /\ Tail(<<"SET", "EXPIRE">>) = <<"EXPIRE">>
    /\ <<"SET">> # <<>> /\ Head(<<"SET">>) = "SET" /\ Tail(<<"SET">>) = <<>>
    /\ <<"EXPIRE">> # <<>> /\ Head(<<"EXPIRE">>) = "EXPIRE" /\ Tail(<<"EXPIRE">>) = <<>>
    /\ <<"DEL">> # <<>> /\ Head(<<"DEL">>) = "DEL" /\ Tail(<<"DEL">>) = <<>>
    /\ <<"SET", "EXPIRE">> # <<"EXPIRE">> /\ <<"SET">> # <<"EXPIRE">> /\ <<"DEL">> # <<"EXPIRE">>
OBVIOUS

(* TypeOK is the conjunction of its parts.                                  *)
LEMMA TypeParts == TypeOK <=> HandlerTypes /\ ServerTypes /\ LockTypes /\ StoreTypes
BY DEF TypeOK, HandlerTypes, ServerTypes, LockTypes, StoreTypes, Places

(* The same after a step.                                                   *)
LEMMA TypePartsAfter == TypeOK' <=> HandlerTypes' /\ ServerTypes' /\ LockTypes' /\ StoreTypes'
BY DEF TypeOK, HandlerTypes, ServerTypes, LockTypes, StoreTypes, Places

(* At the start.                                                            *)
LEMMA BaseInit == Init => Base
<1> SUFFICES ASSUME Init PROVE Base
  OBVIOUS
<1>1. HandlerTypes
  BY Constants, SessionAssumption DEF Init, HandlerTypes, Places
<1>2. ServerTypes
  BY Constants DEF Init, ServerTypes, newConn
<1>3. LockTypes
  <2>1. 0 \in 0 .. MaxNow
    BY SessionAssumption
  <2> QED
    BY <2>1 DEF Init, LockTypes
<1>4. StoreTypes
  <2>1. <<>> \in Seq({"SET", "EXPIRE", "DEL"})
    OBVIOUS
  <2>2. 0 \in 0 .. QueueCap
    BY SessionAssumption
  <2> QED
    BY <2>1, <2>2, Constants DEF Init, StoreTypes
<1>5. Progress
  BY DEF Init, Progress, InCommand, ToSend, NoRequest, Ready
<1> QED
  BY <1>1, <1>2, <1>3, <1>4, <1>5, TypeParts DEF Base

(* A connection is accepted.                                                *)
LEMMA RegisterBase ==
    ASSUME Base, NEW c \in Conns, Register(c)
    PROVE  Base'
<1>1. HandlerTypes /\ ServerTypes /\ LockTypes /\ StoreTypes /\ Progress
  BY TypeParts DEF Base
<1>2. HandlerTypes'
  BY <1>1 DEF Register, Step, HandlerTypes, Places, Ready
<1>3. ServerTypes'
  BY <1>1, Constants DEF Register, newConn, ServerTypes
<1>4. LockTypes'
  BY <1>1 DEF Register, LockTypes, Step
<1>5. StoreTypes'
  BY <1>1 DEF Register, StoreTypes, store
<1>6. Progress'
  BY <1>1 DEF Register, Step, HandlerTypes, Progress, InCommand, ToSend, Ready, store
<1> QED
  BY <1>2, <1>3, <1>4, <1>5, <1>6, TypePartsAfter DEF Base

(* A connection is removed.                                                 *)
LEMMA UnregisterBase ==
    ASSUME Base, NEW c \in Conns, Unregister(c)
    PROVE  Base'
<1>1. HandlerTypes /\ ServerTypes /\ LockTypes /\ StoreTypes /\ Progress
  BY TypeParts DEF Base
<1>2. HandlerTypes'
  BY <1>1 DEF Unregister, Step, HandlerTypes, Places, Ready
<1>3. ServerTypes'
  BY <1>1 DEF Unregister, ServerTypes
<1>4. LockTypes'
  BY <1>1 DEF Unregister, LockTypes, Step
<1>5. StoreTypes'
  BY <1>1 DEF Unregister, StoreTypes, store
<1>6. Progress'
  BY <1>1 DEF Unregister, Step, HandlerTypes, Progress, InCommand, ToSend, Ready, store
<1> QED
  BY <1>2, <1>3, <1>4, <1>5, <1>6, TypePartsAfter DEF Base

(* The database is read: conn is typed.                                     *)
LEMMA GetCurrentDbBase ==
    ASSUME Base, NEW c \in Conns, GetCurrentDb(c)
    PROVE  Base'
<1>1. HandlerTypes /\ ServerTypes /\ LockTypes /\ StoreTypes /\ Progress
  BY TypeParts DEF Base
<1>2. HandlerTypes'
  BY <1>1, Constants DEF GetCurrentDb, Step, HandlerTypes, Places, Ready, ServerTypes
<1>3. ServerTypes'
  BY <1>1 DEF GetCurrentDb, ServerTypes, server
<1>4. LockTypes'
  BY <1>1 DEF GetCurrentDb, LockTypes, Step
<1>5. StoreTypes'
  BY <1>1 DEF GetCurrentDb, StoreTypes, store
<1>6. Progress'
  BY <1>1 DEF GetCurrentDb, Step, HandlerTypes, Progress, InCommand, ToSend, Ready, store
<1> QED
  BY <1>2, <1>3, <1>4, <1>5, <1>6, TypePartsAfter DEF Base

(* The handler goes to the code of its command.                             *)
LEMMA InvokeCommandBase ==
    ASSUME Base, NEW c \in Conns, InvokeCommand(c)
    PROVE  Base'
<1>1. HandlerTypes /\ ServerTypes /\ LockTypes /\ StoreTypes /\ Progress
  BY TypeParts DEF Base
<1>2. HandlerTypes'
  BY <1>1, CommandFields DEF InvokeCommand, Step, HandlerTypes, Places, Ready, Progress, InCommand, Ready
<1>3. ServerTypes'
  BY <1>1 DEF InvokeCommand, ServerTypes, server
<1>4. LockTypes'
  BY <1>1 DEF InvokeCommand, LockTypes, Step
<1>5. StoreTypes'
  BY <1>1 DEF InvokeCommand, StoreTypes, store
<1>6. Progress'
  BY <1>1, CommandFields DEF InvokeCommand, Step, HandlerTypes, Progress, InCommand, ToSend, Ready, store
<1> QED
  BY <1>2, <1>3, <1>4, <1>5, <1>6, TypePartsAfter DEF Base

(* SELECT takes Server.mu.                                                  *)
LEMMA SelectLockBase ==
    ASSUME Base, NEW c \in Conns, SelectLock(c)
    PROVE  Base'
<1>1. HandlerTypes /\ ServerTypes /\ LockTypes /\ StoreTypes /\ Progress
  BY TypeParts DEF Base
<1>2. HandlerTypes'
  BY <1>1 DEF SelectLock, Step, HandlerTypes, Places, Ready
<1>3. ServerTypes'
  BY <1>1 DEF SelectLock, ServerTypes, server
<1>4. LockTypes'
  BY <1>1 DEF SelectLock, LockTypes, Step
<1>5. StoreTypes'
  BY <1>1 DEF SelectLock, StoreTypes, store
<1>6. Progress'
  BY <1>1 DEF SelectLock, Step, HandlerTypes, Progress, InCommand, ToSend, Ready, store
<1> QED
  BY <1>2, <1>3, <1>4, <1>5, <1>6, TypePartsAfter DEF Base

(* SELECT stores a database there is.                                       *)
LEMMA SelectDbBase ==
    ASSUME Base, NEW c \in Conns, SelectDb(c)
    PROVE  Base'
<1>1. HandlerTypes /\ ServerTypes /\ LockTypes /\ StoreTypes /\ Progress
  BY TypeParts DEF Base
<1>2. HandlerTypes'
  BY <1>1, Constants DEF SelectDb, Done, Step, HandlerTypes, Places, Ready
<1>3. ServerTypes'
  BY <1>1 DEF SelectDb, ServerTypes
<1>4. LockTypes'
  BY <1>1 DEF SelectDb, LockTypes
<1>5. StoreTypes'
  BY <1>1 DEF SelectDb, StoreTypes, store
<1>6. Progress'
  BY <1>1, NoRequestFields DEF SelectDb, Done, Step, HandlerTypes, Progress, InCommand, ToSend, Ready, store
<1> QED
  BY <1>2, <1>3, <1>4, <1>5, <1>6, TypePartsAfter DEF Base

(* Commands about the connection change nothing.                            *)
LEMMA OnConnBase ==
    ASSUME Base, NEW c \in Conns, OnConn(c)
    PROVE  Base'
<1>1. HandlerTypes /\ ServerTypes /\ LockTypes /\ StoreTypes /\ Progress
  BY TypeParts DEF Base
<1>2. HandlerTypes'
  BY <1>1, Constants DEF OnConn, Done, Step, HandlerTypes, Places, Ready
<1>3. ServerTypes'
  BY <1>1 DEF OnConn, ServerTypes, server
<1>4. LockTypes'
  BY <1>1 DEF OnConn, LockTypes
<1>5. StoreTypes'
  BY <1>1 DEF OnConn, StoreTypes, store
<1>6. Progress'
  BY <1>1, NoRequestFields DEF OnConn, Done, Step, HandlerTypes, Progress, InCommand, ToSend, Ready, store
<1> QED
  BY <1>2, <1>3, <1>4, <1>5, <1>6, TypePartsAfter DEF Base

(* SET begins with all its records.                                         *)
LEMMA SetLockBase ==
    ASSUME Base, NEW c \in Conns, SetLock(c)
    PROVE  Base'
<1>1. HandlerTypes /\ ServerTypes /\ LockTypes /\ StoreTypes /\ Progress
  BY TypeParts DEF Base
<1>2. HandlerTypes'
  BY <1>1 DEF SetLock, Step, HandlerTypes, Places, Ready
<1>3. ServerTypes'
  BY <1>1 DEF SetLock, ServerTypes, server
<1>4. LockTypes'
  BY <1>1 DEF SetLock, LockTypes, Step
<1>5. StoreTypes'
  <2>1. Records(c) \in Seq({"SET", "EXPIRE", "DEL"})
    <3>1. <<"SET", "EXPIRE">> \in Seq({"SET", "EXPIRE", "DEL"}) /\ <<"SET">> \in Seq({"SET", "EXPIRE", "DEL"})
      OBVIOUS
    <3> QED
      BY <3>1 DEF Records
  <2> QED
    BY <1>1, <2>1 DEF SetLock, StoreTypes
<1>6. Progress'
  <2>1. /\ request[c].op = "SET" /\ request[c] \in Commands
        /\ at' = [at EXCEPT ![c] = "send"] /\ unsent' = [unsent EXCEPT ![c] = Records(c)] /\ request' = request
    BY <1>1 DEF SetLock, Step, Progress, InCommand, Ready
  <2>2. at'[c] = "send" /\ unsent'[c] = Records(c)
    BY <1>1, <2>1 DEF HandlerTypes, StoreTypes
  <2>3. InCommand(c)' /\ ToSend(c)'
    BY <2>1, <2>2 DEF InCommand, ToSend, Records, Ready
  <2>4. ASSUME NEW d \in Conns, d # c
        PROVE  InCommand(d)' /\ ToSend(d)'
    <3>1. at'[d] = at[d] /\ unsent'[d] = unsent[d] /\ request'[d] = request[d]
      BY <1>1, <2>1, <2>4 DEF HandlerTypes, StoreTypes
    <3> QED
      BY <1>1, <3>1 DEF Progress, InCommand, ToSend
  <2> QED
    BY <2>3, <2>4 DEF Progress
<1> QED
  BY <1>2, <1>3, <1>4, <1>5, <1>6, TypePartsAfter DEF Base

(* DEL begins with its record.                                              *)
LEMMA DelLockBase ==
    ASSUME Base, NEW c \in Conns, DelLock(c)
    PROVE  Base'
<1>1. HandlerTypes /\ ServerTypes /\ LockTypes /\ StoreTypes /\ Progress
  BY TypeParts DEF Base
<1>2. HandlerTypes'
  BY <1>1 DEF DelLock, Step, HandlerTypes, Places, Ready
<1>3. ServerTypes'
  BY <1>1 DEF DelLock, ServerTypes, server
<1>4. LockTypes'
  BY <1>1 DEF DelLock, LockTypes, Step
<1>5. StoreTypes'
  BY <1>1, Constants DEF DelLock, StoreTypes, HandlerTypes
<1>6. Progress'
  BY <1>1 DEF DelLock, Step, HandlerTypes, Progress, InCommand, ToSend, Ready, StoreTypes
<1> QED
  BY <1>2, <1>3, <1>4, <1>5, <1>6, TypePartsAfter DEF Base

(* A record goes to the channel, where there is a place for it.             *)
LEMMA AppendAOFBase ==
    ASSUME Base, NEW c \in Conns, AppendAOF(c)
    PROVE  Base'
<1>1. HandlerTypes /\ ServerTypes /\ LockTypes /\ StoreTypes /\ Progress
  BY TypeParts DEF Base
<1>2. HandlerTypes'
  <2>1. /\ request[c] \in Commands /\ (Head(unsent[c]) = "SET" => request[c].op = "SET")
        /\ unsent[c] # <<>> /\ at[c] = "send" /\ at' = [at EXCEPT ![c] = "send"]
    BY <1>1, Shorter DEF AppendAOF, Step, Progress, InCommand, ToSend, Ready
  <2>2. now + request[c].ttl \in Nat \/ Head(unsent[c]) # "SET"
    BY <1>1, <2>1, CommandFields, SessionAssumption DEF LockTypes
  <2>3. found' \in [Conns -> Value]
    <3>1. CASE Head(unsent[c]) # "SET"
      BY <1>1, <3>1 DEF AppendAOF, HandlerTypes
    <3>2. CASE Head(unsent[c]) = "SET"
      <4>1. PICK t \in Nat : found' = [found EXCEPT ![c] = [val |-> request[c].arg, deadline |-> t]]
        BY <2>2, <3>2, Constants DEF AppendAOF
      <4>2. [val |-> request[c].arg, deadline |-> t] \in Value
        BY <2>1, <3>2, CommandFields DEF Value
      <4> QED
        BY <1>1, <4>1, <4>2 DEF HandlerTypes
    <3> QED
      BY <3>1, <3>2
  <2> QED
    BY <1>1, <2>1, <2>3 DEF AppendAOF, HandlerTypes, Places
<1>3. ServerTypes'
  BY <1>1 DEF AppendAOF, ServerTypes, server
<1>4. LockTypes'
  BY <1>1 DEF AppendAOF, LockTypes, Step
<1>5. StoreTypes'
  <2>1. /\ request[c] \in Commands /\ dbIndex[c] \in Db
        /\ Head(unsent[c]) \in {"SET", "EXPIRE", "DEL"} /\ Tail(unsent[c]) \in Seq({"SET", "EXPIRE", "DEL"})
        /\ Head(unsent[c]) = "SET" => request[c].op = "SET"
    <3>1. unsent[c] \in Seq({"SET", "EXPIRE", "DEL"}) /\ unsent[c] # <<>>
      BY <1>1 DEF AppendAOF, StoreTypes
    <3>2. Head(unsent[c]) \in {"SET", "EXPIRE", "DEL"} /\ Tail(unsent[c]) \in Seq({"SET", "EXPIRE", "DEL"})
      BY <3>1
    <3> QED
      BY <1>1, <3>1, <3>2, Shorter DEF AppendAOF, Step, HandlerTypes, Progress, InCommand, ToSend, Ready
  <2>2. Executed(Head(unsent[c]), c) \in [val : Values \cup {"none"}, timed : BOOLEAN]
    BY <1>1, <2>1, CommandFields, Constants DEF Executed, StoreTypes
  <2>3. queued' \in 0 .. QueueCap
    BY <1>1, SessionAssumption DEF AppendAOF, StoreTypes
  <2> QED
    BY <1>1, <2>1, <2>2, <2>3 DEF AppendAOF, StoreTypes
<1>6. Progress'
  <2>1. /\ at[c] = "send" /\ at' = [at EXCEPT ![c] = "send"] /\ request' = request
        /\ unsent' = [unsent EXCEPT ![c] = Tail(unsent[c])] /\ unsent[c] # <<>>
    BY DEF AppendAOF, Step
  <2>2. at'[c] = "send" /\ unsent'[c] = Tail(unsent[c])
    BY <1>1, <2>1 DEF HandlerTypes, StoreTypes
  <2>3. InCommand(c)' /\ ToSend(c)'
    BY <1>1, <2>1, <2>2, Shorter DEF Progress, InCommand, ToSend
  <2>4. ASSUME NEW d \in Conns, d # c
        PROVE  InCommand(d)' /\ ToSend(d)'
    <3>1. at'[d] = at[d] /\ unsent'[d] = unsent[d] /\ request'[d] = request[d]
      BY <1>1, <2>1, <2>4 DEF HandlerTypes, StoreTypes
    <3> QED
      BY <1>1, <3>1 DEF Progress, InCommand, ToSend
  <2> QED
    BY <2>3, <2>4 DEF Progress
<1> QED
  BY <1>2, <1>3, <1>4, <1>5, <1>6, TypePartsAfter DEF Base

(* The new Value is stored.                                                 *)
LEMMA UnlockBase ==
    ASSUME Base, NEW c \in Conns, Unlock(c)
    PROVE  Base'
<1>1. HandlerTypes /\ ServerTypes /\ LockTypes /\ StoreTypes /\ Progress
  BY TypeParts DEF Base
<1>2. HandlerTypes'
  BY <1>1, Constants DEF Unlock, Done, Step, HandlerTypes, Places, Ready
<1>3. ServerTypes'
  BY <1>1 DEF Unlock, ServerTypes, server
<1>4. LockTypes'
  BY <1>1 DEF Unlock, LockTypes
<1>5. StoreTypes'
  BY <1>1, Constants DEF Unlock, StoreTypes, HandlerTypes
<1>6. Progress'
  BY <1>1, NoRequestFields DEF Unlock, Done, Step, HandlerTypes, Progress, InCommand, ToSend, Ready
<1> QED
  BY <1>2, <1>3, <1>4, <1>5, <1>6, TypePartsAfter DEF Base

(* GET finds a value, or is done.                                           *)
LEMMA GetBase ==
    ASSUME Base, NEW c \in Conns, Get(c)
    PROVE  Base'
<1>1. HandlerTypes /\ ServerTypes /\ LockTypes /\ StoreTypes /\ Progress
  BY TypeParts DEF Base
<1>2. HandlerTypes'
  <2>1. CASE Live(data[dbIndex[c]])
    BY <1>1, <2>1 DEF Get, Step, HandlerTypes, Places, StoreTypes
  <2>2. CASE ~(Live(data[dbIndex[c]]))
    BY <1>1, <2>2, Constants DEF Get, Done, Step, HandlerTypes, Places, Ready
  <2> QED
    BY <2>1, <2>2
<1>3. ServerTypes'
  BY <1>1 DEF Get, ServerTypes, server
<1>4. LockTypes'
  BY <1>1 DEF Get, LockTypes
<1>5. StoreTypes'
  BY <1>1 DEF Get, StoreTypes, store
<1>6. Progress'
  <2>1. CASE Live(data[dbIndex[c]])
    BY <1>1, <2>1 DEF Get, Step, HandlerTypes, Progress, InCommand, ToSend, Ready, store
  <2>2. CASE ~(Live(data[dbIndex[c]]))
    BY <1>1, <2>2, NoRequestFields DEF Get, Done, Step, HandlerTypes, Progress, InCommand, ToSend, Ready, store
  <2> QED
    BY <2>1, <2>2
<1> QED
  BY <1>2, <1>3, <1>4, <1>5, <1>6, TypePartsAfter DEF Base

(* GET goes on to delete, or is done.                                       *)
LEMMA GetCheckBase ==
    ASSUME Base, NEW c \in Conns, GetCheck(c)
    PROVE  Base'
<1>1. HandlerTypes /\ ServerTypes /\ LockTypes /\ StoreTypes /\ Progress
  BY TypeParts DEF Base
<1>2. HandlerTypes'
  <2>1. CASE IsExpired(found[c])
    BY <1>1, <2>1 DEF GetCheck, Step, HandlerTypes, Places
  <2>2. CASE ~(IsExpired(found[c]))
    BY <1>1, <2>2, Constants DEF GetCheck, Done, Step, HandlerTypes, Places, Ready
  <2> QED
    BY <2>1, <2>2
<1>3. ServerTypes'
  BY <1>1 DEF GetCheck, ServerTypes, server
<1>4. LockTypes'
  BY <1>1 DEF GetCheck, LockTypes
<1>5. StoreTypes'
  BY <1>1 DEF GetCheck, StoreTypes, store
<1>6. Progress'
  <2>1. CASE IsExpired(found[c])
    BY <1>1, <2>1 DEF GetCheck, Step, HandlerTypes, Progress, InCommand, ToSend, Ready, store
  <2>2. CASE ~(IsExpired(found[c]))
    BY <1>1, <2>2, NoRequestFields DEF GetCheck, Done, Step, HandlerTypes, Progress, InCommand, ToSend, Ready, store
  <2> QED
    BY <2>1, <2>2
<1> QED
  BY <1>2, <1>3, <1>4, <1>5, <1>6, TypePartsAfter DEF Base

(* The key is deleted.                                                      *)
LEMMA LazyDeleteBase ==
    ASSUME Base, NEW c \in Conns, LazyDelete(c)
    PROVE  Base'
<1>1. HandlerTypes /\ ServerTypes /\ LockTypes /\ StoreTypes /\ Progress
  BY TypeParts DEF Base
<1>2. HandlerTypes'
  BY <1>1, Constants DEF LazyDelete, Done, Step, HandlerTypes, Places, Ready
<1>3. ServerTypes'
  BY <1>1 DEF LazyDelete, ServerTypes, server
<1>4. LockTypes'
  BY <1>1 DEF LazyDelete, LockTypes
<1>5. StoreTypes'
  BY <1>1, Constants DEF LazyDelete, StoreTypes, HandlerTypes
<1>6. Progress'
  BY <1>1, NoRequestFields DEF LazyDelete, Done, Step, HandlerTypes, Progress, InCommand, ToSend, Ready
<1> QED
  BY <1>2, <1>3, <1>4, <1>5, <1>6, TypePartsAfter DEF Base

(* A command arrives.                                                       *)
LEMMA ParseBase ==
    ASSUME Base, NEW c \in Conns, Parse(c)
    PROVE  Base'
<1>1. HandlerTypes /\ ServerTypes /\ LockTypes /\ StoreTypes /\ Progress
  BY TypeParts DEF Base
<1>2. HandlerTypes'
  BY <1>1, SessionAssumption DEF Parse, Step, HandlerTypes, Places, Ready
<1>3. ServerTypes'
  BY <1>1 DEF Parse, ServerTypes, server
<1>4. LockTypes'
  BY <1>1 DEF Parse, LockTypes, Step
<1>5. StoreTypes'
  BY <1>1 DEF Parse, StoreTypes, store
<1>6. Progress'
  BY <1>1 DEF Parse, Step, HandlerTypes, Progress, InCommand, ToSend, Ready, store
<1> QED
  BY <1>2, <1>3, <1>4, <1>5, <1>6, TypePartsAfter DEF Base

(* A client leaves.                                                         *)
LEMMA HangupBase ==
    ASSUME Base, NEW c \in Conns, Hangup(c)
    PROVE  Base'
<1>1. HandlerTypes /\ ServerTypes /\ LockTypes /\ StoreTypes /\ Progress
  BY TypeParts DEF Base
<1>2. HandlerTypes'
  BY <1>1 DEF Hangup, Step, HandlerTypes, Places, Ready
<1>3. ServerTypes'
  BY <1>1 DEF Hangup, ServerTypes, server
<1>4. LockTypes'
  BY <1>1 DEF Hangup, LockTypes, Step
<1>5. StoreTypes'
  BY <1>1 DEF Hangup, StoreTypes, store
<1>6. Progress'
  BY <1>1 DEF Hangup, Step, HandlerTypes, Progress, InCommand, ToSend, Ready, store
<1> QED
  BY <1>2, <1>3, <1>4, <1>5, <1>6, TypePartsAfter DEF Base

(* A place in the channel becomes free.                                     *)
LEMMA AOFWriterBase ==
    ASSUME Base, AOFWriter
    PROVE  Base'
<1>1. HandlerTypes /\ ServerTypes /\ LockTypes /\ StoreTypes /\ Progress
  BY TypeParts DEF Base
<1>2. HandlerTypes'
  BY <1>1 DEF AOFWriter, HandlerTypes, Places, handlers
<1>3. ServerTypes'
  BY <1>1 DEF AOFWriter, ServerTypes, server
<1>4. LockTypes'
  BY <1>1 DEF AOFWriter, LockTypes
<1>5. StoreTypes'
  BY <1>1, SessionAssumption DEF AOFWriter, StoreTypes
<1>6. Progress'
  BY <1>1 DEF AOFWriter, HandlerTypes, Progress, InCommand, ToSend, handlers
<1> QED
  BY <1>2, <1>3, <1>4, <1>5, <1>6, TypePartsAfter DEF Base

(* A signal arrives.                                                        *)
LEMMA SignalBase ==
    ASSUME Base, Signal
    PROVE  Base'
<1>1. HandlerTypes /\ ServerTypes /\ LockTypes /\ StoreTypes /\ Progress
  BY TypeParts DEF Base
<1>2. HandlerTypes'
  BY <1>1 DEF Signal, HandlerTypes, Places, handlers
<1>3. ServerTypes'
  BY <1>1 DEF Signal, ServerTypes
<1>4. LockTypes'
  BY <1>1 DEF Signal, LockTypes
<1>5. StoreTypes'
  BY <1>1 DEF Signal, StoreTypes, store
<1>6. Progress'
  BY <1>1 DEF Signal, HandlerTypes, Progress, InCommand, ToSend, handlers, store
<1> QED
  BY <1>2, <1>3, <1>4, <1>5, <1>6, TypePartsAfter DEF Base

(* The listener is closed.                                                  *)
LEMMA StopAcceptLoopBase ==
    ASSUME Base, StopAcceptLoop
    PROVE  Base'
<1>1. HandlerTypes /\ ServerTypes /\ LockTypes /\ StoreTypes /\ Progress
  BY TypeParts DEF Base
<1>2. HandlerTypes'
  BY <1>1 DEF StopAcceptLoop, HandlerTypes, Places, handlers
<1>3. ServerTypes'
  BY <1>1 DEF StopAcceptLoop, ServerTypes
<1>4. LockTypes'
  BY <1>1 DEF StopAcceptLoop, LockTypes
<1>5. StoreTypes'
  BY <1>1 DEF StopAcceptLoop, StoreTypes, store
<1>6. Progress'
  BY <1>1 DEF StopAcceptLoop, HandlerTypes, Progress, InCommand, ToSend, handlers, store
<1> QED
  BY <1>2, <1>3, <1>4, <1>5, <1>6, TypePartsAfter DEF Base

(* The clock moves.                                                         *)
LEMMA TickBase ==
    ASSUME Base, Tick
    PROVE  Base'
<1>1. HandlerTypes /\ ServerTypes /\ LockTypes /\ StoreTypes /\ Progress
  BY TypeParts DEF Base
<1>2. HandlerTypes'
  BY <1>1 DEF Tick, HandlerTypes, Places, handlers
<1>3. ServerTypes'
  BY <1>1 DEF Tick, ServerTypes, server
<1>4. LockTypes'
  BY <1>1, SessionAssumption DEF Tick, LockTypes
<1>5. StoreTypes'
  BY <1>1 DEF Tick, StoreTypes, store
<1>6. Progress'
  BY <1>1 DEF Tick, HandlerTypes, Progress, InCommand, ToSend, handlers, store
<1> QED
  BY <1>2, <1>3, <1>4, <1>5, <1>6, TypePartsAfter DEF Base

(* Every step keeps the types and the progress of the handlers.             *)
LEMMA BaseStep == Base /\ [Next]_vars => Base'
<1> SUFFICES ASSUME Base, [Next]_vars PROVE Base'
  OBVIOUS
<1>1. ASSUME NEW c \in Conns, Parse(c) \/ Hangup(c) PROVE Base'
  BY <1>1, ParseBase, HangupBase
<1>2. ASSUME NEW c \in Conns, HandlerStep(c) PROVE Base'
  BY <1>2, RegisterBase, UnregisterBase, GetCurrentDbBase, InvokeCommandBase, SelectLockBase, SelectDbBase,
     OnConnBase, SetLockBase, DelLockBase, AppendAOFBase, UnlockBase, GetBase, GetCheckBase, LazyDeleteBase
     DEF HandlerStep
<1>3. CASE AOFWriter \/ Signal \/ StopAcceptLoop \/ Tick
  BY <1>3, AOFWriterBase, SignalBase, StopAcceptLoopBase, TickBase
<1>4. CASE UNCHANGED vars
  <2>1. HandlerTypes /\ ServerTypes /\ LockTypes /\ StoreTypes /\ Progress
    BY TypeParts DEF Base
  <2>2. HandlerTypes' /\ ServerTypes'
    BY <1>4, <2>1 DEF vars, handlers, server, HandlerTypes, ServerTypes
  <2>3. LockTypes' /\ StoreTypes'
    BY <1>4, <2>1 DEF vars, store, LockTypes, StoreTypes
  <2>4. Progress'
    BY <1>4, <2>1 DEF vars, handlers, store, Progress, InCommand, ToSend
  <2> QED
    BY <2>2, <2>3, <2>4, TypePartsAfter DEF Base
<1> QED
  BY <1>1, <1>2, <1>3, <1>4 DEF Next

(* Session is type correct: no more records wait than the channel holds,    *)
(* commands run on databases there are (SelectDb, appendAOF).               *)
THEOREM Typing == Spec => []TypeOK
<1>1. Base => TypeOK
  BY DEF Base
<1> QED
  BY <1>1, BaseInit, BaseStep, PTL DEF Spec

-----------------------------------------------------------------------------
(* The two mutexes.                                                         *)

(* A step of a handler that neither takes nor releases a mutex.             *)
LEMMA LocksKept ==
    ASSUME Base, LocksInOrder, NEW c \in Conns, NEW from, NEW to, Step(c, from, to),
           from \notin {"count", "send"}, to \notin {"count", "send"}, UNCHANGED <<serverMu, storeMu>>
    PROVE  LocksInOrder'
BY TypeParts DEF Base, HandlerTypes, LocksInOrder, Step

(* The mutexes are held where LocksInOrder says.                            *)
LEMMA LocksStep == Base /\ LocksInOrder /\ [Next]_vars => LocksInOrder'
<1> SUFFICES ASSUME Base, LocksInOrder, [Next]_vars PROVE LocksInOrder'
  OBVIOUS
<1>1. HandlerTypes /\ LockTypes /\ Progress /\ Nobody \notin Conns
  BY TypeParts, SessionAssumption DEF Base
<1>2. ASSUME NEW c \in Conns,
             Register(c) \/ Unregister(c) \/ GetCurrentDb(c) \/ OnConn(c) \/ LazyDelete(c) \/ Parse(c) \/ Hangup(c)
      PROVE  LocksInOrder'
  <2>1. UNCHANGED <<serverMu, storeMu>>
    BY <1>2 DEF Register, Unregister, GetCurrentDb, OnConn, LazyDelete, Parse, Hangup
  <2>2. \/ Step(c, "accepted", Ready) \/ Step(c, "leaving", "closed") \/ Step(c, "begin", "invoke")
        \/ Step(c, "CONN", Ready) \/ Step(c, "delete", Ready) \/ Step(c, Ready, "begin") \/ Step(c, Ready, "leaving")
    BY <1>2 DEF Register, Unregister, GetCurrentDb, OnConn, LazyDelete, Parse, Hangup, Done
  <2> QED
    BY <2>1, <2>2, LocksKept DEF Ready
<1>3. ASSUME NEW c \in Conns, Get(c) \/ GetCheck(c)
      PROVE  LocksInOrder'
  <2>1. UNCHANGED <<serverMu, storeMu>>
    BY <1>3 DEF Get, GetCheck
  <2>2. \/ Step(c, "GET", "check") \/ Step(c, "GET", Ready)
        \/ Step(c, "check", "delete") \/ Step(c, "check", Ready)
    BY <1>3 DEF Get, GetCheck, Done
  <2> QED
    BY <2>1, <2>2, LocksKept DEF Ready
<1>4. ASSUME NEW c \in Conns, InvokeCommand(c)
      PROVE  LocksInOrder'
  <2>1. request[c] \in Commands
    BY <1>1, <1>4 DEF InvokeCommand, Step, Progress, InCommand, Ready
  <2>2. request[c].op \notin {"count", "send"}
    BY <2>1, CommandFields
  <2> QED
    BY <1>4, <2>2, LocksKept DEF InvokeCommand
<1>5. ASSUME NEW c \in Conns, SelectLock(c) \/ SelectDb(c)
      PROVE  LocksInOrder'
  BY <1>1, <1>5 DEF SelectLock, SelectDb, Done, Step, HandlerTypes, LocksInOrder, ServerFree, Ready
<1>6. ASSUME NEW c \in Conns, SetLock(c) \/ DelLock(c)
      PROVE  LocksInOrder'
  BY <1>1, <1>6 DEF SetLock, DelLock, Step, HandlerTypes, LocksInOrder, StoreFree
<1>7. ASSUME NEW c \in Conns, AppendAOF(c) \/ Unlock(c)
      PROVE  LocksInOrder'
  BY <1>1, <1>7 DEF AppendAOF, Unlock, Done, Step, HandlerTypes, LocksInOrder, Ready
<1>8. CASE AOFWriter \/ Signal \/ StopAcceptLoop \/ Tick \/ UNCHANGED vars
  BY <1>8 DEF AOFWriter, Signal, StopAcceptLoop, Tick, vars, handlers, LocksInOrder
<1> QED
  BY <1>2, <1>3, <1>4, <1>5, <1>6, <1>7, <1>8 DEF Next, HandlerStep

(* Whoever holds Store.mu is sending its records and never waits for        *)
(* Server.mu, so that SELECT, which waits for Store.mu with Server.mu in    *)
(* its hand, is not part of a cycle (SelectDb, appendAOF).                  *)
THEOREM LockOrder == Spec => []LocksInOrder
<1>1. Init => LocksInOrder
  BY SessionAssumption DEF Init, LocksInOrder
<1> QED
  BY <1>1, LocksStep, BaseInit, BaseStep, PTL DEF Spec

-----------------------------------------------------------------------------
(* Selected databases.                                                      *)

Selection == OwnSelection /\ RunsOnSelected

(* Steps that leave the connections, what they selected and the database of *)
(* every command alone.                                                     *)
LEMMA SelectionKept ==
    ASSUME Base, Selection, NEW c \in Conns, NEW from, NEW to, Step(c, from, to),
           UNCHANGED <<conn, connections, selected>>,
           to # "accepted", from \in {"accepted", "closed"} => to = "closed",
           \/ to \in {Ready, "begin", "leaving", "closed"} /\ \A d \in Conns : d # c => dbIndex'[d] = dbIndex[d]
           \/ from \notin {"accepted", Ready, "begin", "leaving", "closed"} /\ UNCHANGED dbIndex
    PROVE  Selection'
<1>1. at[c] = from /\ at'[c] = to /\ (\A d \in Conns : d # c => at'[d] = at[d])
  BY TypeParts DEF Base, HandlerTypes, Step
<1>2. OwnSelection'
  BY <1>1 DEF Selection, OwnSelection
<1>3. RunsOnSelected'
  BY <1>1 DEF Selection, RunsOnSelected, Ready
<1> QED
  BY <1>2, <1>3 DEF Selection

(* Selections and databases of commands stay together.                      *)
LEMMA SelectionStep == Base /\ Selection /\ [Next]_vars => Selection'
<1> SUFFICES ASSUME Base, Selection, [Next]_vars PROVE Selection'
  OBVIOUS
<1>1. HandlerTypes /\ ServerTypes /\ Progress
  BY TypeParts DEF Base
<1>2. ASSUME NEW c \in Conns, Register(c)
      PROVE  Selection'
  BY <1>1, <1>2 DEF Register, Step, HandlerTypes, ServerTypes, Selection, OwnSelection, RunsOnSelected, newConn, Ready
<1>3. ASSUME NEW c \in Conns, Unregister(c)
      PROVE  Selection'
  BY <1>1, <1>3 DEF Unregister, Step, HandlerTypes, Selection, OwnSelection, RunsOnSelected, Ready
<1>4. ASSUME NEW c \in Conns, GetCurrentDb(c)
      PROVE  Selection'
  BY <1>1, <1>4 DEF GetCurrentDb, Step, server, HandlerTypes, Selection, OwnSelection, RunsOnSelected, Ready
<1>5. ASSUME NEW c \in Conns, SelectDb(c)
      PROVE  Selection'
  BY <1>1, <1>5 DEF SelectDb, Done, Step, HandlerTypes, ServerTypes, Selection, OwnSelection, RunsOnSelected, Ready
<1>6. ASSUME NEW c \in Conns, OnConn(c) \/ Unlock(c) \/ LazyDelete(c)
      PROVE  Selection'
  <2>1. UNCHANGED <<conn, connections, selected>> /\ (\A d \in Conns : d # c => dbIndex'[d] = dbIndex[d])
    BY <1>1, <1>6 DEF OnConn, Unlock, LazyDelete, Done, server, HandlerTypes
  <2>2. Step(c, "CONN", Ready) \/ Step(c, "send", Ready) \/ Step(c, "delete", Ready)
    BY <1>6 DEF OnConn, Unlock, LazyDelete, Done
  <2> QED
    BY <2>1, <2>2, SelectionKept DEF Ready
<1>7. ASSUME NEW c \in Conns, Parse(c) \/ Hangup(c) \/ SelectLock(c) \/ SetLock(c) \/ DelLock(c) \/ AppendAOF(c)
      PROVE  Selection'
  <2>1. UNCHANGED <<conn, connections, selected, dbIndex>>
    BY <1>7 DEF Parse, Hangup, SelectLock, SetLock, DelLock, AppendAOF, server
  <2>2. \/ Step(c, Ready, "begin") \/ Step(c, Ready, "leaving") \/ Step(c, "SELECT", "count")
        \/ Step(c, "SET", "send") \/ Step(c, "DEL", "send") \/ Step(c, "send", "send")
    BY <1>7 DEF Parse, Hangup, SelectLock, SetLock, DelLock, AppendAOF
  <2> QED
    BY <2>1, <2>2, SelectionKept DEF Ready
<1>8. ASSUME NEW c \in Conns, InvokeCommand(c)
      PROVE  Selection'
  <2>1. UNCHANGED <<conn, connections, selected, dbIndex>> /\ Step(c, "invoke", request[c].op)
    BY <1>8 DEF InvokeCommand, server
  <2>2. request[c].op # "accepted"
    BY <1>1, <2>1, CommandFields DEF Step, Progress, InCommand, Ready
  <2> QED
    BY <2>1, <2>2, SelectionKept DEF Ready
<1>9. ASSUME NEW c \in Conns, Get(c) \/ GetCheck(c)
      PROVE  Selection'
  <2>1. UNCHANGED <<conn, connections, selected>> /\ (\A d \in Conns : d # c => dbIndex'[d] = dbIndex[d])
    BY <1>1, <1>9 DEF Get, GetCheck, Done, server, HandlerTypes
  <2>2. \/ Step(c, "GET", "check") /\ UNCHANGED dbIndex
        \/ Step(c, "check", "delete") /\ UNCHANGED dbIndex
        \/ Step(c, "GET", Ready) \/ Step(c, "check", Ready)
    BY <1>9 DEF Get, GetCheck, Done
  <2> QED
    BY <2>1, <2>2, SelectionKept DEF Ready
<1>10. CASE AOFWriter \/ Signal \/ StopAcceptLoop \/ Tick \/ UNCHANGED vars
  BY <1>10 DEF AOFWriter, Signal, StopAcceptLoop, Tick, vars, handlers, server, Selection, OwnSelection, RunsOnSelected
<1> QED
  BY <1>2, <1>3, <1>4, <1>5, <1>6, <1>7, <1>8, <1>9, <1>10 DEF Next, HandlerStep

(* A command runs on the database its client selected last, whatever other  *)
(* connections select between getCurrentDb and its critical section.        *)
THEOREM SelectionIsolated == Spec => []RunsOnSelected
<1>1. Init => Selection
  BY DEF Init, Selection, OwnSelection, RunsOnSelected, newConn
<1>2. Selection => RunsOnSelected
  BY DEF Selection
<1> QED
  BY <1>1, <1>2, SelectionStep, BaseInit, BaseStep, PTL DEF Spec

-----------------------------------------------------------------------------
(* The log and the data.                                                    *)

(* Steps that touch neither the data nor the log, nor the command of the    *)
(* writer there may be.                                                     *)
LEMMA LogKept ==
    ASSUME LogInStep, UNCHANGED <<data, log, lost, storeMu, now>>,
           storeMu \in Conns => /\ dbIndex'[storeMu] = dbIndex[storeMu]
                                /\ request'[storeMu] = request[storeMu]
                                /\ found'[storeMu] = found[storeMu]
                                /\ unsent'[storeMu] = unsent[storeMu]
    PROVE  LogInStep'
BY DEF LogInStep, Agrees, WillAgree, Live, IsExpired

(* A handler that is not a writer is not the one that holds Store.mu.       *)
LEMMA NotTheWriter ==
    ASSUME Base, LocksInOrder, LogInStep, NEW c \in Conns, at[c] # "send",
           UNCHANGED <<data, log, lost, storeMu, now, unsent>>,
           \A d \in Conns : d # c => dbIndex'[d] = dbIndex[d] /\ request'[d] = request[d] /\ found'[d] = found[d]
    PROVE  LogInStep'
BY LogKept DEF LocksInOrder

(* A deadline that was never set does not pass.                             *)
LEMMA NeverExpires == LockTypes => ~(now > Never)
BY SessionAssumption DEF LockTypes, Never

(* A key is deleted without the lock: it was logged with a deadline, or     *)
(* deleted before, or it is counted as lost.                                *)
LEMMA LazyDeleteLog ==
    ASSUME Base, LocksInOrder, LogInStep, NEW c \in Conns, LazyDelete(c)
    PROVE  LogInStep'
<1>1. HandlerTypes /\ LockTypes /\ StoreTypes
  BY TypeParts DEF Base
<1> DEFINE d == dbIndex[c]
<1>2. /\ d \in Db /\ storeMu # c
      /\ data' = [data EXCEPT ![d] = None] /\ lost' = IF Live(data[d]) THEN lost \cup {d} ELSE lost
      /\ UNCHANGED <<unsent, log, storeMu, now>>
  BY <1>1 DEF LazyDelete, Done, Step, HandlerTypes, LocksInOrder
<1>3. \A x \in Conns : x # c => dbIndex'[x] = dbIndex[x] /\ request'[x] = request[x] /\ found'[x] = found[x]
  BY <1>1 DEF LazyDelete, Done, HandlerTypes
<1>4. storeMu \in Conns => WillAgree(storeMu)'
  BY <1>1, <1>2, <1>3 DEF LogInStep, WillAgree, StoreTypes
<1>5. ASSUME NEW e \in Db \ lost', storeMu' \in Conns => dbIndex'[storeMu'] # e
      PROVE  Agrees(e)'
  <2>1. Agrees(e)
    BY <1>2, <1>3, <1>5 DEF LogInStep
  <2>2. CASE e # d
    <3>1. data'[e] = data[e] /\ log'[e] = log[e] /\ now' = now
      BY <1>1, <1>2, <2>2 DEF StoreTypes
    <3> QED
      BY <2>1, <3>1 DEF Agrees, Live, IsExpired
  <2>3. CASE e = d
    <3>1. data'[e] = None /\ ~Live(data[e]) /\ log' = log
      BY <1>1, <1>2, <1>5, <2>3 DEF StoreTypes
    <3>2. log[e].val # "none" => log[e].timed
      BY <1>1, <2>1, <3>1, NeverExpires DEF Agrees, Live, IsExpired, None
    <3>3. ~(None # None)
      OBVIOUS
    <3> QED
      BY <3>1, <3>2, <3>3 DEF Agrees, Live
  <2> QED
    BY <2>2, <2>3
<1> QED
  BY <1>2, <1>4, <1>5 DEF LogInStep

(* A record is sent: the writer's database is the only one concerned.       *)
LEMMA AppendAOFLog ==
    ASSUME Base, LocksInOrder, LogInStep, NEW c \in Conns, AppendAOF(c)
    PROVE  LogInStep'
<1>1. HandlerTypes /\ LockTypes /\ StoreTypes /\ Progress
  BY TypeParts DEF Base
<1> DEFINE d == dbIndex[c]
           rec == Head(unsent[c])
<1>2. /\ d \in Db /\ storeMu = c /\ at[c] = "send" /\ unsent[c] # <<>> /\ request[c] \in Commands
      /\ UNCHANGED <<data, lost, storeMu, now, dbIndex, request>>
      /\ unsent'[c] = Tail(unsent[c]) /\ log' = [log EXCEPT ![d] = Executed(rec, c)]
  BY <1>1 DEF AppendAOF, Step, HandlerTypes, LocksInOrder, Progress, InCommand, StoreTypes, Ready
<1>3. log'[d] = Executed(rec, c) /\ (\A e \in Db : e # d => log'[e] = log[e])
  BY <1>1, <1>2 DEF StoreTypes
<1>4. WillAgree(c)
  BY <1>2 DEF LogInStep
<1>5. CASE request[c].op = "DEL"
  <2>1. rec = "DEL" /\ unsent'[c] = <<>>
    BY <1>1, <1>2, <1>5, Shorter DEF Progress, ToSend
  <2>2. WillAgree(c)'
    BY <1>2, <1>3, <1>4, <1>5, <2>1 DEF WillAgree, Executed
  <2> QED
    BY <1>2, <1>3, <2>2 DEF LogInStep, Agrees, Live, IsExpired
<1>6. CASE request[c].op = "SET" /\ rec = "SET"
  <2>1. /\ unsent'[c] = <<"EXPIRE">> => request[c].ttl > 0
        /\ unsent'[c] = <<>> => ~(request[c].ttl > 0)
    BY <1>1, <1>2, <1>6, Shorter DEF Progress, ToSend
  <2>2. found'[c] = [val |-> request[c].arg, deadline |-> IF request[c].ttl > 0 THEN now + request[c].ttl ELSE Never]
    BY <1>1, <1>6 DEF AppendAOF, HandlerTypes
  <2>3. request[c].arg # "none"
    BY <1>2, <1>6, CommandFields, SessionAssumption
  <2>4. log'[d] = [val |-> request[c].arg, timed |-> FALSE]
    BY <1>3, <1>6 DEF Executed
  <2>5. WillAgree(c)'
    BY <1>2, <1>6, <2>1, <2>2, <2>3, <2>4 DEF WillAgree
  <2> QED
    BY <1>2, <1>3, <2>5 DEF LogInStep, Agrees, Live, IsExpired
<1>7. CASE request[c].op = "SET" /\ rec # "SET"
  <2>1. rec = "EXPIRE" /\ unsent[c] = <<"EXPIRE">> /\ unsent'[c] = <<>>
    BY <1>1, <1>2, <1>7, Shorter DEF Progress, ToSend
  <2>2. found' = found
    BY <1>7 DEF AppendAOF
  <2>3. log'[d].timed = TRUE /\ log'[d].val = log[d].val
    BY <1>1, <1>2, <1>3, <2>1 DEF Executed, StoreTypes
  <2>4. WillAgree(c)'
    BY <1>2, <1>4, <1>7, <2>1, <2>2, <2>3 DEF WillAgree
  <2> QED
    BY <1>2, <1>3, <2>4 DEF LogInStep, Agrees, Live, IsExpired
<1>8. request[c].op \in {"SET", "DEL"}
  BY <1>1, <1>2 DEF Progress, InCommand
<1> QED
  BY <1>5, <1>6, <1>7, <1>8

(* A method ends: its database agrees again.                                *)
LEMMA UnlockLog ==
    ASSUME Base, LocksInOrder, LogInStep, NEW c \in Conns, Unlock(c)
    PROVE  LogInStep'
<1>1. HandlerTypes /\ LockTypes /\ StoreTypes /\ Progress /\ Nobody \notin Conns
  BY TypeParts, SessionAssumption DEF Base
<1> DEFINE d == dbIndex[c]
<1>2. /\ d \in Db /\ storeMu = c /\ at[c] = "send" /\ unsent[c] = <<>> /\ storeMu' = Nobody
      /\ data' = IF request[c].op = "SET" THEN [data EXCEPT ![d] = found[c]] ELSE data
      /\ lost' = lost \ {d} /\ UNCHANGED <<log, now>>
  BY <1>1 DEF Unlock, Done, Step, HandlerTypes, LocksInOrder
<1>3. WillAgree(c) /\ request[c].op \in {"SET", "DEL"}
  BY <1>1, <1>2 DEF LogInStep, Progress, InCommand
<1>4. ASSUME NEW e \in Db \ lost'
      PROVE  Agrees(e)'
  <2>1. CASE e # d
    <3>1. Agrees(e)
      BY <1>2, <1>4, <2>1 DEF LogInStep
    <3>2. data'[e] = data[e] /\ log'[e] = log[e] /\ now' = now
      BY <1>1, <1>2, <2>1 DEF StoreTypes
    <3> QED
      BY <3>1, <3>2 DEF Agrees, Live, IsExpired
  <2>2. CASE e = d /\ request[c].op = "SET"
    <3>1. data'[e] = found[c] /\ log'[e] = log[d]
      BY <1>1, <1>2, <2>2 DEF StoreTypes
    <3> QED
      BY <1>2, <1>3, <2>2, <3>1 DEF Agrees, WillAgree
  <2>3. CASE e = d /\ request[c].op = "DEL"
    <3>1. data'[e] = None /\ log'[e] = Unlogged
      BY <1>2, <1>3, <2>3 DEF WillAgree
    <3> QED
      BY <3>1 DEF Agrees, Live, Unlogged
  <2> QED
    BY <1>3, <2>1, <2>2, <2>3
<1> QED
  BY <1>1, <1>2, <1>4 DEF LogInStep

(* A method begins: nothing is asked of its database any more.              *)
LEMMA LockLog ==
    ASSUME Base, LocksInOrder, LogInStep, NEW c \in Conns, SetLock(c) \/ DelLock(c)
    PROVE  LogInStep'
<1>1. HandlerTypes /\ StoreTypes /\ Progress /\ Nobody \notin Conns
  BY TypeParts, SessionAssumption DEF Base
<1> DEFINE d == dbIndex[c]
<1>2. /\ d \in Db /\ storeMu = Nobody /\ storeMu' = c
      /\ UNCHANGED <<log, lost, now, dbIndex, request>>
      /\ \A e \in Db : e # d => data'[e] = data[e]
  BY <1>1 DEF SetLock, DelLock, StoreFree, HandlerTypes, StoreTypes
<1>3. \A e \in Db \ lost : e # d => Agrees(e)'
  BY <1>1, <1>2 DEF LogInStep, Agrees, Live, IsExpired
<1>4. CASE SetLock(c)
  <2>1. unsent'[c] \in {<<"SET">>, <<"SET", "EXPIRE">>} /\ request'[c].op = "SET"
    BY <1>1, <1>4 DEF SetLock, Step, Records, StoreTypes, Progress, InCommand
  <2>2. WillAgree(c)'
    BY <2>1, Shorter DEF WillAgree
  <2> QED
    BY <1>2, <1>3, <2>2 DEF LogInStep
<1>5. CASE DelLock(c)
  <2>1. unsent'[c] = <<"DEL">> /\ request'[c].op = "DEL" /\ data'[d] = None /\ dbIndex' = dbIndex
    BY <1>1, <1>2, <1>5 DEF DelLock, Step, StoreTypes, Progress, InCommand
  <2>2. WillAgree(c)'
    BY <2>1, Shorter DEF WillAgree
  <2> QED
    BY <1>2, <1>3, <2>2 DEF LogInStep
<1> QED
  BY <1>4, <1>5

(* The log stays in step with the data.                                     *)
LEMMA LogStep == Base /\ LocksInOrder /\ LogInStep /\ [Next]_vars => LogInStep'
<1> SUFFICES ASSUME Base, LocksInOrder, LogInStep, [Next]_vars PROVE LogInStep'
  OBVIOUS
<1>1. HandlerTypes /\ LockTypes /\ StoreTypes
  BY TypeParts DEF Base
<1>2. ASSUME NEW c \in Conns,
             \/ Register(c) \/ Unregister(c) \/ GetCurrentDb(c) \/ InvokeCommand(c) \/ SelectLock(c)
             \/ Parse(c) \/ Hangup(c)
      PROVE  LogInStep'
  <2>1. UNCHANGED <<data, log, lost, storeMu, now, unsent>> /\ at[c] # "send"
    BY <1>2 DEF Register, Unregister, GetCurrentDb, InvokeCommand, SelectLock, Parse, Hangup, Step, store, Ready
  <2>2. \A d \in Conns : d # c => dbIndex'[d] = dbIndex[d] /\ request'[d] = request[d] /\ found'[d] = found[d]
    BY <1>1, <1>2 DEF Register, Unregister, GetCurrentDb, InvokeCommand, SelectLock, Parse, Hangup, HandlerTypes
  <2> QED
    BY <2>1, <2>2, NotTheWriter
<1>3. ASSUME NEW c \in Conns, SelectDb(c) \/ OnConn(c) \/ Get(c) \/ GetCheck(c)
      PROVE  LogInStep'
  <2>1. UNCHANGED <<data, log, lost, storeMu, now, unsent>> /\ at[c] # "send"
    BY <1>3 DEF SelectDb, OnConn, Get, GetCheck, Done, Step, store
  <2>2. \A d \in Conns : d # c => dbIndex'[d] = dbIndex[d] /\ request'[d] = request[d] /\ found'[d] = found[d]
    BY <1>1, <1>3 DEF SelectDb, OnConn, Get, GetCheck, Done, HandlerTypes
  <2> QED
    BY <2>1, <2>2, NotTheWriter
<1>4. CASE Tick
  <2>1. \A v \in Value : Live(v)' => Live(v)
    BY <1>1, <1>4, SessionAssumption DEF Tick, LockTypes, Live, IsExpired, Value
  <2>2. UNCHANGED <<data, log, lost, storeMu, unsent, dbIndex, request, found>>
    BY <1>4 DEF Tick, handlers, store
  <2>3. \A d \in Db : Agrees(d) => Agrees(d)'
    BY <1>1, <2>1, <2>2 DEF Agrees, StoreTypes
  <2> QED
    BY <2>2, <2>3 DEF LogInStep, WillAgree
<1>5. CASE AOFWriter \/ Signal \/ StopAcceptLoop \/ UNCHANGED vars
  BY <1>5, LogKept DEF AOFWriter, Signal, StopAcceptLoop, vars, handlers, store
<1> QED
  BY <1>2, <1>3, <1>4, <1>5, LockLog, AppendAOFLog, UnlockLog, LazyDeleteLog DEF Next, HandlerStep

(* While nobody writes, the records sent so far rebuild what clients see,   *)
(* but for the live values that GET's lazy delete took.                     *)
THEOREM LogAgrees == Spec => []LogAgreesUnlessLost
<1>1. Init => LogInStep
  <2>1. ASSUME Init, NEW d \in Db PROVE Agrees(d)
    BY <2>1 DEF Init, Agrees, Live, Unlogged
  <2>2. Init => storeMu \notin Conns
    BY SessionAssumption DEF Init
  <2> QED
    BY <2>1, <2>2 DEF LogInStep
<1>2. LogInStep => LogAgreesUnlessLost
  BY SessionAssumption DEF LogInStep, LogAgreesUnlessLost, Agrees
<1>3. Init => LocksInOrder
  BY SessionAssumption DEF Init, LocksInOrder
<1> QED
  BY <1>1, <1>2, <1>3, LogStep, LocksStep, BaseInit, BaseStep, PTL DEF Spec

=============================================================================
