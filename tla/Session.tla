------------------------------ MODULE Session ------------------------------
(***************************************************************************)
(* Connections, the handler goroutine of each, and the two locks it meets: *)
(* Server.mu (connections, listener) and Store.mu (data), with the bounded *)
(* channel of AOF records that a writer fills while it holds Store.mu.     *)
(*                                                                         *)
(* A command passes through getCurrentDb, the lookup of its connection and *)
(* its own critical sections, and other handlers run between any two.      *)
(* GET reads under the read lock, looks at the deadline again without a    *)
(* lock, and deletes without one (Store.Delete).  SELECT holds Server.mu   *)
(* while it waits for Store.mu.  SET, SET EX and DEL stand for the methods *)
(* that write: one key per database is enough, since nothing here depends  *)
(* on two.  Replies that touch no shared state (PING, ECHO, QUIT, CONFIG,  *)
(* an unknown command, a parse error) leave the handler where it was.      *)
(***************************************************************************)
EXTENDS Integers, Sequences, FiniteSets

CONSTANTS
    Conns,       \* client connections
    NumDbs,      \* databases of NewStore (16)
    Commands,    \* what clients send: a record with op, and arg or ttl
    Values,      \* strings to SET
    QueueCap,    \* capacity of aofChan (100)
    MaxNow,      \* bound on the clock
    MaxCmds      \* bound on the commands

Db       == 0 .. NumDbs - 1
Never    == MaxNow + 1
Nobody   == "nobody"
None     == [val |-> "none", deadline |-> Never]
Unlogged == [val |-> "none", timed |-> FALSE]

ASSUME SessionAssumption ==
    /\ NumDbs \in Nat \ {0}
    /\ Commands \subseteq [op : {"SELECT"}, arg : Int] \cup [op : {"SET"}, arg : Values, ttl : Nat]
                          \cup [op : {"GET", "DEL", "CONN"}]
    /\ QueueCap \in Nat \ {0} /\ MaxNow \in Nat /\ MaxCmds \in Nat
    /\ "none" \notin Values /\ Nobody \notin Conns

VARIABLES
    at,           \* where each handler is
    request,      \* the command it runs
    dbIndex,      \* Context.DBIndex of that command
    found,        \* the *Value that Store.Get returned
    conn,         \* Conn.dbIndex of each connection
    connections,  \* Server.connections
    serverMu,     \* who holds Server.mu across a step
    storeMu,      \* who holds Store.mu across a step
    data,         \* the value in each database
    unsent,       \* records each writer still has to send
    queued,       \* how many records aofChan holds
    log,          \* what executing every record sent so far gives
    listener,     \* "open", "stopping" or "closed"
    fatal,        \* the runtime found a concurrent map access and threw
    now,          \* time.Now
    cmds,         \* commands begun
    selected,     \* history: the database the client last selected
    lost          \* history: databases whose live value a lazy delete took

handlers == <<at, request, dbIndex, found, cmds>>
server   == <<conn, connections, listener>>
store    == <<data, unsent, queued, log, lost>>
vars     == <<handlers, server, store, serverMu, storeMu, fatal, now, selected>>

Ready    == "reading"
newConn  == 0
NoRequest == [op |-> "none"]

Init ==
    /\ at = [c \in Conns |-> "accepted"] /\ request = [c \in Conns |-> NoRequest]
    /\ dbIndex = [c \in Conns |-> 0] /\ found = [c \in Conns |-> None]
    /\ conn = [c \in Conns |-> newConn] /\ connections = {}
    /\ serverMu = Nobody /\ storeMu = Nobody
    /\ data = [d \in Db |-> None] /\ unsent = [c \in Conns |-> <<>>]
    /\ queued = 0 /\ log = [d \in Db |-> Unlogged]
    /\ listener = "open" /\ fatal = FALSE /\ now = 0
    /\ cmds = 0 /\ selected = [c \in Conns |-> 0] /\ lost = {}

IsExpired(v) == now > v.deadline
Live(v)      == v # None /\ ~IsExpired(v)

Step(c, from, to) == ~fatal /\ at[c] = from /\ at' = [at EXCEPT ![c] = to]

(* The command is over: what it kept is forgotten.                          *)
Done(c, from) ==
    /\ Step(c, from, Ready)
    /\ request' = [request EXCEPT ![c] = NoRequest] /\ dbIndex' = [dbIndex EXCEPT ![c] = 0]
    /\ found' = [found EXCEPT ![c] = None]
    /\ UNCHANGED cmds

ServerFree == serverMu = Nobody
StoreFree  == storeMu = Nobody

-----------------------------------------------------------------------------
(* handleConn.                                                              *)

Register(c) ==
    /\ ServerFree /\ Step(c, "accepted", Ready)
    /\ conn' = [conn EXCEPT ![c] = newConn]
    /\ connections' = connections \cup {c}
    /\ UNCHANGED <<request, dbIndex, found, cmds, listener, store, serverMu, storeMu, fatal, now, selected>>

Parse(c) ==
    /\ cmds < MaxCmds /\ Step(c, Ready, "begin")
    /\ cmds' = cmds + 1
    /\ \E r \in Commands : request' = [request EXCEPT ![c] = r]
    /\ UNCHANGED <<dbIndex, found, server, store, serverMu, storeMu, fatal, now, selected>>

(* EOF from the client: handleConn returns, and its deferred function runs. *)
Hangup(c) ==
    /\ Step(c, Ready, "leaving")
    /\ UNCHANGED <<request, dbIndex, found, cmds, server, store, serverMu, storeMu, fatal, now, selected>>

Unregister(c) ==
    /\ ServerFree /\ Step(c, "leaving", "closed")
    /\ connections' = connections \ {c}
    /\ UNCHANGED <<request, dbIndex, found, cmds, conn, listener, store, serverMu, storeMu, fatal, now, selected>>

(* executeCommand                                                           *)
GetCurrentDb(c) ==
    /\ ServerFree /\ Step(c, "begin", "invoke")
    /\ dbIndex' = [dbIndex EXCEPT ![c] = IF c \in connections THEN conn[c] ELSE 0]
    /\ UNCHANGED <<request, found, cmds, server, store, serverMu, storeMu, fatal, now, selected>>

(* invokeCommand: the connection is looked up, then Execute begins.         *)
InvokeCommand(c) ==
    /\ ServerFree /\ Step(c, "invoke", request[c].op)
    /\ UNCHANGED <<request, dbIndex, found, cmds, server, store, serverMu, storeMu, fatal, now, selected>>

-----------------------------------------------------------------------------
(* Commands about the connection.                                           *)

(* SelectDb: Server.mu is taken, then Store.Count waits for Store.mu, but   *)
(* for a negative index it is not called.                                   *)
SelectLock(c) ==
    /\ ServerFree /\ Step(c, "SELECT", "count")
    /\ serverMu' = c
    /\ UNCHANGED <<request, dbIndex, found, cmds, server, store, storeMu, fatal, now, selected>>

SelectEverywhere(c) ==    \* mutant: the selection is stored for the server, not for the connection
    /\ Done(c, "count") /\ (request[c].arg < 0 \/ StoreFree)
    /\ serverMu' = Nobody
    /\ IF request[c].arg \in Db
       THEN /\ conn' = [x \in Conns |-> request[c].arg]
            /\ selected' = [selected EXCEPT ![c] = request[c].arg]
       ELSE UNCHANGED <<conn, selected>>
    /\ UNCHANGED <<connections, listener, store, storeMu, fatal, now>>

SelectOneTooMany(c) ==    \* mutant: an index equal to the number of databases is accepted
    /\ Done(c, "count") /\ (request[c].arg < 0 \/ StoreFree)
    /\ serverMu' = Nobody
    /\ IF request[c].arg \in 0 .. NumDbs
       THEN /\ conn' = [conn EXCEPT ![c] = request[c].arg]
            /\ selected' = [selected EXCEPT ![c] = request[c].arg]
       ELSE UNCHANGED <<conn, selected>>
    /\ UNCHANGED <<connections, listener, store, storeMu, fatal, now>>

SelectKeepsLock(c) ==    \* mutant: the early return on a bad index leaves Server.mu locked
    /\ Done(c, "count") /\ (request[c].arg < 0 \/ StoreFree)
    /\ serverMu' = IF request[c].arg \in Db THEN Nobody ELSE c
    /\ IF request[c].arg \in Db
       THEN /\ conn' = [conn EXCEPT ![c] = request[c].arg]
            /\ selected' = [selected EXCEPT ![c] = request[c].arg]
       ELSE UNCHANGED <<conn, selected>>
    /\ UNCHANGED <<connections, listener, store, storeMu, fatal, now>>

SelectDb(c) ==
    /\ Done(c, "count") /\ (request[c].arg < 0 \/ StoreFree)
    /\ serverMu' = Nobody
    /\ IF request[c].arg \in Db
       THEN /\ conn' = [conn EXCEPT ![c] = request[c].arg]
            /\ selected' = [selected EXCEPT ![c] = request[c].arg]
       ELSE UNCHANGED <<conn, selected>>
    /\ UNCHANGED <<connections, listener, store, storeMu, fatal, now>>

(* AUTH, CLIENT, HELLO and INFO: one critical section of Server.mu, which   *)
(* reads or changes fields of the connection that no other step looks at    *)
(* (no command requires authentication).                                    *)
OnConn(c) ==
    /\ ServerFree /\ Done(c, "CONN")
    /\ UNCHANGED <<server, store, serverMu, storeMu, fatal, now, selected>>

-----------------------------------------------------------------------------
(* Commands about the data.                                                 *)

DeadlineFirst(c) ==       \* mutant: EXPIRE is logged before the SET that clears deadlines
    IF request[c].ttl > 0 THEN <<"EXPIRE", "SET">> ELSE <<"SET">>

(* Store.Set takes Store.mu; with EX it logs two commands.                  *)
Records(c) == IF request[c].ttl > 0 THEN <<"SET", "EXPIRE">> ELSE <<"SET">>

SetLock(c) ==
    /\ StoreFree /\ Step(c, "SET", "send")
    /\ storeMu' = c
    /\ unsent' = [unsent EXCEPT ![c] = Records(c)]
    /\ UNCHANGED <<request, dbIndex, found, cmds, server, data, queued, log, lost, serverMu, fatal, now, selected>>

(* Store.Del deletes first and logs then.                                   *)
DelLock(c) ==
    /\ StoreFree /\ Step(c, "DEL", "send")
    /\ storeMu' = c
    /\ data' = [data EXCEPT ![dbIndex[c]] = None]
    /\ unsent' = [unsent EXCEPT ![c] = <<"DEL">>]
    /\ UNCHANGED <<request, dbIndex, found, cmds, server, queued, log, lost, serverMu, fatal, now, selected>>

Executed(op, c) ==
    CASE op = "SET"    -> [val |-> request[c].arg, timed |-> FALSE]
      [] op = "EXPIRE" -> [log[dbIndex[c]] EXCEPT !.timed = TRUE]
      [] op = "DEL"    -> Unlogged

SendUnderServerMu(c) ==   \* mutant: appendAOF also needs Server.mu
    /\ ServerFree
    /\ unsent[c] # <<>> /\ queued < QueueCap /\ Step(c, "send", "send")
    /\ queued' = queued + 1
    /\ unsent' = [unsent EXCEPT ![c] = Tail(@)]
    /\ log' = [log EXCEPT ![dbIndex[c]] = Executed(Head(unsent[c]), c)]
    /\ found' = IF Head(unsent[c]) = "SET" THEN [found EXCEPT ![c] = [val |-> request[c].arg, deadline |-> Never]] ELSE found
    /\ UNCHANGED <<request, dbIndex, cmds, server, data, lost, serverMu, storeMu, fatal, now, selected>>

(* appendAOF waits for a place in the channel.  The new value of a SET is   *)
(* made, with its deadline, once the SET record is sent.                    *)
AppendAOF(c) ==
    /\ unsent[c] # <<>> /\ queued < QueueCap /\ Step(c, "send", "send")
    /\ queued' = queued + 1
    /\ unsent' = [unsent EXCEPT ![c] = Tail(@)]
    /\ log' = [log EXCEPT ![dbIndex[c]] = Executed(Head(unsent[c]), c)]
    /\ found' = IF Head(unsent[c]) = "SET"
                THEN [found EXCEPT ![c] = [val |-> request[c].arg,
                                           deadline |-> IF request[c].ttl > 0 THEN now + request[c].ttl ELSE Never]]
                ELSE found
    /\ UNCHANGED <<request, dbIndex, cmds, server, data, lost, serverMu, storeMu, fatal, now, selected>>

Unlock(c) ==
    /\ unsent[c] = <<>> /\ Done(c, "send")
    /\ storeMu' = Nobody
    /\ data' = IF request[c].op = "SET" THEN [data EXCEPT ![dbIndex[c]] = found[c]] ELSE data
    /\ lost' = lost \ {dbIndex[c]}
    /\ UNCHANGED <<server, unsent, queued, log, serverMu, fatal, now, selected>>

(* Store.Get hides a value whose deadline has passed.                       *)
Get(c) ==
    /\ StoreFree
    /\ IF Live(data[dbIndex[c]])
       THEN /\ Step(c, "GET", "check") /\ found' = [found EXCEPT ![c] = data[dbIndex[c]]]
            /\ UNCHANGED <<request, dbIndex, cmds>>
       ELSE Done(c, "GET")
    /\ UNCHANGED <<server, store, serverMu, storeMu, fatal, now, selected>>

(* GetCommand looks at the deadline again: the clock has moved on.          *)
GetCheck(c) ==
    /\ IF IsExpired(found[c])
       THEN Step(c, "check", "delete") /\ UNCHANGED <<request, dbIndex, found, cmds>>
       ELSE Done(c, "check")
    /\ UNCHANGED <<server, store, serverMu, storeMu, fatal, now, selected>>

(* Handlers that use the map at this moment.                                *)
InMap == {x \in Conns : storeMu = x \/ at[x] \in {"GET", "delete"}}

(* Store.Delete: no lock, no AOF record.  If another handler uses the map   *)
(* at the same time, the runtime may end the process.                       *)
LazyDelete(c) ==
    /\ Done(c, "delete")
    /\ data' = [data EXCEPT ![dbIndex[c]] = None]
    /\ lost' = IF Live(data[dbIndex[c]]) THEN lost \cup {dbIndex[c]} ELSE lost
    /\ fatal' \in IF InMap = {c} THEN {FALSE} ELSE BOOLEAN
    /\ UNCHANGED <<server, unsent, queued, log, serverMu, storeMu, now, selected>>

-----------------------------------------------------------------------------
(* The other goroutines.                                                    *)

AOFWriter ==
    /\ ~fatal /\ queued > 0 /\ queued' = queued - 1
    /\ UNCHANGED <<handlers, server, data, unsent, log, lost, serverMu, storeMu, fatal, now, selected>>

(* Shutdown waits for Server.mu in stopAcceptLoop.                          *)
Signal ==
    /\ ~fatal /\ listener = "open" /\ listener' = "stopping"
    /\ UNCHANGED <<handlers, conn, connections, store, serverMu, storeMu, fatal, now, selected>>

StopAcceptLoop ==
    /\ ~fatal /\ listener = "stopping" /\ ServerFree /\ listener' = "closed"
    /\ UNCHANGED <<handlers, conn, connections, store, serverMu, storeMu, fatal, now, selected>>

Tick ==
    /\ ~fatal /\ now < MaxNow /\ now' = now + 1
    /\ UNCHANGED <<handlers, server, store, serverMu, storeMu, fatal, selected>>

HandlerStep(c) ==
    \/ Register(c) \/ Unregister(c) \/ GetCurrentDb(c) \/ InvokeCommand(c)
    \/ SelectLock(c) \/ SelectDb(c) \/ OnConn(c)
    \/ SetLock(c) \/ DelLock(c) \/ AppendAOF(c) \/ Unlock(c)
    \/ Get(c) \/ GetCheck(c) \/ LazyDelete(c)

Next ==
    \/ \E c \in Conns : Parse(c) \/ Hangup(c) \/ HandlerStep(c)
    \/ AOFWriter \/ Signal \/ StopAcceptLoop \/ Tick

Spec == Init /\ [][Next]_vars

(* A goroutine with something to do runs, and the mutexes of Go do not      *)
(* starve a waiter.  Nothing is assumed of clients, signals or the clock.   *)
Fairness == (\A c \in Conns : WF_vars(HandlerStep(c))) /\ WF_vars(AOFWriter) /\ WF_vars(StopAcceptLoop)
FairSpec == Spec /\ Fairness

-----------------------------------------------------------------------------
Value == [val : Values \cup {"none"}, deadline : Nat]

(* Types.  No more records wait than the channel holds, and SELECT stores   *)
(* only databases there are (SelectDb).                                     *)
TypeOK ==
    /\ at \in [Conns -> {"accepted", Ready, "begin", "invoke", "SELECT", "count", "CONN",
                         "SET", "DEL", "send", "GET", "check", "delete", "leaving", "closed"}]
    /\ request \in [Conns -> Commands \cup {NoRequest}] /\ dbIndex \in [Conns -> Db] /\ found \in [Conns -> Value]
    /\ conn \in [Conns -> Db]
    /\ connections \subseteq Conns
    /\ serverMu \in Conns \cup {Nobody} /\ storeMu \in Conns \cup {Nobody}
    /\ data \in [Db -> Value] /\ unsent \in [Conns -> Seq({"SET", "EXPIRE", "DEL"})] /\ queued \in 0 .. QueueCap
    /\ log \in [Db -> [val : Values \cup {"none"}, timed : BOOLEAN]]
    /\ listener \in {"open", "stopping", "closed"} /\ fatal \in BOOLEAN /\ now \in 0 .. MaxNow
    /\ cmds \in 0 .. MaxCmds /\ selected \in [Conns -> Db] /\ lost \subseteq Db

(* "Database selection is per connection": a command works on the database  *)
(* its client selected last, whatever the other connections select between  *)
(* the steps of the command (getCurrentDb, SelectDb).                       *)
RunsOnSelected ==
    \A c \in Conns : at[c] \notin {"accepted", Ready, "begin", "leaving", "closed"} => dbIndex[c] = selected[c]

(* While nobody writes, the records sent so far rebuild what clients see:   *)
(* a live value is the one logged last, and a value logged without a        *)
(* deadline is there.  The silent deletion of GET costs the log nothing but *)
(* the values it takes while they are live (GetCommand, Store.Delete).      *)
LogAgreesUnlessLost ==
    storeMu = Nobody => \A d \in Db \ lost :
        /\ Live(data[d]) => log[d].val = data[d].val
        /\ log[d].val # "none" /\ ~log[d].timed => data[d].val = log[d].val

(* Every command ends, and every connection that is accepted or left is     *)
(* registered or removed, though SELECT waits for Store.mu with Server.mu   *)
(* in its hand and a writer waits for the channel with Store.mu in its.     *)
CommandsFinish == \A c \in Conns :
    (at[c] \notin {Ready, "closed"}) ~> (at[c] \in {Ready, "closed"} \/ fatal)

(* Shutdown gets Server.mu, whatever the handlers are blocked on.           *)
StopFinishes == (listener = "stopping") ~> (listener = "closed" \/ fatal)

(* GET's "lazy delete" deletes a value whose deadline has passed            *)
(* (GetCommand.Execute).                                                    *)
LazyDeleteOfExpired ==
    [][\A c \in Conns : at[c] = "delete" /\ at'[c] # "delete" => ~Live(data[dbIndex[c]])]_vars
=============================================================================
