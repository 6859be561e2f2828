---------------------------- MODULE Persistence ----------------------------
(***************************************************************************)
(* The life of a GoodiesDB process around its store: recovery from the     *)
(* snapshot or the append-only file, client operations that block on the   *)
(* AOF channel while they hold Store.mu, the AOFWriter goroutine, the      *)
(* snapshot savers (startRDB's ticker and Shutdown), Shutdown, and crashes *)
(* at any point.  What the process keeps in memory is lost when it goes    *)
(* down; what is in the two files survives.                                *)
(*                                                                         *)
(* History variables: hist is the sequence of store states client calls    *)
(* have led to, the one in flight included (hist[1] is the empty store),   *)
(* and durable the position in hist of the last call whose AOF records are *)
(* all in the file.                                                        *)
(***************************************************************************)
EXTENDS StoreOps

CONSTANTS
    UseRDB, UseAOF,   \* Config
    Calls,            \* store calls clients make: tuples like AOF commands; SET has its options last
    Signals, Crashes, \* whether a termination signal, a crash may happen
    ChanCap,          \* capacity of aofChan (100 in NewServer)
    MaxBoots,         \* bound on process starts
    MaxOps,           \* bound on client operations
    MaxSaves,         \* bound on snapshots the ticker begins
    MaxNow            \* bound on the clock

(* The calls are single-key methods that never drop a key in place.         *)
SetCalls   == {"SET"} \X Db \X Key \X Str \X Options
OtherCalls == {"DEL", "INCR", "DECR"} \X Db \X Key
              \cup {"EXPIRE"} \X Db \X Key \X Nat
              \cup {"LPUSH", "RPUSH"} \X Db \X Key \X (Seq(Str) \ {<<>>})
              \cup {"HSET"} \X Db \X Key \X (HashData \ {NoFields})

ASSUME CallsAssumption  == Calls \subseteq SetCalls \cup OtherCalls
ASSUME ConfigAssumption == UseRDB \in BOOLEAN /\ UseAOF \in BOOLEAN /\ {Signals, Crashes} \subseteq BOOLEAN
ASSUME BoundsAssumption == ChanCap \in Nat \ {0} /\ {MaxBoots, MaxOps, MaxSaves, MaxNow} \subseteq Nat

VARIABLES
    phase,     \* "down", "load", "replay", "recovered" or "up"
    mem,       \* Store.data
    now,       \* time.Now()
    holder,    \* the goroutine in Store.mu's critical section
    chan,      \* aofChan: records not yet received
    closed,    \* close(aofChan) has run
    writer,    \* AOFWriter: "off" or "on"
    pen,       \* the record AOFWriter received and has not flushed
    replayed,  \* records RebuildStoreFromAOF has dispatched
    saver,     \* the two callers of SaveSnapshot
    stop,      \* progress of Shutdown: "no", "stopped", "save", "done"
    aof, rdb,  \* the files appendonly.aof and dump.rdb
    boots, saves,                      \* what the bounds count
    hist, durable                      \* history

volatile == <<mem, holder, chan, closed, writer, pen, replayed, saver, stop>>
files    == <<aof, rdb>>
history  == <<hist, durable>>
vars     == <<phase, volatile, now, files, boots, saves, history>>

Client == "client"
Replay == "replay"
Nobody == "nobody"

Free     == [by |-> Nobody, out |-> <<>>, todo |-> <<>>, key |-> <<>>, inPlace |-> FALSE]
Unlocked == holder.by = Nobody
Savers   == {"ticker", "shutdown"}
NoSave   == [step |-> "idle", img |-> <<>>, shared |-> {}, overlap |-> FALSE]
NoStore  == [db \in Db |-> Empty]
NoFile   == [state |-> "none", img |-> NoStore]
TornFile == [state |-> "torn", img |-> NoStore]

PresentKeys(d) == {p \in Db \X Key : Present(d[p[1]][p[2]])}

(* Everything a process start builds anew (NewServer, NewStore).            *)
Fresh ==
    /\ mem' = NoStore
    /\ holder' = Free
    /\ chan' = <<>>
    /\ closed' = FALSE
    /\ writer' = "off"
    /\ pen' = <<>>
    /\ replayed' = 0
    /\ saver' = [s \in Savers |-> NoSave]
    /\ stop' = "no"

Init ==
    /\ phase = "down"
    /\ mem = NoStore
    /\ holder = Free
    /\ chan = <<>> /\ closed = FALSE
    /\ writer = "off" /\ pen = <<>>
    /\ replayed = 0
    /\ saver = [s \in Savers |-> NoSave]
    /\ stop = "no"
    /\ aof = <<>> /\ rdb = NoFile
    /\ now = 0 /\ boots = 0 /\ saves = 0
    /\ hist = <<NoStore>> /\ durable = 1

-----------------------------------------------------------------------------
(* Start: recovery, then the goroutines and the listener.                   *)

Boot ==
    /\ phase = "down" /\ boots < MaxBoots
    /\ Fresh
    /\ boots' = boots + 1
    /\ phase' = IF UseRDB \/ UseAOF THEN "load" ELSE "recovered"
    /\ UNCHANGED <<now, files, saves, history>>

(* recoverStore tries the snapshot first; the AOF is read only when there   *)
(* is no snapshot that decodes.                                             *)
LoadSnapshot ==
    /\ phase = "load"
    /\ Unlocked
    /\ IF UseRDB /\ rdb.state = "ok"
       THEN mem' = rdb.img /\ phase' = "recovered"
       ELSE /\ phase' = IF UseAOF THEN "replay" ELSE "recovered"
            /\ UNCHANGED mem
    /\ UNCHANGED <<now, holder, chan, closed, writer, pen, replayed, saver, stop, files, boots, saves, history>>

ReplaySameCommand ==      \* mutant: the reader does not advance
    /\ phase = "replay" /\ Unlocked /\ replayed < Len(aof)
    /\ mem' = dispatchAOF(aof[replayed + 1].cmd, mem, now).data
    /\ UNCHANGED <<phase, now, holder, chan, closed, writer, pen, replayed, saver, stop, files, boots, saves, history>>
(* dispatchAOF runs an ordinary store method, which appends to aofChan; the *)
(* writer is not running yet.  Records of replayed commands carry op 0.     *)
ReplayCommand ==
    /\ phase = "replay" /\ Unlocked /\ replayed < Len(aof)
    /\ LET r == dispatchAOF(aof[replayed + 1].cmd, mem, now)
       IN  holder' = [by |-> Replay, out |-> r.data, key |-> <<>>, inPlace |-> FALSE,
                      todo |-> [i \in 1 .. Len(r.log) |-> [cmd |-> r.log[i], op |-> 0]]]
    /\ replayed' = replayed + 1
    /\ UNCHANGED <<phase, mem, now, chan, closed, writer, pen, saver, stop, files, boots, saves, history>>

FinishReplayEarly ==      \* mutant: the last record is not replayed
    /\ phase = "replay" /\ Unlocked /\ replayed + 1 >= Len(aof)
    /\ phase' = "recovered"
    /\ UNCHANGED <<mem, now, holder, chan, closed, writer, pen, replayed, saver, stop, files, boots, saves, history>>
FinishReplay ==
    /\ phase = "replay" /\ Unlocked /\ replayed = Len(aof)
    /\ phase' = "recovered"
    /\ UNCHANGED <<mem, now, holder, chan, closed, writer, pen, replayed, saver, stop, files, boots, saves, history>>

ServeStartsWriterLate ==  \* mutant: no AOFWriter unless the AOF held records
    /\ phase = "recovered"
    /\ phase' = "up"
    /\ writer' = IF UseAOF /\ aof # <<>> THEN "on" ELSE "off"
    /\ UNCHANGED <<mem, now, holder, chan, closed, pen, replayed, saver, stop, files, boots, saves, history>>
(* Start goes on even if Shutdown has already begun: stopAcceptLoop found   *)
(* no listener to close.                                                    *)
Serve ==
    /\ phase = "recovered"
    /\ phase' = "up"
    /\ writer' = IF UseAOF THEN "on" ELSE "off"
    /\ UNCHANGED <<mem, now, holder, chan, closed, pen, replayed, saver, stop, files, boots, saves, history>>

-----------------------------------------------------------------------------
(* A store method, from taking Store.mu to releasing it.                    *)

Exec(call) == IF call[1] = "SET"
              THEN At(mem, call[2], call[3], Set(mem[call[2]][call[3]], now, call[2], call[3], call[4], call[5]))
              ELSE dispatchAOF(call, mem, now)

(* Set and Del replace the pointer in the map, and so do methods that find  *)
(* no value or, for HSet, an expired one; the others change the value the   *)
(* map points to.                                                           *)
InPlaceSet(call) ==       \* mutant: Set writes through the pointer it finds
    call[1] # "DEL" /\ Present(mem[call[2]][call[3]])
InPlace(call) ==
    LET e == mem[call[2]][call[3]]
    IN  /\ Present(e)
        /\ call[1] \notin {"SET", "DEL"}
        /\ ~(call[1] = "HSET" /\ IsExpired(e, now))

Begin(call) ==
    /\ phase = "up" /\ Unlocked /\ Len(hist) <= MaxOps
    /\ LET r == Exec(call)
           n == Len(r.log)
           i == Len(hist) + 1
       IN  /\ holder' = [by |-> Client, out |-> r.data, key |-> <<call[2], call[3]>>, inPlace |-> InPlace(call),
                      todo |-> [j \in 1 .. n |-> [cmd |-> r.log[j], op |-> IF j = n THEN i ELSE 0]]]
           /\ hist' = Append(hist, r.data)
    /\ UNCHANGED <<phase, mem, now, chan, closed, writer, pen, replayed, saver, stop, files, boots, saves,
                   durable>>

SendUnbounded ==          \* mutant: the channel's capacity is not respected
    /\ holder.todo # <<>> /\ ~closed
    /\ chan' = Append(chan, Head(holder.todo))
    /\ holder' = [holder EXCEPT !.todo = Tail(@)]
    /\ UNCHANGED <<phase, mem, now, closed, writer, pen, replayed, saver, stop, files, boots, saves, history>>
(* appendAOF blocks while the channel is full.                              *)
Send ==
    /\ holder.todo # <<>> /\ ~closed /\ Len(chan) < ChanCap
    /\ chan' = Append(chan, Head(holder.todo))
    /\ holder' = [holder EXCEPT !.todo = Tail(@)]
    /\ UNCHANGED <<phase, mem, now, closed, writer, pen, replayed, saver, stop, files, boots, saves, history>>

(* A send on a closed channel panics, and the panic ends the process.       *)
Panic ==
    /\ holder.todo # <<>> /\ closed
    /\ phase' = "down"
    /\ Fresh
    /\ UNCHANGED <<now, files, boots, saves, history>>

(* The method's effect, unlock and reply.  A saver that copied the map      *)
(* still shares the value with the store, so that gob encodes the value     *)
(* from before or after an in-place change.                                 *)
AfterCommit(sv) ==
    LET key == holder.key
    IN  IF key \notin sv.shared THEN {sv}
        ELSE {[sv EXCEPT !.shared = @ \ {key}]} \cup
             IF holder.inPlace THEN {[sv EXCEPT !.img[key[1]][key[2]] = holder.out[key[1]][key[2]]]} ELSE {}

Commit ==
    /\ ~Unlocked /\ holder.todo = <<>>
    /\ mem' = holder.out
    /\ holder' = Free
    /\ \E t \in AfterCommit(saver["ticker"]), d \in AfterCommit(saver["shutdown"]) :
          saver' = [s \in Savers |-> IF s = "ticker" THEN t ELSE d]
    /\ UNCHANGED <<phase, now, chan, closed, writer, pen, replayed, stop, files, boots, saves, history>>

-----------------------------------------------------------------------------
(* AOFWriter: receive one record, encode it and flush it.                   *)

Receive ==
    /\ writer = "on" /\ pen = <<>> /\ chan # <<>>
    /\ pen' = <<Head(chan)>>
    /\ chan' = Tail(chan)
    /\ UNCHANGED <<phase, mem, now, holder, closed, writer, replayed, saver, stop, files, boots, saves, history>>

Flush ==
    /\ pen # <<>>
    /\ aof' = Append(aof, pen[1])
    /\ pen' = <<>>
    /\ durable' = IF pen[1].op > durable THEN pen[1].op ELSE durable
    /\ UNCHANGED <<phase, mem, now, holder, chan, closed, writer, replayed, saver, stop, rdb, boots, saves, hist>>

-----------------------------------------------------------------------------
(* SaveSnapshot: GetSnapshot under the read lock copies the map, os.Create  *)
(* truncates the file, Encode fills it.                                     *)

(* startRDB's timer fires; the loop ends once shutdownChan is closed.       *)
TickerFires ==
    /\ UseRDB /\ phase = "up" /\ stop = "no"
    /\ saver["ticker"].step = "idle" /\ saves < MaxSaves
    /\ saver' = [saver EXCEPT !["ticker"].step = "called"]
    /\ saves' = saves + 1
    /\ UNCHANGED <<phase, mem, now, holder, chan, closed, writer, pen, replayed, stop, files, boots, history>>

SaveCopy(s) ==
    /\ Unlocked
    /\ IF s = "ticker" THEN saver[s].step = "called" ELSE saver[s].step = "idle" /\ stop = "save"
    /\ saver' = [saver EXCEPT ![s] = [step |-> "copied", img |-> mem, shared |-> PresentKeys(mem), overlap |-> FALSE]]
    /\ UNCHANGED <<phase, mem, now, holder, chan, closed, writer, pen, replayed, stop, files, boots, saves, history>>

(* Two savers that have the file open at once write over each other.        *)
SaveCreate(s) ==
    /\ saver[s].step = "copied"
    /\ LET both == \A x \in Savers \ {s} : saver[x].step = "open"
       IN  saver' = [x \in Savers |-> IF x = s THEN [saver[x] EXCEPT !.step = "open", !.overlap = both]
                                      ELSE [saver[x] EXCEPT !.overlap = @ \/ both]]
    /\ rdb' = TornFile
    /\ UNCHANGED <<phase, mem, now, holder, chan, closed, writer, pen, replayed, stop, aof, boots, saves, history>>

SaveEncode(s) ==
    /\ saver[s].step = "open"
    /\ \/ rdb' = [state |-> "ok", img |-> saver[s].img]
       \/ saver[s].overlap /\ rdb' = TornFile
    /\ saver' = [saver EXCEPT ![s] = NoSave]
    /\ stop' = IF s = "shutdown" THEN "done" ELSE stop
    /\ UNCHANGED <<phase, mem, now, holder, chan, closed, writer, pen, replayed, aof, boots, saves, history>>

-----------------------------------------------------------------------------
(* Shutdown, run by main when the signal arrives, whatever Start is doing.  *)

ShutdownStop ==
    /\ Signals /\ phase # "down" /\ stop = "no"
    /\ stop' = "stopped"
    /\ UNCHANGED <<phase, mem, now, holder, chan, closed, writer, pen, replayed, saver, files, boots, saves, history>>

ShutdownClose ==
    /\ stop = "stopped"
    /\ closed' = UseAOF
    /\ stop' = IF UseRDB THEN "save" ELSE "done"
    /\ UNCHANGED <<phase, mem, now, holder, chan, writer, pen, replayed, saver, files, boots, saves, history>>

(* main returns: the process exits without waiting for any goroutine.       *)
Exit ==
    /\ stop = "done"
    /\ phase' = "down"
    /\ Fresh
    /\ UNCHANGED <<now, files, boots, saves, history>>

Crash ==
    /\ Crashes /\ phase # "down"
    /\ phase' = "down"
    /\ Fresh
    /\ UNCHANGED <<now, files, boots, saves, history>>

Tick ==
    /\ now < MaxNow
    /\ now' = now + 1
    /\ UNCHANGED <<phase, volatile, files, boots, saves, history>>

Recovery == LoadSnapshot \/ ReplayCommand \/ FinishReplay \/ Serve
Locked   == Send \/ Panic \/ Commit
Writer   == Receive \/ Flush
Saving   == TickerFires \/ \E s \in Savers : SaveCopy(s) \/ SaveCreate(s) \/ SaveEncode(s)
Shutdown == ShutdownStop \/ ShutdownClose \/ Exit

Next ==
    \/ Boot
    \/ Recovery
    \/ \E call \in Calls : Begin(call)
    \/ Locked
    \/ Writer
    \/ Saving
    \/ Shutdown
    \/ Crash
    \/ Tick

Spec == Init /\ [][Next]_vars

(* A goroutine that can run does: the Go scheduler is fair.  Nothing is     *)
(* assumed of clients, of the clock, of signals or of crashes.              *)
Fairness == WF_vars(Recovery) /\ WF_vars(Locked) /\ WF_vars(Writer)
FairSpec == Spec /\ Fairness

-----------------------------------------------------------------------------
(* Types.  The channel never holds more than its capacity.                  *)
TypeOK ==
    /\ phase \in {"down", "load", "replay", "recovered", "up"}
    /\ mem \in Data
    /\ holder.by \in {Client, Replay, Nobody}
    /\ Len(chan) <= ChanCap
    /\ closed \in BOOLEAN
    /\ writer \in {"off", "on"} /\ Len(pen) <= 1
    /\ replayed \in 0 .. Len(aof)
    /\ \A s \in Savers : saver[s].step \in {"idle", "called", "copied", "open"}
    /\ stop \in {"no", "stopped", "save", "done"}
    /\ rdb.state \in {"none", "torn", "ok"} /\ rdb.img \in Data
    /\ durable \in 1 .. Len(hist)

(* Recovery rebuilds a state the clients' calls led to, no older than       *)
(* the last operation whose records are in the AOF: nothing in the file is  *)
(* lost, reordered, half applied or applied twice (RebuildStoreFromAOF,     *)
(* recoverStore).                                                           *)
RecoversFlushed == phase = "recovered" => \E i \in durable .. Len(hist) : mem = hist[i]

(* A snapshot that decodes is the store as it was at one moment.            *)
SnapshotIsAState == rdb.state = "ok" => \E i \in 1 .. Len(hist) : rdb.img = hist[i]

(* A client operation that holds Store.mu finishes (or the process ends):   *)
(* it cannot stay blocked in appendAOF.                                     *)
OperationsFinish == (holder.by = Client) ~> (holder.by # Client)

(* A process that starts ends up serving clients (or it ends), if the AOF   *)
(* has no more records than aofChan has places (recoverStore).              *)
RecoveryFinishes == (phase = "load" /\ Len(aof) <= ChanCap) ~> (phase \in {"up", "down"})
=============================================================================
