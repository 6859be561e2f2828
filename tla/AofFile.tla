------------------------------ MODULE AofFile ------------------------------
(***************************************************************************)
(* appendonly.aof byte by byte: AOFWriter encodes and flushes one record   *)
(* at a time, a crash or a failing write may leave any beginning of the    *)
(* record being flushed, after a failure the writer is gone until the next *)
(* restart, and recovery parses what is there and sends what it replays to *)
(* the channel, from where the new writer appends it behind the torn bytes.*)
(***************************************************************************)
EXTENDS Resp2

CONSTANTS
    Commands,    \* AOF commands: sequences of strings, a string being its bytes
    Replies,     \* values a connection writes
    MaxQueue,    \* bound on the channel
    MaxCommands, \* bound on the commands of clients
    MaxFaults    \* bound on the crashes and failing writes

ASSUME AofAssumption ==
    /\ {MaxQueue, MaxCommands, MaxFaults} \subseteq Nat
    /\ Commands \subseteq Seq(Seq(Byte)) \ {<<>>}
    /\ Replies \subseteq Values[MaxDepth]

VARIABLES
    file,       \* the bytes of appendonly.aof
    queue,      \* aofChan: the writer flushes its head
    up,         \* whether a process runs
    writing,    \* whether its AOFWriter does
    commands, faults,   \* what the bounds count
    whole,      \* history: the commands whose records are complete, up to the first torn one
    torn        \* history: "no", "last" (at the end of the file) or "inside"

vars == <<file, queue, up, writing, commands, faults, whole, torn>>

Init ==
    /\ file = <<>> /\ queue = <<>> /\ up = FALSE /\ writing = FALSE
    /\ commands = 0 /\ faults = 0 /\ whole = <<>> /\ torn = "no"

toRESPArray(cmd) == Array([i \in 1 .. Len(cmd) |-> BulkString(cmd[i])])

(* respArrayToCommand: only bulk and simple strings make a command.         *)
IsCommand(v) ==
    /\ v.type = Star /\ v.items # <<>>
    /\ \A i \in 1 .. Len(v.items) : v.items[i].type \in {Dollar, Plus}

(* A nil bulk string counts as an empty one.                                *)
Parts(v) == [i \in 1 .. Len(v.items) |-> v.items[i].data]

(* One round of the replay loop: a value is applied if it is a command, and *)
(* a read that fails ends the loop.                                         *)
ReplayOf(r, replayed) ==
    IF ~r.ok THEN <<>>
    ELSE (IF IsCommand(r.value) THEN <<Parts(r.value)>> ELSE <<>>) \o replayed[r.rest]

Replayed[in \in Seq(Byte)] == ReplayOf(Parse(in), Replayed)

(* A file that does not begin with an array is of the older format.         *)
RebuildStoreFromAOF == IF file # <<>> /\ file[1] # Star THEN <<>> ELSE Replayed[file]

-----------------------------------------------------------------------------
OpenTruncates == <<>>     \* mutant: O_TRUNC instead of O_APPEND
Opened        == file

(* Start: recovery replays, and then the writer opens the file.             *)
Start ==
    /\ ~up /\ up' = TRUE /\ writing' = TRUE
    /\ queue' = RebuildStoreFromAOF
    /\ file' = Opened
    /\ UNCHANGED <<commands, faults, whole, torn>>

Call(cmd) ==
    /\ up /\ commands < MaxCommands /\ Len(queue) < MaxQueue
    /\ commands' = commands + 1
    /\ queue' = Append(queue, cmd)
    /\ UNCHANGED <<file, up, writing, faults, whole, torn>>

Record == Encode(toRESPArray(Head(queue)))

AOFWriter ==
    /\ writing /\ queue # <<>>
    /\ file' = file \o Record
    /\ queue' = Tail(queue)
    /\ whole' = IF torn = "no" THEN Append(whole, Head(queue)) ELSE whole
    /\ torn' = IF torn = "last" THEN "inside" ELSE torn
    /\ UNCHANGED <<up, writing, commands, faults>>

(* The first n bytes of a record get into the file, and the rest does not.  *)
Tear(n) ==
    /\ faults < MaxFaults /\ faults' = faults + 1
    /\ IF n = 0
       THEN UNCHANGED <<file, torn>>
       ELSE /\ writing /\ queue # <<>> /\ n < Len(Record)
            /\ file' = file \o SubSeq(Record, 1, n)
            /\ torn' = IF torn = "no" THEN "last" ELSE "inside"
    /\ writing' = FALSE
    /\ UNCHANGED <<commands, whole>>

(* AOFWriter returns on an error; its record is gone and the clients go on. *)
WriteFails(n) ==
    /\ writing /\ queue # <<>> /\ Tear(n)
    /\ queue' = Tail(queue)
    /\ UNCHANGED up

Crash(n) ==
    /\ up /\ Tear(n)
    /\ up' = FALSE /\ queue' = <<>>

MaxRecord == 100          \* more bytes than any record has

Next ==
    \/ Start
    \/ \E cmd \in Commands : Call(cmd)
    \/ AOFWriter
    \/ \E n \in 0 .. MaxRecord : Crash(n) \/ WriteFails(n)

Spec == Init /\ [][Next]_vars

-----------------------------------------------------------------------------
(* As long as no record is torn but the last one, recovery replays all the  *)
(* complete records and nothing else: no part of the torn record becomes a  *)
(* command, and no later bytes are taken for its rest (RebuildStoreFromAOF, *)
(* respArrayToCommand, parseBulkString).                                    *)
RecoversComplete == ~up /\ torn # "inside" => RebuildStoreFromAOF = whole

(* Whatever is appended behind a torn record, and however often the process *)
(* restarts on that file, what was complete before it stays at the front of *)
(* what is replayed (AOFWriter, RebuildStoreFromAOF).                       *)
PrefixSurvives == IsPrefix(whole, RebuildStoreFromAOF)

(* A value read back is the value written, and the reader stops exactly at  *)
(* the end of it, whatever bytes follow: a binary string that looks like a  *)
(* frame, an empty string, a nil string or a nested array do not make it    *)
(* lose its place (Encode, Parse).                                          *)
FramesAreExact == \A v \in Replies : Parse(Encode(v) \o file) = Read(v, file)
=============================================================================
