---------------------------- MODULE PubSubProofs ----------------------------
(***************************************************************************)
(* Theorems about PubSub, for any connections, topics, argument lists and  *)
(* bounds: its invariants, and that it implements Broadcast (Init maps to  *)
(* Init, and each step to a step or a stutter).                            *)
(*                                                                         *)
(* ModeMatches speaks of connections between commands and is not           *)
(* inductive: InStep says what holds in the middle of each command.        *)
(***************************************************************************)
EXTENDS PubSubRefinement, FiniteSetTheorems, SequenceTheorems, TLAPS

(* A command that names topics has one left to work on.                     *)
ArgsLeft == \A c \in Conn : handler[c].op \in {"sub", "unsub", "pub"} => handler[c].args # <<>>

(* Only a publisher has deliveries to make.                                 *)
OnlyPublishers == \A c \in Conn : handler[c].op # "pub" => handler[c].todo = {}

Running(c) == cur[c] # 0 /\ writer[c][cur[c]] = "running"
Synced(c)  == /\ (mode[c] = "subscriber") <=> (cur[c] # 0)
              /\ cur[c] # 0 => Running(c)

(* The mode, the channel and the write goroutine of a connection, by what   *)
(* its handler is doing.                                                    *)
InSubscribe(c) ==
    handler[c].op = "sub" =>
        /\ handler[c].step # "none"
        /\ mode[c] = "subscriber" => Running(c)
        /\ handler[c].step \in {"ack", "mode"} => cur[c] # 0
InUnsubscribe(c) ==
    handler[c].op = "unsub" =>
        /\ handler[c].step # "none"
        /\ handler[c].step = "broker" => Synced(c)
        /\ handler[c].step = "ack" => ((handler[c].left = 0) <=> (cur[c] = 0)) /\ (cur[c] # 0 => Synced(c))
        /\ handler[c].step = "mode" => cur[c] = 0
InLeaving(c) ==
    handler[c].op \in {"unsuball", "closing"} /\ handler[c].step \in {"ack", "mode"} => cur[c] = 0
InStep(c) ==
    /\ handler[c].op = "ready" => handler[c] = Ready
    /\ handler[c].op \in {"ready", "pub"} => Synced(c)
    /\ handler[c].op = "gone" => cur[c] = 0
    /\ InSubscribe(c) /\ InUnsubscribe(c) /\ InLeaving(c)
ModeInStep == \A c \in Conn : InStep(c)

Base == TypeOK /\ ArgsLeft /\ OnlyPublishers

-----------------------------------------------------------------------------
(* Types.                                                                   *)

(* What Advance does to the arguments.                                      *)
LEMMA HeadTail ==
    ASSUME NEW args \in Seq(Topic), args # <<>>
    PROVE  Head(args) \in Topic /\ Tail(args) \in Seq(Topic)
OBVIOUS

(* The handler of a connection between commands, and of a closed one.       *)
LEMMA ReadyType == Ready \in Handler /\ Gone \in Handler
<1>1. <<>> \in Seq(Topic)
  OBVIOUS
<1>2. {} \in SUBSET (Topic \X Conn)
  OBVIOUS
<1>3. 0 \in 0 .. MaxMsgs
  BY BoundsAssumption
<1>4. Ready \in Handler
  BY <1>1, <1>2, <1>3 DEF Ready, Handler
<1> QED
  BY <1>4 DEF Ready, Gone, Handler

(* One handler moves to h, and the other variables Base speaks of stay.     *)
LEMMA MoveBase ==
    ASSUME Base, NEW c \in Conn, NEW h \in Handler, handler' = [handler EXCEPT ![c] = h],
           h.op \in {"sub", "unsub", "pub"} => h.args # <<>>,
           h.op # "pub" => h.todo = {}
    PROVE  handler' \in [Conn -> Handler] /\ ArgsLeft' /\ OnlyPublishers'
<1>1. handler \in [Conn -> Handler]
  BY DEF Base, TypeOK
<1>2. \A d \in Conn : handler'[d] = IF d = c THEN h ELSE handler[d]
  BY <1>1
<1> QED
  BY <1>1, <1>2 DEF Base, ArgsLeft, OnlyPublishers

(* Changing the fields a handler moves by keeps its type.                   *)
LEMMA StepType ==
    ASSUME NEW h \in Handler, NEW step \in {"none", "broker", "ack", "mode"}, NEW args \in Seq(Topic), NEW left \in Nat
    PROVE  /\ [h EXCEPT !.step = step] \in Handler
           /\ [h EXCEPT !.args = args, !.step = step] \in Handler
           /\ [h EXCEPT !.step = step, !.left = left] \in Handler
BY DEF Handler

(* A subscription command starts with at least one topic, or with none and  *)
(* drops them all.                                                          *)
LEMMA CommandBase ==
    ASSUME Base, NEW c \in Conn, NEW op \in {"sub", "unsub", "unsuball"}, NEW args \in Seq(Topic),
           op # "unsuball" => args # <<>>, Command(c, op, args)
    PROVE  Base'
<1> DEFINE h == [Ready EXCEPT !.op = op, !.args = args, !.step = "broker"]
<1>1. h \in Handler /\ h.op = op /\ h.args = args /\ h.todo = {}
  BY ReadyType DEF Ready, Handler
<1>2. handler' = [handler EXCEPT ![c] = h] /\ cmds' = cmds + 1 /\ cmds < MaxCmds
  BY DEF Command
<1>3. UNCHANGED <<subs, cur, chan, buf, writer, pen, mode, msgs>>
  BY DEF Command, broker, queues, writers
<1> HIDE DEF h
<1>4. handler' \in [Conn -> Handler] /\ ArgsLeft' /\ OnlyPublishers'
  BY <1>1, <1>2, MoveBase
<1>5. cmds' \in 0 .. MaxCmds
  BY <1>2, BoundsAssumption DEF Base, TypeOK
<1> QED
  BY <1>3, <1>4, <1>5 DEF Base, TypeOK

(* The next argument of a command, or its end.                              *)
LEMMA AdvanceMoves ==
    ASSUME Base, NEW c \in Conn, handler[c].op \in {"sub", "unsub"}, NEW last \in Handler,
           last.op \in {"sub", "unsub", "pub"} => last.args # <<>>, last.op # "pub" => last.todo = {},
           Advance(c, last)
    PROVE  handler' \in [Conn -> Handler] /\ ArgsLeft' /\ OnlyPublishers'
<1> DEFINE next == [handler[c] EXCEPT !.args = Tail(handler[c].args), !.step = "broker"]
<1>1. handler[c] \in Handler /\ handler[c].todo = {} /\ handler[c].args # <<>>
  BY DEF Base, TypeOK, OnlyPublishers, ArgsLeft
<1>2. handler[c].args \in Seq(Topic)
  BY <1>1 DEF Handler
<1>3. Tail(handler[c].args) \in Seq(Topic)
  BY <1>1, <1>2, HeadTail
<1>4. next \in Handler
  BY <1>1, <1>3, StepType
<1>5. next.args = Tail(handler[c].args) /\ next.todo = {}
  <2> DEFINE rest == Tail(handler[c].args)
  <2> HIDE DEF rest
  <2>1. [handler[c] EXCEPT !.args = rest, !.step = "broker"].args = rest
    BY <1>1 DEF Handler
  <2>2. [handler[c] EXCEPT !.args = rest, !.step = "broker"].todo = {}
    BY <1>1 DEF Handler
  <2> QED
    BY <2>1, <2>2 DEF rest
<1>6. CASE Tail(handler[c].args) # <<>>
  <2>1. handler' = [handler EXCEPT ![c] = next]
    BY <1>6 DEF Advance
  <2> HIDE DEF next
  <2> QED
    BY <1>4, <1>5, <1>6, <2>1, MoveBase
<1>7. CASE Tail(handler[c].args) = <<>>
  <2>1. handler' = [handler EXCEPT ![c] = last]
    BY <1>7 DEF Advance
  <2> QED
    BY <2>1, MoveBase
<1> QED
  BY <1>6, <1>7

(* The handler goes to another step of its command.                         *)
LEMMA GoToMoves ==
    ASSUME Base, NEW c \in Conn, NEW step \in {"none", "broker", "ack", "mode"}, GoTo(c, step)
    PROVE  handler' \in [Conn -> Handler] /\ ArgsLeft' /\ OnlyPublishers'
<1> DEFINE h == [handler[c] EXCEPT !.step = step]
<1>1. handler[c] \in Handler /\ handler' = [handler EXCEPT ![c] = h]
  BY DEF GoTo, Base, TypeOK
<1>2. h \in Handler /\ h.op = handler[c].op /\ h.args = handler[c].args /\ h.todo = handler[c].todo
  BY <1>1 DEF Handler
<1> HIDE DEF h
<1> QED
  BY <1>1, <1>2, MoveBase DEF Base, ArgsLeft, OnlyPublishers

(* The handler is between commands again.                                   *)
LEMMA ReadyMoves ==
    ASSUME Base, NEW c \in Conn, handler' = [handler EXCEPT ![c] = Ready]
    PROVE  handler' \in [Conn -> Handler] /\ ArgsLeft' /\ OnlyPublishers'
BY ReadyType, MoveBase DEF Ready

(* A connection has finitely many subscriptions: their count is a natural,  *)
(* and zero only when there are none.                                       *)
LEMMA TopicsFinite ==
    ASSUME NEW s, NEW c
    PROVE  /\ Cardinality(TopicsOf(s, c)) \in Nat
           /\ (Cardinality(TopicsOf(s, c)) = 0) <=> (TopicsOf(s, c) = {})
<1>1. TopicsOf(s, c) \subseteq Topic
  BY DEF TopicsOf
<1>2. IsFiniteSet(TopicsOf(s, c))
  BY <1>1, FiniteAssumption, FS_Subset
<1> QED
  BY <1>2, FS_CardinalityType, FS_EmptySet

(* What the broker's methods do to the channels keeps their types.          *)
LEMMA CloseChanType ==
    ASSUME TypeOK, NEW c \in Conn, CloseChan(c)
    PROVE  cur' \in [Conn -> Gen \cup {0}] /\ chan' \in [Conn -> [Gen -> {"unused", "open", "closed"}]]
<1>1. CASE cur[c] = 0
  BY <1>1 DEF TypeOK, CloseChan
<1>2. CASE cur[c] # 0
  <2>1. chan' = [chan EXCEPT ![c][cur[c]] = "closed"] /\ cur' = [cur EXCEPT ![c] = 0]
    BY <1>2 DEF CloseChan
  <2> QED
    BY <2>1 DEF TypeOK
<1> QED
  BY <1>1, <1>2

(* The broker's methods.                                                    *)
LEMMA SubscribeBase == ASSUME Base, NEW c \in Conn, Subscribe(c) PROVE Base'
<1>1. handler' \in [Conn -> Handler] /\ ArgsLeft' /\ OnlyPublishers'
  BY GoToMoves DEF Subscribe
<1>2. UNCHANGED <<buf, writer, pen, mode, cmds, msgs>>
  BY DEF Subscribe, writers
<1>3. subs' \in [Topic -> SUBSET Conn]
  BY DEF Subscribe, Base, TypeOK
<1>4. cur' \in [Conn -> Gen \cup {0}] /\ chan' \in [Conn -> [Gen -> {"unused", "open", "closed"}]]
  <2>1. CASE cur[c] # 0
    BY <2>1 DEF Subscribe, Base, TypeOK
  <2>2. CASE cur[c] = 0
    <3>1. PICK g \in Gen : cur' = [cur EXCEPT ![c] = g] /\ chan' = [chan EXCEPT ![c][g] = "open"]
      BY <2>2 DEF Subscribe
    <3> QED
      BY <3>1 DEF Base, TypeOK
  <2> QED
    BY <2>1, <2>2
<1> QED
  BY <1>1, <1>2, <1>3, <1>4 DEF Base, TypeOK

(* The number of subscriptions left is a natural.                           *)
LEMMA UnsubscribeBase == ASSUME Base, NEW c \in Conn, Unsubscribe(c) PROVE Base'
<1> DEFINE n == Cardinality(TopicsOf(subs', c))
           h == [handler[c] EXCEPT !.step = "ack", !.left = n]
<1>1. handler[c] \in Handler /\ n \in Nat
  BY TopicsFinite DEF Base, TypeOK
<1>2. handler' = [handler EXCEPT ![c] = h]
  BY DEF Unsubscribe, Base, TypeOK
<1> HIDE DEF n
<1>3. h \in Handler /\ h.op = handler[c].op /\ h.args = handler[c].args /\ h.todo = handler[c].todo
  <2>1. h \in Handler
    BY <1>1 DEF Handler
  <2> QED
    BY <1>1, <2>1 DEF Handler
<1> HIDE DEF h
<1>4. handler' \in [Conn -> Handler] /\ ArgsLeft' /\ OnlyPublishers'
  BY <1>2, <1>3, MoveBase DEF Base, ArgsLeft, OnlyPublishers
<1>5. UNCHANGED <<buf, writer, pen, mode, cmds, msgs>>
  BY DEF Unsubscribe, writers
<1>6. subs' \in [Topic -> SUBSET Conn]
  BY DEF Unsubscribe, Base, TypeOK
<1>7. cur' \in [Conn -> Gen \cup {0}] /\ chan' \in [Conn -> [Gen -> {"unused", "open", "closed"}]]
  <2>1. CASE CloseChan(c)
    BY <2>1, CloseChanType DEF Base
  <2>2. CASE UNCHANGED <<cur, chan>>
    BY <2>2 DEF Base, TypeOK
  <2> QED
    BY <2>1, <2>2 DEF Unsubscribe
<1> QED
  BY <1>4, <1>5, <1>6, <1>7 DEF Base, TypeOK

(* UnsubscribeAll empties what it can reach and keeps the types.            *)
LEMMA UnsubscribeAllBase == ASSUME Base, NEW c \in Conn, UnsubscribeAll(c) PROVE Base'
<1>1. handler' \in [Conn -> Handler] /\ ArgsLeft' /\ OnlyPublishers'
  BY GoToMoves DEF UnsubscribeAll
<1>2. UNCHANGED <<buf, writer, pen, mode, cmds, msgs>>
  BY DEF UnsubscribeAll, writers
<1>3. subs' \in [Topic -> SUBSET Conn]
  BY DEF UnsubscribeAll, Base, TypeOK
<1>4. cur' \in [Conn -> Gen \cup {0}] /\ chan' \in [Conn -> [Gen -> {"unused", "open", "closed"}]]
  BY CloseChanType DEF Base, UnsubscribeAll
<1> QED
  BY <1>1, <1>2, <1>3, <1>4 DEF Base, TypeOK

(* Confirmations, mode switches and the end of a connection.                *)
LEMMA AckBase ==
    ASSUME Base, NEW c \in Conn, SubscribeAck(c) \/ UnsubscribeAck(c) \/ UnsubscribeAllAck(c)
    PROVE  Base'
<1>1. UNCHANGED <<subs, cur, chan, buf, writer, pen, mode, cmds, msgs>>
  BY DEF SubscribeAck, UnsubscribeAck, UnsubscribeAllAck, broker, queues, writers
<1>2. handler' \in [Conn -> Handler] /\ ArgsLeft' /\ OnlyPublishers'
  <2>1. CASE SubscribeAck(c)
    <3> DEFINE last == [handler[c] EXCEPT !.step = "mode"]
    <3>1. handler[c] \in Handler /\ handler[c].op = "sub" /\ handler[c].todo = {} /\ handler[c].args # <<>>
      BY <2>1 DEF Base, TypeOK, OnlyPublishers, ArgsLeft, SubscribeAck, At
    <3>2. last \in Handler /\ last.todo = {} /\ last.args # <<>>
      BY <3>1 DEF Handler
    <3>3. Advance(c, last)
      BY <2>1 DEF SubscribeAck
    <3> HIDE DEF last
    <3> QED
      BY <3>1, <3>2, <3>3, AdvanceMoves
  <2>2. CASE UnsubscribeAck(c)
    <3>1. handler[c].op = "unsub"
      BY <2>2 DEF UnsubscribeAck, At
    <3>2. CASE GoTo(c, "mode")
      BY <3>2, GoToMoves
    <3>3. CASE Advance(c, Ready)
      <4>1. Ready \in Handler /\ Ready.op = "ready" /\ Ready.todo = {}
        BY ReadyType DEF Ready
      <4> QED
        BY <3>1, <3>3, <4>1, AdvanceMoves
    <3> QED
      BY <2>2, <3>2, <3>3 DEF UnsubscribeAck
  <2>3. CASE UnsubscribeAllAck(c)
    BY <2>3, GoToMoves DEF UnsubscribeAllAck
  <2> QED
    BY <2>1, <2>2, <2>3
<1> QED
  BY <1>1, <1>2 DEF Base, TypeOK

(* A switch of the mode, with or without a new write goroutine.             *)
LEMMA ModeBase == ASSUME Base, NEW c \in Conn, SetSubscriber(c) \/ SetNormal(c) PROVE Base'
<1>1. UNCHANGED <<subs, cur, chan, buf, pen, cmds, msgs>>
  BY DEF SetSubscriber, SetNormal, broker, queues, writers
<1>2. handler' \in [Conn -> Handler] /\ ArgsLeft' /\ OnlyPublishers'
  <2>1. CASE handler' = [handler EXCEPT ![c] = Ready]
    BY <2>1, ReadyMoves
  <2>2. CASE handler[c].op = "unsub" /\ Advance(c, Ready)
    <3>1. Ready \in Handler /\ Ready.op = "ready" /\ Ready.todo = {}
      BY ReadyType DEF Ready
    <3> QED
      BY <2>2, <3>1, AdvanceMoves
  <2> QED
    BY <2>1, <2>2 DEF SetSubscriber, SetNormal
<1>3. mode' \in [Conn -> {"normal", "subscriber"}] /\ writer' \in [Conn -> [Gen -> {"none", "running", "done"}]]
  <2>1. CASE SetNormal(c)
    BY <2>1 DEF SetNormal, writers, Base, TypeOK
  <2>2. CASE SetSubscriber(c) /\ mode[c] # "subscriber" /\ cur[c] # 0
    <3>1. mode' = [mode EXCEPT ![c] = "subscriber"] /\ writer' = [writer EXCEPT ![c][cur[c]] = "running"]
      BY <2>2 DEF SetSubscriber
    <3> QED
      BY <3>1 DEF Base, TypeOK
  <2>3. CASE SetSubscriber(c) /\ UNCHANGED <<mode, writer>>
    BY <2>3 DEF Base, TypeOK
  <2> QED
    BY <2>1, <2>2, <2>3 DEF SetSubscriber
<1> QED
  BY <1>1, <1>2, <1>3 DEF Base, TypeOK

(* The end of a command, a PUBLISH or a connection.                         *)
LEMMA EndBase == ASSUME Base, NEW c \in Conn, Disconnect(c) \/ CloseConn(c) \/ PublishReply(c) PROVE Base'
<1>1. UNCHANGED <<subs, cur, chan, buf, writer, pen, mode, cmds, msgs>>
  BY DEF Disconnect, CloseConn, PublishReply, broker, queues, writers
<1>2. handler' \in [Conn -> Handler] /\ ArgsLeft' /\ OnlyPublishers'
  <2>1. CASE Disconnect(c)
    <3> DEFINE h == [Ready EXCEPT !.op = "closing", !.step = "broker"]
    <3>1. h \in Handler /\ h.op = "closing" /\ h.todo = {}
      BY ReadyType DEF Ready, Handler
    <3>2. handler' = [handler EXCEPT ![c] = h]
      BY <2>1 DEF Disconnect
    <3> HIDE DEF h
    <3> QED
      BY <3>1, <3>2, MoveBase
  <2>2. CASE CloseConn(c)
    <3>1. Gone \in Handler /\ Gone.op = "gone" /\ Gone.todo = {}
      BY ReadyType DEF Gone, Ready
    <3> QED
      BY <2>2, <3>1, MoveBase DEF CloseConn
  <2>3. CASE PublishReply(c)
    BY <2>3, ReadyMoves DEF PublishReply
  <2> QED
    BY <2>1, <2>2, <2>3
<1> QED
  BY <1>1, <1>2 DEF Base, TypeOK

(* Publishing.                                                              *)
LEMMA PublishBase == ASSUME Base, NEW c \in Conn, Publish(c) PROVE Base'
<1>1. PICK ch \in Channel :
        handler' = [handler EXCEPT ![c] =
                     [op |-> "pub", args |-> <<ch>>, step |-> "none", left |-> 0, chan |-> ch, msg |-> msgs + 1,
                      todo |-> {p \in Matching(ch) \X Conn : p[2] \in subs[p[1]]}]]
  BY DEF Publish
<1> DEFINE todo == {p \in Matching(ch) \X Conn : p[2] \in subs[p[1]]}
           h == [op |-> "pub", args |-> <<ch>>, step |-> "none", left |-> 0, chan |-> ch, msg |-> msgs + 1,
                 todo |-> todo]
<1>2. UNCHANGED <<subs, cur, chan, buf, writer, pen, mode, cmds>> /\ msgs' = msgs + 1 /\ msgs < MaxMsgs
  BY DEF Publish, broker, queues, writers
<1>3. msgs + 1 \in 0 .. MaxMsgs
  BY <1>2, BoundsAssumption DEF Base, TypeOK
<1>4. todo \in SUBSET (Topic \X Conn)
  BY DEF Matching, Topic
<1>5. <<ch>> \in Seq(Topic) /\ <<ch>> # <<>>
  BY DEF Topic
<1>6. h \in Handler /\ h.op = "pub" /\ h.args # <<>>
  <2> HIDE DEF todo
  <2> QED
    BY <1>3, <1>4, <1>5 DEF Handler
<1>7. handler' = [handler EXCEPT ![c] = h]
  BY <1>1
<1> HIDE DEF h
<1>8. handler' \in [Conn -> Handler] /\ ArgsLeft' /\ OnlyPublishers'
  BY <1>6, <1>7, MoveBase
<1> QED
  BY <1>2, <1>3, <1>8 DEF Base, TypeOK

(* Adding to a buffer that has room.                                        *)
LEMMA BufferType ==
    ASSUME NEW q \in Seq(Frame), NEW f \in Frame, Len(q) < BufSize
    PROVE  Append(q, f) \in Seq(Frame) /\ Len(Append(q, f)) <= BufSize
<1>1. Append(q, f) \in Seq(Frame) /\ Len(Append(q, f)) = Len(q) + 1 /\ Len(q) \in Nat
  OBVIOUS
<1> QED
  BY <1>1, BoundsAssumption

(* A delivery adds to a buffer that has room, or drops the message.         *)
LEMMA DeliverBase == ASSUME Base, NEW c \in Conn, Deliver(c) PROVE Base'
<1> DEFINE h == handler[c]
<1>1. h.op = "pub" /\ h \in Handler
  BY DEF Deliver, Base, TypeOK
<1>2. PICK p \in h.todo :
        LET t    == p[1]
            d    == p[2]
            sent == cur[d] # 0 /\ Len(buf[d][cur[d]]) < BufSize
        IN  /\ buf' = IF sent THEN [buf EXCEPT ![d][cur[d]] = Append(@, <<t, h.msg>>)] ELSE buf
            /\ handler' = [handler EXCEPT ![c] =
                  [h EXCEPT !.todo = h.todo \ {p}, !.args = <<t>>,
                            !.left = IF sent /\ (t = h.chan \/ d \notin subs[h.chan]) THEN h.left + 1 ELSE h.left]]
  BY DEF Deliver
<1> DEFINE t    == p[1]
           d    == p[2]
           sent == cur[d] # 0 /\ Len(buf[d][cur[d]]) < BufSize
           n    == IF sent /\ (t = h.chan \/ d \notin subs[h.chan]) THEN h.left + 1 ELSE h.left
           rest == h.todo \ {p}
           next == [h EXCEPT !.todo = rest, !.args = <<t>>, !.left = n]
<1>3. h.todo \subseteq Topic \X Conn /\ h.left \in Nat /\ h.msg \in 0 .. MaxMsgs
  BY <1>1 DEF Handler
<1>4. t \in Topic /\ d \in Conn
  BY <1>3
<1>5. n \in Nat /\ rest \in SUBSET (Topic \X Conn) /\ <<t>> \in Seq(Topic) /\ <<t>> # <<>>
  BY <1>3, <1>4
<1>6. handler' = [handler EXCEPT ![c] = next]
  BY <1>2
<1>7. buf' = IF sent THEN [buf EXCEPT ![d][cur[d]] = Append(@, <<t, h.msg>>)] ELSE buf
  BY <1>2
<1>8. next \in Handler /\ next.op = "pub" /\ next.args # <<>>
  <2> HIDE DEF n, rest
  <2>1. next \in Handler
    BY <1>1, <1>5 DEF Handler
  <2>2. next.op = "pub" /\ next.args = <<t>>
    BY <1>1 DEF Handler
  <2> QED
    BY <1>5, <2>1, <2>2
<1>9. handler' \in [Conn -> Handler] /\ ArgsLeft' /\ OnlyPublishers'
  <2> HIDE DEF next
  <2> QED
    BY <1>6, <1>8, MoveBase
<1>10. UNCHANGED <<subs, cur, chan, writer, pen, mode, cmds, msgs>>
  BY DEF Deliver, broker, writers
<1>11. /\ buf' \in [Conn -> [Gen -> Seq(Frame)]]
       /\ \A e \in Conn, g \in Gen : Len(buf'[e][g]) <= BufSize
  <2>1. CASE ~sent
    BY <1>7, <2>1 DEF Base, TypeOK
  <2>2. CASE sent
    <3>1. cur[d] \in Gen /\ buf[d][cur[d]] \in Seq(Frame) /\ <<t, h.msg>> \in Frame
      BY <1>3, <1>4, <2>2 DEF Base, TypeOK, Frame
    <3> DEFINE q == Append(buf[d][cur[d]], <<t, h.msg>>)
    <3>2. q \in Seq(Frame) /\ Len(q) <= BufSize
      BY <2>2, <3>1, BufferType
    <3>3. buf' = [buf EXCEPT ![d][cur[d]] = q]
      BY <1>7, <2>2
    <3> HIDE DEF q, t, d, sent
    <3> QED
      BY <1>4, <3>1, <3>2, <3>3 DEF Base, TypeOK
  <2> QED
    BY <2>1, <2>2
<1> QED
  BY <1>9, <1>10, <1>11 DEF Base, TypeOK

(* The write goroutine.                                                     *)
LEMMA WriterBase == ASSUME Base, NEW c \in Conn, NEW g \in Gen, WriterStep(c, g) PROVE Base'
<1>1. UNCHANGED <<subs, cur, chan, mode, handler, cmds, msgs>>
  BY DEF WriterStep, Take, Write, Finish, broker, queues
<1>2. buf[c][g] \in Seq(Frame) /\ Len(buf[c][g]) <= BufSize /\ BufSize \in Nat
  BY BoundsAssumption DEF Base, TypeOK
<1>3. CASE Take(c, g)
  <2>1. UNCHANGED writer /\ pen' = [pen EXCEPT ![c][g] = <<Head(buf[c][g])>>] /\ buf' = [buf EXCEPT ![c][g] = Tail(@)]
    BY <1>3 DEF Take
  <2>2. Head(buf[c][g]) \in Frame
    BY <1>2, <1>3 DEF Take
  <2>3. Tail(buf[c][g]) \in Seq(Frame) /\ Len(Tail(buf[c][g])) <= BufSize
    BY <1>2, <1>3 DEF Take
  <2> DEFINE f == <<Head(buf[c][g])>>
             q == Tail(buf[c][g])
  <2>4. f \in Seq(Frame) /\ Len(f) <= 1
    BY <2>2
  <2>5. q \in Seq(Frame) /\ Len(q) <= BufSize
    BY <2>3
  <2>6. pen' = [pen EXCEPT ![c][g] = f] /\ buf' = [buf EXCEPT ![c][g] = q]
    BY <2>1
  <2> HIDE DEF f, q
  <2>7. pen' \in [Conn -> [Gen -> Seq(Frame)]] /\ \A d \in Conn, h \in Gen : Len(pen'[d][h]) <= 1
    BY <2>4, <2>6 DEF Base, TypeOK
  <2>8. buf' \in [Conn -> [Gen -> Seq(Frame)]] /\ \A d \in Conn, h \in Gen : Len(buf'[d][h]) <= BufSize
    BY <2>5, <2>6 DEF Base, TypeOK
  <2> QED
    BY <1>1, <2>1, <2>7, <2>8 DEF Base, TypeOK, ArgsLeft, OnlyPublishers
<1>4. CASE Write(c, g)
  <2>1. pen' = [pen EXCEPT ![c][g] = <<>>] /\ UNCHANGED <<buf, writer>>
    BY <1>4 DEF Write, queues
  <2>2. <<>> \in Seq(Frame) /\ Len(<<>>) <= 1
    OBVIOUS
  <2> QED
    BY <1>1, <2>1, <2>2 DEF Base, TypeOK, ArgsLeft, OnlyPublishers
<1>5. CASE Finish(c, g)
  <2>1. writer' = [writer EXCEPT ![c][g] = "done"] /\ UNCHANGED <<buf, pen>>
    BY <1>5 DEF Finish, queues
  <2> QED
    BY <1>1, <2>1 DEF Base, TypeOK, ArgsLeft, OnlyPublishers
<1> QED
  BY <1>3, <1>4, <1>5 DEF WriterStep

(* Every step of a handler in the middle of a command.                      *)
LEMMA HandlerStepBase == ASSUME Base, NEW c \in Conn, HandlerStep(c) PROVE Base'
BY SubscribeBase, UnsubscribeBase, UnsubscribeAllBase, AckBase, ModeBase, EndBase, DeliverBase DEF HandlerStep

(* Base is inductive.                                                       *)
LEMMA NextBase == Base /\ [Next]_vars => Base'
<1> SUFFICES ASSUME Base, [Next]_vars PROVE Base'
  OBVIOUS
<1>1. ASSUME NEW c \in Conn, SubscribeCommand(c) PROVE Base'
  <2>1. PICK args \in SubArgs : Command(c, "sub", args)
    BY <1>1 DEF SubscribeCommand
  <2>2. args \in Seq(Topic) /\ args # <<>>
    BY ArgsAssumption
  <2> QED
    BY <2>1, <2>2, CommandBase
<1>2. ASSUME NEW c \in Conn, UnsubscribeCommand(c) PROVE Base'
  <2>1. PICK args \in UnsubArgs : Command(c, IF args = <<>> THEN "unsuball" ELSE "unsub", args)
    BY <1>2 DEF UnsubscribeCommand
  <2>2. args \in Seq(Topic)
    BY ArgsAssumption
  <2>3. CASE args = <<>>
    BY <2>1, <2>2, <2>3, CommandBase
  <2>4. CASE args # <<>>
    BY <2>1, <2>2, <2>4, CommandBase
  <2> QED
    BY <2>3, <2>4
<1>3. ASSUME NEW c \in Conn, Publish(c) \/ Disconnect(c) \/ HandlerStep(c) PROVE Base'
  BY <1>3, PublishBase, EndBase, HandlerStepBase
<1>4. ASSUME NEW c \in Conn, NEW g \in Gen, WriterStep(c, g) PROVE Base'
  BY <1>4, WriterBase
<1>5. CASE UNCHANGED vars
  BY <1>5 DEF vars, broker, queues, writers, Base, TypeOK, ArgsLeft, OnlyPublishers
<1> QED
  BY <1>1, <1>2, <1>3, <1>4, <1>5 DEF Next

(* Base holds when the server starts.                                       *)
LEMMA InitBase == Init => Base
<1> SUFFICES ASSUME Init PROVE Base
  OBVIOUS
<1>1. handler \in [Conn -> Handler] /\ ArgsLeft /\ OnlyPublishers
  BY ReadyType DEF Init, ArgsLeft, OnlyPublishers, Ready
<1>2. <<>> \in Seq(Frame) /\ Len(<<>>) = 0
  OBVIOUS
<1>3. buf \in [Conn -> [Gen -> Seq(Frame)]] /\ pen \in [Conn -> [Gen -> Seq(Frame)]]
  BY <1>2 DEF Init
<1>4. \A c \in Conn, g \in Gen : Len(buf[c][g]) <= BufSize /\ Len(pen[c][g]) <= 1
  BY <1>2, BoundsAssumption DEF Init
<1> QED
  BY <1>1, <1>3, <1>4, BoundsAssumption DEF Init, Base, TypeOK

(* The broker and its connections keep their types: every confirmation      *)
(* counts at least zero subscriptions, no delivery buffer is overfilled and *)
(* a write goroutine holds at most one message.                             *)
THEOREM Typing == Spec => []TypeOK
<1>1. Base => TypeOK
  BY DEF Base
<1> QED
  BY InitBase, NextBase, <1>1, PTL DEF Spec

-----------------------------------------------------------------------------
(* Channels and subscriptions.                                              *)

ChannelOf(c) ==
    /\ (cur[c] # 0) <=> (TopicsOf(subs, c) # {})
    /\ \A g \in Gen : (chan[c][g] = "open") <=> (g = cur[c])

(* What a connection's own step leaves of the others.                       *)
LEMMA OtherChannels ==
    ASSUME Base, ChannelIffSubscribed, NEW c \in Conn,
           \A d \in Conn \ {c} : TopicsOf(subs', d) = TopicsOf(subs, d) /\ cur'[d] = cur[d] /\ chan'[d] = chan[d],
           ChannelOf(c)'
    PROVE  ChannelIffSubscribed'
BY DEF ChannelIffSubscribed, ChannelOf

(* Closing the channel of a connection whose last subscription went.        *)
LEMMA CloseChanChannels ==
    ASSUME Base, ChannelIffSubscribed, NEW c \in Conn, CloseChan(c), TopicsOf(subs', c) = {}
    PROVE  /\ ChannelOf(c)'
           /\ cur'[c] = 0
           /\ \A d \in Conn \ {c} : cur'[d] = cur[d] /\ chan'[d] = chan[d]
<1>1. 0 \notin Gen
  BY DEF Gen
<1>2. CASE cur[c] = 0
  BY <1>2 DEF CloseChan, ChannelIffSubscribed, ChannelOf
<1>3. CASE cur[c] # 0
  <2>1. chan' = [chan EXCEPT ![c][cur[c]] = "closed"] /\ cur' = [cur EXCEPT ![c] = 0] /\ cur[c] \in Gen
    BY <1>3 DEF CloseChan, Base, TypeOK
  <2>2. \A g \in Gen : chan'[c][g] # "open"
    BY <2>1 DEF Base, TypeOK, ChannelIffSubscribed
  <2>3. cur'[c] = 0
    BY <2>1 DEF Base, TypeOK
  <2> QED
    BY <1>1, <2>1, <2>2, <2>3 DEF Base, TypeOK, ChannelOf
<1> QED
  BY <1>2, <1>3

(* Subscribing gives the connection a channel if it has none.               *)
LEMMA SubscribeChannels ==
    ASSUME Base, ChannelIffSubscribed, NEW c \in Conn, Subscribe(c)
    PROVE  ChannelIffSubscribed' /\ cur'[c] # 0
<1>1. Arg(c) \in Topic /\ subs' = [subs EXCEPT ![Arg(c)] = @ \cup {c}]
  <2>1. handler[c] \in Handler /\ handler[c].args # <<>>
    BY DEF Base, TypeOK, ArgsLeft, Subscribe, At
  <2>2. handler[c].args \in Seq(Topic)
    BY <2>1 DEF Handler
  <2> QED
    BY <2>1, <2>2, HeadTail DEF Subscribe, Arg
<1> HIDE DEF Arg
<1>2. Arg(c) \in TopicsOf(subs', c)
  BY <1>1 DEF TopicsOf, Base, TypeOK
<1>3. \A d \in Conn \ {c} : TopicsOf(subs', d) = TopicsOf(subs, d)
  BY <1>1 DEF TopicsOf, Base, TypeOK
<1>4. CASE cur[c] # 0
  <2>1. UNCHANGED <<cur, chan>>
    BY <1>4 DEF Subscribe
  <2>2. ChannelOf(c)'
    BY <1>2, <1>4, <2>1 DEF ChannelOf, ChannelIffSubscribed
  <2> QED
    BY <1>3, <1>4, <2>1, <2>2, OtherChannels
<1>5. CASE cur[c] = 0
  <2>1. PICK g \in Gen : cur' = [cur EXCEPT ![c] = g] /\ chan' = [chan EXCEPT ![c][g] = "open"]
    BY <1>5 DEF Subscribe
  <2>2. g # 0
    BY DEF Gen
  <2>3. \A h \in Gen : chan[c][h] # "open"
    BY <1>5 DEF ChannelIffSubscribed, Gen
  <2>4. cur'[c] = g /\ \A h \in Gen : (chan'[c][h] = "open") <=> (h = g)
    BY <2>1, <2>3 DEF Base, TypeOK
  <2>5. ChannelOf(c)'
    BY <1>2, <2>2, <2>4 DEF ChannelOf
  <2>6. \A d \in Conn \ {c} : cur'[d] = cur[d] /\ chan'[d] = chan[d]
    BY <2>1 DEF Base, TypeOK
  <2> QED
    BY <1>3, <2>2, <2>4, <2>5, <2>6, OtherChannels
<1> QED
  BY <1>4, <1>5

(* Unsubscribing closes the channel exactly when the last subscription goes.*)
LEMMA UnsubscribeChannels ==
    ASSUME Base, ChannelIffSubscribed, NEW c \in Conn, Unsubscribe(c)
    PROVE  /\ ChannelIffSubscribed'
           /\ cur'[c] \in {0, cur[c]}
           /\ (cur'[c] = 0) <=> (TopicsOf(subs', c) = {})
<1>1. Arg(c) \in Topic /\ subs' = [subs EXCEPT ![Arg(c)] = @ \ {c}]
  <2>1. handler[c] \in Handler /\ handler[c].args # <<>>
    BY DEF Base, TypeOK, ArgsLeft, Unsubscribe, At
  <2>2. handler[c].args \in Seq(Topic)
    BY <2>1 DEF Handler
  <2> QED
    BY <2>1, <2>2, HeadTail DEF Unsubscribe, Arg
<1> HIDE DEF Arg
<1>2. TopicsOf(subs', c) \subseteq TopicsOf(subs, c)
  BY <1>1 DEF TopicsOf, Base, TypeOK
<1>3. \A d \in Conn \ {c} : TopicsOf(subs', d) = TopicsOf(subs, d)
  BY <1>1 DEF TopicsOf, Base, TypeOK
<1>4. CASE TopicsOf(subs', c) = {}
  <2>1. CloseChan(c)
    BY <1>4 DEF Unsubscribe
  <2>2. ChannelOf(c)' /\ cur'[c] = 0 /\ \A d \in Conn \ {c} : cur'[d] = cur[d] /\ chan'[d] = chan[d]
    BY <1>4, <2>1, CloseChanChannels
  <2> QED
    BY <1>3, <1>4, <2>2, OtherChannels
<1>5. CASE TopicsOf(subs', c) # {}
  <2>1. UNCHANGED <<cur, chan>>
    BY <1>5 DEF Unsubscribe
  <2>2. cur[c] # 0
    BY <1>2, <1>5 DEF ChannelIffSubscribed
  <2>3. ChannelOf(c)'
    BY <1>5, <2>1, <2>2 DEF ChannelOf, ChannelIffSubscribed
  <2> QED
    BY <1>3, <1>5, <2>1, <2>2, <2>3, OtherChannels
<1> QED
  BY <1>4, <1>5

(* UnsubscribeAll leaves the connection without a channel.                  *)
LEMMA UnsubscribeAllChannels ==
    ASSUME Base, ChannelIffSubscribed, NEW c \in Conn, UnsubscribeAll(c)
    PROVE  ChannelIffSubscribed' /\ cur'[c] = 0
<1>1. subs' = [t \in Topic |-> subs[t] \ {c}] /\ CloseChan(c)
  BY DEF UnsubscribeAll
<1>2. TopicsOf(subs', c) = {}
  BY <1>1 DEF TopicsOf
<1>3. \A d \in Conn \ {c} : TopicsOf(subs', d) = TopicsOf(subs, d)
  BY <1>1 DEF TopicsOf
<1>4. ChannelOf(c)' /\ cur'[c] = 0 /\ \A d \in Conn \ {c} : cur'[d] = cur[d] /\ chan'[d] = chan[d]
  BY <1>1, <1>2, CloseChanChannels
<1> QED
  BY <1>3, <1>4, OtherChannels

BrokerStep(c) == Subscribe(c) \/ Unsubscribe(c) \/ UnsubscribeAll(c)

(* All other steps leave subscriptions and channels alone.                  *)
LEMMA BrokerKept ==
    ASSUME [Next]_vars, \A c \in Conn : ~BrokerStep(c)
    PROVE  UNCHANGED <<subs, cur, chan>>
<1>1. ASSUME NEW c \in Conn, SubscribeCommand(c) \/ UnsubscribeCommand(c) PROVE UNCHANGED <<subs, cur, chan>>
  BY <1>1 DEF SubscribeCommand, UnsubscribeCommand, Command, broker, queues
<1>2. ASSUME NEW c \in Conn, Publish(c) \/ Disconnect(c) PROVE UNCHANGED <<subs, cur, chan>>
  BY <1>2 DEF Publish, Disconnect, broker, queues
<1>3. ASSUME NEW c \in Conn, HandlerStep(c) PROVE UNCHANGED <<subs, cur, chan>>
  BY <1>3 DEF HandlerStep, BrokerStep, SubscribeAck, UnsubscribeAck, UnsubscribeAllAck, SetSubscriber, SetNormal,
              CloseConn, Deliver, PublishReply, broker, queues
<1>4. ASSUME NEW c \in Conn, NEW g \in Gen, WriterStep(c, g) PROVE UNCHANGED <<subs, cur, chan>>
  BY <1>4 DEF WriterStep, Take, Write, Finish, broker, queues
<1>5. CASE UNCHANGED vars
  BY <1>5 DEF vars, broker, queues
<1> QED
  BY <1>1, <1>2, <1>3, <1>4, <1>5 DEF Next

(* Channels keep following the subscriptions in every step.                 *)
LEMMA NextChannels == Base /\ ChannelIffSubscribed /\ [Next]_vars => ChannelIffSubscribed'
<1> SUFFICES ASSUME Base, ChannelIffSubscribed, [Next]_vars PROVE ChannelIffSubscribed'
  OBVIOUS
<1>1. CASE \E c \in Conn : BrokerStep(c)
  BY <1>1, SubscribeChannels, UnsubscribeChannels, UnsubscribeAllChannels DEF BrokerStep
<1>2. CASE ~\E c \in Conn : BrokerStep(c)
  <2>1. UNCHANGED <<subs, cur, chan>>
    BY <1>2, BrokerKept
  <2> QED
    BY <2>1 DEF ChannelIffSubscribed, TopicsOf
<1> QED
  BY <1>1, <1>2

(* A connection has a channel, and an open one, exactly while it has a      *)
(* subscription: Publish never sends on a closed channel, no channel is     *)
(* closed twice, and none stays open when it can no longer be reached.      *)
THEOREM ChannelsFollowSubscriptions == Spec => []ChannelIffSubscribed
<1>1. Init => ChannelIffSubscribed
  BY DEF Init, ChannelIffSubscribed, TopicsOf, Gen
<1> QED
  BY <1>1, InitBase, NextBase, NextChannels, PTL DEF Spec

-----------------------------------------------------------------------------
(* What a step of one connection does to the handlers.                      *)

ConnStep(c) == SubscribeCommand(c) \/ UnsubscribeCommand(c) \/ Publish(c) \/ Disconnect(c) \/ HandlerStep(c)

(* A connection's commands touch no other connection's handler, channel,    *)
(* mode or write goroutine.                                                 *)
LEMMA OthersStay ==
    ASSUME Base, NEW c \in Conn, ConnStep(c), NEW d \in Conn \ {c}
    PROVE  handler'[d] = handler[d] /\ cur'[d] = cur[d] /\ mode'[d] = mode[d] /\ writer'[d] = writer[d]
<1>1. handler'[d] = handler[d]
  <2>1. handler \in [Conn -> Handler]
    BY DEF Base, TypeOK
  <2>2. \E h : handler' = [handler EXCEPT ![c] = h]
    <3>1. CASE SubscribeCommand(c) \/ UnsubscribeCommand(c)
      BY <3>1 DEF SubscribeCommand, UnsubscribeCommand, Command
    <3>2. CASE Publish(c) \/ Disconnect(c) \/ CloseConn(c) \/ PublishReply(c) \/ SetSubscriber(c)
      BY <3>2 DEF Publish, Disconnect, CloseConn, PublishReply, SetSubscriber
    <3>3. ASSUME NEW step, GoTo(c, step) PROVE \E h : handler' = [handler EXCEPT ![c] = h]
      BY <2>1, <3>3 DEF GoTo
    <3>4. ASSUME NEW last, Advance(c, last) PROVE \E h : handler' = [handler EXCEPT ![c] = h]
      BY <3>4 DEF Advance
    <3>5. CASE Subscribe(c) \/ UnsubscribeAll(c)
      BY <3>3, <3>5 DEF Subscribe, UnsubscribeAll
    <3>6. CASE Unsubscribe(c)
      <4> DEFINE n == Cardinality(TopicsOf(subs', c))
      <4>1. handler' = [handler EXCEPT ![c].step = "ack", ![c].left = n]
        BY <3>6 DEF Unsubscribe
      <4> HIDE DEF n
      <4>2. handler' = [handler EXCEPT ![c] = [handler[c] EXCEPT !.step = "ack", !.left = n]]
        BY <2>1, <4>1
      <4> QED
        BY <4>2
    <3>7. CASE SubscribeAck(c) \/ UnsubscribeAck(c) \/ UnsubscribeAllAck(c)
      BY <3>3, <3>4, <3>7 DEF SubscribeAck, UnsubscribeAck, UnsubscribeAllAck
    <3>8. CASE SetNormal(c)
      BY <3>4, <3>8 DEF SetNormal
    <3>9. CASE Deliver(c)
      BY <3>9 DEF Deliver
    <3> QED
      BY <3>1, <3>2, <3>5, <3>6, <3>7, <3>8, <3>9 DEF ConnStep, HandlerStep
  <2> QED
    BY <2>1, <2>2
<1>2. cur'[d] = cur[d]
  <2>1. cur \in [Conn -> Gen \cup {0}]
    BY DEF Base, TypeOK
  <2>2. UNCHANGED cur \/ \E g : cur' = [cur EXCEPT ![c] = g]
    <3>1. CASE CloseChan(c)
      BY <3>1 DEF CloseChan
    <3>2. CASE Subscribe(c)
      BY <3>2 DEF Subscribe
    <3>3. CASE SubscribeCommand(c) \/ UnsubscribeCommand(c)
      BY <3>3 DEF SubscribeCommand, UnsubscribeCommand, Command, broker
    <3> QED
      BY <3>1, <3>2, <3>3 DEF ConnStep, HandlerStep, Unsubscribe, UnsubscribeAll, Publish, Disconnect, SubscribeAck,
            UnsubscribeAck, UnsubscribeAllAck, SetSubscriber, SetNormal, CloseConn, Deliver, PublishReply, broker
  <2> QED
    BY <2>1, <2>2
<1>3. mode'[d] = mode[d] /\ writer'[d] = writer[d]
  <2>1. CASE SetSubscriber(c) \/ SetNormal(c)
    BY <2>1 DEF SetSubscriber, SetNormal, writers, Base, TypeOK
  <2>2. CASE SubscribeCommand(c) \/ UnsubscribeCommand(c)
    BY <2>2 DEF SubscribeCommand, UnsubscribeCommand, Command, writers
  <2> QED
    BY <2>1, <2>2 DEF ConnStep, HandlerStep, Subscribe, Unsubscribe, UnsubscribeAll, Publish, Disconnect, SubscribeAck,
          UnsubscribeAck, UnsubscribeAllAck, CloseConn, Deliver, PublishReply, writers
<1> QED
  BY <1>1, <1>2, <1>3

(* GoTo, Advance and Ready, as the connection's handler sees them.          *)
LEMMA HandlerAfter ==
    ASSUME Base, NEW c \in Conn
    PROVE  /\ \A step : GoTo(c, step) => handler'[c] = [handler[c] EXCEPT !.step = step]
           /\ \A last : Advance(c, last) =>
                \/ handler'[c] = last
                \/ handler'[c].op = handler[c].op /\ handler'[c].step = "broker" /\ handler'[c].todo = handler[c].todo
           /\ \A h : handler' = [handler EXCEPT ![c] = h] => handler'[c] = h
<1>1. handler \in [Conn -> Handler] /\ handler[c] \in Handler
  BY DEF Base, TypeOK
<1>2. ASSUME NEW last, Advance(c, last)
      PROVE  \/ handler'[c] = last
             \/ handler'[c].op = handler[c].op /\ handler'[c].step = "broker" /\ handler'[c].todo = handler[c].todo
  <2> DEFINE rest == Tail(handler[c].args)
  <2>1. \/ handler' = [handler EXCEPT ![c] = last]
        \/ handler' = [handler EXCEPT ![c] = [handler[c] EXCEPT !.args = rest, !.step = "broker"]]
    BY <1>2 DEF Advance
  <2> HIDE DEF rest
  <2>2. CASE handler' = [handler EXCEPT ![c] = last]
    BY <1>1, <2>2
  <2>3. CASE handler' = [handler EXCEPT ![c] = [handler[c] EXCEPT !.args = rest, !.step = "broker"]]
    <3>1. handler'[c] = [handler[c] EXCEPT !.args = rest, !.step = "broker"]
      BY <1>1, <2>3
    <3> QED
      BY <1>1, <3>1 DEF Handler
  <2> QED
    BY <2>1, <2>2, <2>3
<1>3. \A step : GoTo(c, step) => handler'[c] = [handler[c] EXCEPT !.step = step]
  BY <1>1 DEF GoTo
<1> QED
  BY <1>1, <1>2, <1>3

-----------------------------------------------------------------------------
(* Publishers and the subscriptions they deliver to.                        *)

(* A change of the subscriptions meets no publisher, and makes none.        *)
LEMMA NoPublisherAfter ==
    ASSUME Base, NEW c \in Conn, BrokerStep(c)
    PROVE  \A d \in Conn : handler'[d].op # "pub"
<1>1. \A d \in Conn : handler[d] \in Handler /\ handler[d].op # "pub"
  BY DEF Base, TypeOK, BrokerStep, Subscribe, Unsubscribe, UnsubscribeAll, NoReader
<1>2. \A d \in Conn \ {c} : handler'[d] = handler[d]
  BY OthersStay DEF ConnStep, HandlerStep, BrokerStep
<1>3. CASE GoTo(c, "ack")
  <2>1. handler'[c] = [handler[c] EXCEPT !.step = "ack"]
    BY <1>3, HandlerAfter
  <2>2. handler'[c].op = handler[c].op
    BY <1>1, <2>1 DEF Handler
  <2> QED
    BY <1>1, <1>2, <2>2
<1>4. CASE Unsubscribe(c)
  <2> DEFINE n == Cardinality(TopicsOf(subs', c))
  <2>1. handler' = [handler EXCEPT ![c].step = "ack", ![c].left = n]
    BY <1>4 DEF Unsubscribe
  <2> HIDE DEF n
  <2>2. handler'[c].op = handler[c].op
    BY <1>1, <2>1 DEF Base, TypeOK, Handler
  <2> QED
    BY <1>1, <1>2, <2>2
<1> QED
  BY <1>3, <1>4 DEF BrokerStep, Subscribe, UnsubscribeAll

(* Publish, deliver and the changes of the subscriptions apart, no step     *)
(* leaves its handler publishing.                                           *)
LEMMA OtherNoPublisher ==
    ASSUME Base, NEW c \in Conn, ConnStep(c), ~BrokerStep(c), ~Publish(c), ~Deliver(c)
    PROVE  handler'[c].op # "pub"
<1>1. handler \in [Conn -> Handler] /\ handler[c] \in Handler
  BY DEF Base, TypeOK
<1>2. CASE SubscribeCommand(c) \/ UnsubscribeCommand(c)
  <2>1. PICK op \in {"sub", "unsub", "unsuball"}, args \in SubArgs \cup UnsubArgs : Command(c, op, args)
    BY <1>2 DEF SubscribeCommand, UnsubscribeCommand
  <2> QED
    BY <1>1, <2>1 DEF Command, Ready
<1>3. CASE Disconnect(c) \/ CloseConn(c) \/ PublishReply(c) \/ SetSubscriber(c)
  <2> DEFINE leaving == [Ready EXCEPT !.op = "closing", !.step = "broker"]
  <2>1. leaving.op # "pub" /\ Ready.op # "pub" /\ Gone.op # "pub"
    BY DEF Ready, Gone
  <2>2. \E h \in {Ready, Gone, leaving} : handler' = [handler EXCEPT ![c] = h]
    BY <1>3 DEF Disconnect, CloseConn, PublishReply, SetSubscriber
  <2> HIDE DEF leaving
  <2> QED
    BY <1>1, <2>1, <2>2
<1>4. CASE SubscribeAck(c) \/ UnsubscribeAck(c) \/ UnsubscribeAllAck(c) \/ SetNormal(c)
  <2>1. handler[c].op # "pub"
    BY <1>4 DEF SubscribeAck, UnsubscribeAck, UnsubscribeAllAck, SetNormal, At
  <2> DEFINE last == [handler[c] EXCEPT !.step = "mode"]
  <2>2. last.op # "pub" /\ Ready.op # "pub"
    BY <1>1, <2>1 DEF Handler, Ready
  <2>3. \/ GoTo(c, "mode") \/ Advance(c, Ready) \/ Advance(c, last)
        \/ handler' = [handler EXCEPT ![c] = Ready]
    BY <1>4 DEF SubscribeAck, UnsubscribeAck, UnsubscribeAllAck, SetNormal
  <2>4. GoTo(c, "mode") => handler'[c] = last
    BY HandlerAfter
  <2> HIDE DEF last
  <2> QED
    BY <1>1, <2>1, <2>2, <2>3, <2>4, HandlerAfter
<1> QED
  BY <1>2, <1>3, <1>4 DEF ConnStep, HandlerStep, BrokerStep

(* Apart from Publish, a step that is no change of the subscriptions leaves *)
(* a publisher at most the deliveries it had.                               *)
LEMMA TodoShrinks ==
    ASSUME Base, NEW c \in Conn, ConnStep(c), ~BrokerStep(c), ~Publish(c)
    PROVE  handler'[c].op # "pub" \/ handler'[c].todo \subseteq handler[c].todo
<1>1. handler \in [Conn -> Handler] /\ handler[c] \in Handler
  BY DEF Base, TypeOK
<1>2. CASE Deliver(c)
  <2> DEFINE n(p) == IF /\ cur[p[2]] # 0 /\ Len(buf[p[2]][cur[p[2]]]) < BufSize
                        /\ p[1] = handler[c].chan \/ p[2] \notin subs[handler[c].chan]
                     THEN handler[c].left + 1 ELSE handler[c].left
  <2>1. PICK p \in handler[c].todo :
          handler' = [handler EXCEPT ![c] = [handler[c] EXCEPT !.todo = handler[c].todo \ {p}, !.args = <<p[1]>>, !.left = n(p)]]
    BY <1>2 DEF Deliver
  <2> HIDE DEF n
  <2> QED
    BY <1>1, <2>1 DEF Handler
<1> QED
  BY <1>2, OtherNoPublisher

(* What a new publisher has to deliver is what the subscriptions say.       *)
LEMMA PublishTargets ==
    ASSUME Base, NEW c \in Conn, Publish(c), NEW p \in handler'[c].todo
    PROVE  p[1] \in Topic /\ p[2] \in Conn /\ p[2] \in subs[p[1]]
<1>1. PICK ch \in Channel :
        handler' = [handler EXCEPT ![c] =
                     [op |-> "pub", args |-> <<ch>>, step |-> "none", left |-> 0, chan |-> ch, msg |-> msgs + 1,
                      todo |-> {q \in Matching(ch) \X Conn : q[2] \in subs[q[1]]}]]
  BY DEF Publish
<1>2. p \in Matching(ch) \X Conn /\ p[2] \in subs[p[1]]
  BY <1>1, HandlerAfter
<1> QED
  BY <1>2 DEF Matching, Topic

(* Every step keeps the targets of all publishers subscribed.               *)
LEMMA NextTargets ==
    Base /\ Base' /\ ChannelIffSubscribed /\ TargetsStaySubscribed /\ [Next]_vars => TargetsStaySubscribed'
<1> SUFFICES ASSUME Base, Base', ChannelIffSubscribed, TargetsStaySubscribed, [Next]_vars PROVE TargetsStaySubscribed'
  OBVIOUS
<1>1. \A d \in Conn : handler'[d].op # "pub" => handler'[d].todo = {}
  BY DEF Base, OnlyPublishers
<1>2. CASE \E c \in Conn : BrokerStep(c)
  BY <1>1, <1>2, NoPublisherAfter DEF TargetsStaySubscribed
<1>3. CASE \A c \in Conn : ~BrokerStep(c)
  <2>1. UNCHANGED <<subs, cur>>
    BY <1>3, BrokerKept
  <2>2. ASSUME NEW c \in Conn, ConnStep(c) PROVE TargetsStaySubscribed'
    <3>1. \A d \in Conn \ {c} : handler'[d] = handler[d]
      BY <2>2, OthersStay
    <3>2. CASE Publish(c)
      <4>1. \A p \in handler'[c].todo : p[2] \in subs[p[1]] /\ cur[p[2]] # 0
        BY <3>2, PublishTargets DEF ChannelIffSubscribed, TopicsOf
      <4> QED
        BY <2>1, <3>1, <4>1 DEF TargetsStaySubscribed
    <3>3. CASE ~Publish(c)
      <4>1. handler'[c].todo \subseteq handler[c].todo
        BY <1>1, <1>3, <2>2, <3>3, TodoShrinks
      <4> QED
        BY <2>1, <3>1, <4>1 DEF TargetsStaySubscribed
    <3> QED
      BY <3>2, <3>3
  <2>3. CASE UNCHANGED handler
    BY <2>1, <2>3 DEF TargetsStaySubscribed
  <2>4. ASSUME NEW c \in Conn, NEW g \in Gen, WriterStep(c, g) PROVE UNCHANGED handler
    BY <2>4 DEF WriterStep, Take, Write, Finish
  <2> QED
    BY <2>2, <2>3, <2>4 DEF Next, ConnStep, vars
<1> QED
  BY <1>2, <1>3

(* While Publish holds the read lock, everyone it still has to deliver to   *)
(* keeps its subscription and its channel.                                  *)
THEOREM TargetsSubscribed == Spec => []TargetsStaySubscribed
<1>1. Init => TargetsStaySubscribed
  BY DEF Init, TargetsStaySubscribed, Ready
<1>2. Init => ChannelIffSubscribed
  BY DEF Init, ChannelIffSubscribed, TopicsOf, Gen
<1>3. Base /\ ChannelIffSubscribed /\ TargetsStaySubscribed /\ [Next]_vars
        => (Base /\ ChannelIffSubscribed /\ TargetsStaySubscribed)'
  BY NextBase, NextChannels, NextTargets
<1> QED
  BY <1>1, <1>2, <1>3, InitBase, PTL DEF Spec

-----------------------------------------------------------------------------
(* What the reply of PUBLISH counts.                                        *)

SubsFinite    == \A t \in Topic : IsFiniteSet(subs[t])
By(ch, d)     == {t \in Matching(ch) : d \in subs[t]}
Reach(ch)     == {d \in Conn : By(ch, d) # {}}
OnePattern(ch) == \A d \in Conn : Cardinality(By(ch, d) \cap Pattern) <= 1

(* The deliveries still to be made that deliver will count.                 *)
ToCount(h)    == {p \in h.todo : p[1] = h.chan \/ p[2] \notin subs[h.chan]}

(* What is counted and what will be is no more than the connections reached.*)
CountedOnce(h) ==
    h.op = "pub" => /\ IsFiniteSet(h.todo) /\ IsFiniteSet(Reach(h.chan))
                    /\ OnePattern(h.chan) => h.left + Cardinality(ToCount(h)) <= Cardinality(Reach(h.chan))
Counting == SubsFinite /\ \A c \in Conn : CountedOnce(handler[c])

(* A step adds at most the connection to a topic's subscribers.             *)
LEMMA NextFinite == Base /\ SubsFinite /\ [Next]_vars => SubsFinite'
<1> SUFFICES ASSUME Base, SubsFinite, [Next]_vars, NEW t \in Topic PROVE IsFiniteSet(subs'[t])
  BY DEF SubsFinite
<1>1. subs \in [Topic -> SUBSET Conn] /\ IsFiniteSet(subs[t])
  BY DEF Base, TypeOK, SubsFinite
<1>2. ASSUME NEW c \in Conn, BrokerStep(c) PROVE subs'[t] \in {subs[t], subs[t] \cup {c}, subs[t] \ {c}}
  BY <1>1, <1>2 DEF BrokerStep, Subscribe, Unsubscribe, UnsubscribeAll
<1>3. ASSUME NEW c PROVE IsFiniteSet(subs[t] \cup {c}) /\ IsFiniteSet(subs[t] \ {c})
  BY <1>1, FS_AddElement, FS_RemoveElement
<1>4. CASE \E c \in Conn : BrokerStep(c)
  <2>1. PICK c \in Conn : subs'[t] \in {subs[t], subs[t] \cup {c}, subs[t] \ {c}}
    BY <1>2, <1>4
  <2>2. IsFiniteSet(subs[t] \cup {c}) /\ IsFiniteSet(subs[t] \ {c})
    BY <1>3
  <2> QED
    BY <1>1, <2>1, <2>2
<1>5. CASE \A c \in Conn : ~BrokerStep(c)
  <2>1. subs' = subs
    BY <1>5, BrokerKept
  <2> QED
    BY <1>1, <2>1
<1> QED
  BY <1>4, <1>5

(* The topics of a channel are finitely many, and so are those it reaches.  *)
LEMMA ReachFinite ==
    ASSUME Base, SubsFinite, NEW ch \in Channel
    PROVE  /\ Matching(ch) \subseteq Topic /\ IsFiniteSet(Matching(ch))
           /\ IsFiniteSet(Reach(ch)) /\ \A d : IsFiniteSet(By(ch, d))
<1>1. Matching(ch) \subseteq Topic
  BY DEF Matching, Topic
<1>2. IsFiniteSet(Matching(ch))
  BY <1>1, FiniteAssumption, FS_Subset
<1>3. \A d : IsFiniteSet(By(ch, d))
  BY <1>2, FS_Subset DEF By
<1> DEFINE Sets == {subs[t] : t \in Matching(ch)}
<1>4. IsFiniteSet(UNION Sets)
  <2>1. IsFiniteSet(Sets)
    <3> DEFINE f == [t \in Matching(ch) |-> subs[t]]
    <3>1. f \in Surjection(Matching(ch), Sets)
      BY DEF Surjection
    <3> HIDE DEF f
    <3> QED
      BY <1>2, <3>1, FS_Surjection
  <2>2. \A T \in Sets : IsFiniteSet(T)
    BY <1>1 DEF SubsFinite
  <2> HIDE DEF Sets
  <2> QED
    BY <2>1, <2>2, FS_UNION
<1>5. Reach(ch) \subseteq UNION Sets
  BY DEF Reach, By
<1>6. IsFiniteSet(Reach(ch))
  BY <1>4, <1>5, FS_Subset
<1> QED
  BY <1>1, <1>2, <1>3, <1>6

(* When Publish begins, each connection reached has at most one delivery    *)
(* that counts: the exact one, or that of its only pattern.                 *)
LEMMA PublishCounts ==
    ASSUME Base, SubsFinite, NEW ch \in Channel, NEW todo,
           todo = {p \in Matching(ch) \X Conn : p[2] \in subs[p[1]]}
    PROVE  /\ IsFiniteSet(todo) /\ IsFiniteSet(Reach(ch))
           /\ OnePattern(ch) => Cardinality({p \in todo : p[1] = ch \/ p[2] \notin subs[ch]}) <= Cardinality(Reach(ch))
<1>1. Matching(ch) \subseteq Topic /\ IsFiniteSet(Matching(ch)) /\ IsFiniteSet(Reach(ch)) /\ \A d : IsFiniteSet(By(ch, d))
  BY ReachFinite
<1>2. IsFiniteSet(todo)
  <2>1. IsFiniteSet(Matching(ch) \X Reach(ch))
    BY <1>1, FS_Product
  <2>2. todo \subseteq Matching(ch) \X Reach(ch)
    BY DEF Reach, By
  <2> QED
    BY <2>1, <2>2, FS_Subset
<1>3. ASSUME OnePattern(ch)
      PROVE  Cardinality({p \in todo : p[1] = ch \/ p[2] \notin subs[ch]}) <= Cardinality(Reach(ch))
  <2> DEFINE S == {p \in todo : p[1] = ch \/ p[2] \notin subs[ch]}
             f == [p \in S |-> p[2]]
  <2>1. f \in [S -> Reach(ch)]
    BY DEF Reach, By
  <2>2. ASSUME NEW p \in S, NEW q \in S, p[2] = q[2] PROVE p = q
    <3>1. p \in Matching(ch) \X Conn /\ q \in Matching(ch) \X Conn /\ p = <<p[1], p[2]>> /\ q = <<q[1], q[2]>>
      OBVIOUS
    <3>2. CASE p[1] = ch \/ q[1] = ch
      BY <2>2, <3>1, <3>2
    <3>3. CASE p[1] # ch /\ q[1] # ch
      <4> DEFINE B == By(ch, p[2]) \cap Pattern
      <4>1. p[1] \in B /\ q[1] \in B
        BY <2>2, <3>1, <3>3 DEF By, Matching
      <4>2. IsFiniteSet(B) /\ Cardinality(B) <= 1
        BY <1>1, <1>3, FS_Intersection DEF OnePattern
      <4> HIDE DEF B
      <4>3. Cardinality(B) \in Nat /\ Cardinality(B) # 0
        BY <4>1, <4>2, FS_CardinalityType, FS_EmptySet
      <4>4. Cardinality(B) = 1
        BY <4>2, <4>3
      <4>5. PICK x : B = {x}
        BY <4>2, <4>4, FS_Singleton
      <4> QED
        BY <2>2, <3>1, <4>1, <4>5
    <3> QED
      BY <3>2, <3>3
  <2>3. f \in Injection(S, Reach(ch))
    BY <2>1, <2>2 DEF Injection, IsInjective
  <2> HIDE DEF f
  <2> QED
    BY <1>1, <2>3, FS_Injection
<1> QED
  BY <1>1, <1>2, <1>3

(* Publish begins with nothing counted.                                     *)
LEMMA PublishCounted ==
    ASSUME Base, SubsFinite, NEW c \in Conn, Publish(c)
    PROVE  CountedOnce(handler'[c])
<1>1. PICK ch \in Channel :
        handler' = [handler EXCEPT ![c] =
                     [op |-> "pub", args |-> <<ch>>, step |-> "none", left |-> 0, chan |-> ch, msg |-> msgs + 1,
                      todo |-> {q \in Matching(ch) \X Conn : q[2] \in subs[q[1]]}]]
  BY DEF Publish
<1> DEFINE todo == {q \in Matching(ch) \X Conn : q[2] \in subs[q[1]]}
           S    == {p \in todo : p[1] = ch \/ p[2] \notin subs[ch]}
<1>2. /\ IsFiniteSet(todo) /\ IsFiniteSet(Reach(ch))
      /\ OnePattern(ch) => Cardinality(S) <= Cardinality(Reach(ch))
  BY PublishCounts
<1> HIDE DEF todo
<1>3. handler'[c].chan = ch /\ handler'[c].left = 0 /\ handler'[c].todo = todo
  BY <1>1, HandlerAfter DEF todo
<1>4. ToCount(handler'[c]) = S
  BY <1>3 DEF ToCount
<1>5. Cardinality(S) \in Nat
  BY <1>2, FS_Subset, FS_CardinalityType
<1> HIDE DEF S
<1> QED
  BY <1>2, <1>3, <1>4, <1>5 DEF CountedOnce

(* A delivery counts at most what it had to count.                          *)
LEMMA DeliverCounted ==
    ASSUME Base, NEW c \in Conn, CountedOnce(handler[c]), Deliver(c)
    PROVE  CountedOnce(handler'[c])
<1> DEFINE h == handler[c]
           sent(p) == cur[p[2]] # 0 /\ Len(buf[p[2]][cur[p[2]]]) < BufSize
           n(p) == IF sent(p) /\ (p[1] = h.chan \/ p[2] \notin subs[h.chan]) THEN h.left + 1 ELSE h.left
<1>1. PICK p \in h.todo : handler' = [handler EXCEPT ![c] = [h EXCEPT !.todo = h.todo \ {p}, !.args = <<p[1]>>, !.left = n(p)]]
  BY DEF Deliver
<1>2. h \in Handler /\ h.left \in Nat /\ h.op = "pub"
  BY DEF Base, TypeOK, Handler, Deliver
<1>3. n(p) = h.left \/ (n(p) = h.left + 1 /\ p \in ToCount(h))
  BY DEF ToCount
<1> HIDE DEF sent, n
<1> DEFINE g == handler'[c]
<1>4. g.op = "pub" /\ g.chan = h.chan /\ g.todo = h.todo \ {p} /\ g.left = n(p)
  <2>1. g = [h EXCEPT !.todo = h.todo \ {p}, !.args = <<p[1]>>, !.left = n(p)]
    BY <1>1, HandlerAfter
  <2> HIDE DEF g
  <2> QED
    BY <1>2, <2>1 DEF Handler
<1>5. ToCount(g) = ToCount(h) \ {p}
  BY <1>4 DEF ToCount
<1>6. IsFiniteSet(h.todo) /\ IsFiniteSet(Reach(h.chan)) /\ IsFiniteSet(ToCount(h)) /\ IsFiniteSet(g.todo)
  <2>1. IsFiniteSet(h.todo) /\ IsFiniteSet(Reach(h.chan))
    BY <1>2 DEF CountedOnce
  <2>2. IsFiniteSet(ToCount(h)) /\ IsFiniteSet(g.todo)
    BY <1>4, <2>1, FS_Subset, FS_RemoveElement DEF ToCount
  <2> QED
    BY <2>1, <2>2
<1>7. /\ Cardinality(ToCount(h)) \in Nat /\ Cardinality(ToCount(g)) \in Nat /\ Cardinality(Reach(h.chan)) \in Nat
      /\ Cardinality(ToCount(g)) = IF p \in ToCount(h) THEN Cardinality(ToCount(h)) - 1 ELSE Cardinality(ToCount(h))
  BY <1>5, <1>6, FS_RemoveElement, FS_CardinalityType
<1> HIDE DEF g
<1>8. n(p) + Cardinality(ToCount(g)) <= h.left + Cardinality(ToCount(h))
  BY <1>2, <1>3, <1>7
<1>9. n(p) \in Nat
  BY <1>2, <1>3
<1>10. OnePattern(h.chan) => n(p) + Cardinality(ToCount(g)) <= Cardinality(Reach(h.chan))
  <2>1. OnePattern(h.chan) => h.left + Cardinality(ToCount(h)) <= Cardinality(Reach(h.chan))
    BY <1>2 DEF CountedOnce
  <2> QED
    BY <1>2, <1>7, <1>8, <1>9, <2>1
<1>11. CountedOnce(g)
  BY <1>4, <1>6, <1>10 DEF CountedOnce
<1> QED
  BY <1>11 DEF g

(* Every step keeps the counts.                                             *)
LEMMA NextCounting == Base /\ Counting /\ [Next]_vars => Counting'
<1> SUFFICES ASSUME Base, Counting, [Next]_vars, NEW d \in Conn PROVE CountedOnce(handler[d])'
  BY NextFinite DEF Counting
<1>1. CASE \E c \in Conn : BrokerStep(c)
  BY <1>1, NoPublisherAfter DEF CountedOnce
<1>2. CASE \A c \in Conn : ~BrokerStep(c)
  <2>1. UNCHANGED subs
    BY <1>2, BrokerKept
  <2>2. CountedOnce(handler'[d])
    <3>1. ASSUME NEW c \in Conn, ConnStep(c) PROVE CountedOnce(handler'[d])
      <4>1. CASE c # d
        BY <3>1, <4>1, OthersStay DEF Counting
      <4>2. CASE c = d
        <5>1. CASE Publish(d)
          BY <5>1, PublishCounted DEF Counting
        <5>2. CASE Deliver(d)
          BY <5>2, DeliverCounted DEF Counting
        <5>3. CASE ~Publish(d) /\ ~Deliver(d)
          BY <1>2, <3>1, <4>2, <5>3, OtherNoPublisher DEF CountedOnce
        <5> QED
          BY <5>1, <5>2, <5>3
      <4> QED
        BY <4>1, <4>2
    <3>2. ASSUME NEW c \in Conn, NEW g \in Gen, WriterStep(c, g) PROVE UNCHANGED handler
      BY <3>2 DEF WriterStep, Take, Write, Finish
    <3>3. CASE UNCHANGED handler
      BY <3>3 DEF Counting
    <3> QED
      BY <3>1, <3>2, <3>3 DEF Next, ConnStep, vars
  <2> QED
    BY <2>1, <2>2 DEF CountedOnce, ToCount, Reach, By, OnePattern
<1> QED
  BY <1>1, <1>2

(* The reply of PUBLISH counts no connection twice, however subscriptions,  *)
(* other publishers and write goroutines interleave (Publish).              *)
THEOREM PublishCountsEachOnce == Spec => []PublishCountsOnce
<1>1. Init => Counting
  BY FS_EmptySet DEF Init, Counting, SubsFinite, CountedOnce, Ready
<1>2. Base /\ Counting => PublishCountsOnce
  <2> SUFFICES ASSUME Base, Counting, NEW c \in Conn, handler[c].op = "pub", OnePattern(handler[c].chan)
               PROVE  handler[c].left <= Cardinality(Reach(handler[c].chan))
    BY DEF PublishCountsOnce, OnePattern, Reach, By
  <2> DEFINE h == handler[c]
  <2>1. IsFiniteSet(ToCount(h)) /\ IsFiniteSet(Reach(h.chan))
        /\ h.left + Cardinality(ToCount(h)) <= Cardinality(Reach(h.chan))
    <3>1. IsFiniteSet(h.todo) /\ IsFiniteSet(Reach(h.chan))
          /\ h.left + Cardinality(ToCount(h)) <= Cardinality(Reach(h.chan))
      BY DEF Counting, CountedOnce
    <3> QED
      BY <3>1, FS_Subset DEF ToCount
  <2>2. Cardinality(ToCount(h)) \in Nat /\ Cardinality(Reach(h.chan)) \in Nat /\ h.left \in Nat
    BY <2>1, FS_CardinalityType DEF Base, TypeOK, Handler
  <2> HIDE DEF h
  <2> QED
    BY <2>1, <2>2 DEF h
<1> QED
  BY <1>1, <1>2, InitBase, NextBase, NextCounting, PTL DEF Spec

-----------------------------------------------------------------------------
(* Modes, channels and write goroutines.                                    *)

(* A connection that starts a command, publishes or disconnects.            *)
LEMMA StartInStep ==
    ASSUME Base, NEW c \in Conn, InStep(c), SubscribeCommand(c) \/ UnsubscribeCommand(c) \/ Publish(c) \/ Disconnect(c)
    PROVE  InStep(c)'
<1>1. handler \in [Conn -> Handler] /\ handler[c] = Ready
  BY DEF Base, TypeOK, SubscribeCommand, UnsubscribeCommand, Command, Publish, Disconnect
<1>2. Synced(c)
  BY <1>1 DEF InStep, Ready
<1>3. UNCHANGED <<cur, mode, writer>>
  BY DEF SubscribeCommand, UnsubscribeCommand, Command, Publish, Disconnect, broker, writers
<1>4. Synced(c)'
  BY <1>2, <1>3 DEF Synced, Running
<1>5. CASE SubscribeCommand(c) \/ UnsubscribeCommand(c)
  <2>1. PICK op \in {"sub", "unsub", "unsuball"}, args \in SubArgs \cup UnsubArgs : Command(c, op, args)
    BY <1>5 DEF SubscribeCommand, UnsubscribeCommand
  <2>2. handler'[c].op = op /\ handler'[c].step = "broker"
    BY <1>1, <2>1 DEF Command, Ready
  <2> QED
    BY <1>4, <2>2 DEF InStep, InSubscribe, InUnsubscribe, InLeaving, Synced
<1>6. CASE Publish(c)
  <2>1. handler'[c].op = "pub"
    BY <1>1, <1>6 DEF Publish
  <2> QED
    BY <1>4, <2>1 DEF InStep, InSubscribe, InUnsubscribe, InLeaving
<1>7. CASE Disconnect(c)
  <2>1. handler'[c].op = "closing" /\ handler'[c].step = "broker"
    BY <1>1, <1>7 DEF Disconnect, Ready
  <2> QED
    BY <2>1 DEF InStep, InSubscribe, InUnsubscribe, InLeaving
<1> QED
  BY <1>5, <1>6, <1>7

(* The broker's methods, under the connection's command.                    *)
LEMMA BrokerInStep ==
    ASSUME Base, ChannelIffSubscribed, NEW c \in Conn, InStep(c), BrokerStep(c)
    PROVE  InStep(c)'
<1>1. handler \in [Conn -> Handler] /\ handler[c] \in Handler
  BY DEF Base, TypeOK
<1>2. UNCHANGED <<mode, writer>>
  BY DEF BrokerStep, Subscribe, Unsubscribe, UnsubscribeAll, writers
<1>3. CASE Subscribe(c)
  <2>1. handler[c].op = "sub" /\ handler[c].step = "broker" /\ GoTo(c, "ack")
    BY <1>3 DEF Subscribe, At
  <2>2. handler'[c].op = "sub" /\ handler'[c].step = "ack"
    BY <1>1, <2>1 DEF GoTo, Handler
  <2>3. cur'[c] # 0
    BY <1>3, SubscribeChannels
  <2>4. cur[c] # 0 => cur' = cur
    BY <1>3 DEF Subscribe
  <2>5. mode'[c] = "subscriber" => Running(c)'
    BY <1>2, <2>1, <2>4 DEF InStep, InSubscribe, Running
  <2> QED
    BY <2>2, <2>3, <2>5 DEF InStep, InSubscribe, InUnsubscribe, InLeaving
<1>4. CASE Unsubscribe(c)
  <2> DEFINE n == Cardinality(TopicsOf(subs', c))
  <2>1. handler[c].op = "unsub" /\ handler[c].step = "broker" /\ Synced(c)
    BY <1>4 DEF Unsubscribe, At, InStep, InUnsubscribe
  <2>2. handler' = [handler EXCEPT ![c].step = "ack", ![c].left = n]
    BY <1>4 DEF Unsubscribe
  <2>3. n = 0 <=> cur'[c] = 0
    BY <1>4, UnsubscribeChannels, TopicsFinite
  <2> HIDE DEF n
  <2>4. handler'[c].op = "unsub" /\ handler'[c].step = "ack" /\ handler'[c].left = n
    BY <1>1, <2>1, <2>2 DEF Handler
  <2>5. cur'[c] # 0 => Synced(c)'
    <3>1. cur'[c] \in {0, cur[c]}
      BY <1>4, UnsubscribeChannels
    <3> QED
      BY <1>2, <2>1, <3>1 DEF Synced, Running
  <2> QED
    BY <2>3, <2>4, <2>5 DEF InStep, InSubscribe, InUnsubscribe, InLeaving
<1>5. CASE UnsubscribeAll(c)
  <2>1. handler[c].op \in {"unsuball", "closing"} /\ GoTo(c, "ack")
    BY <1>5 DEF UnsubscribeAll, At
  <2>2. handler'[c].op = handler[c].op
    BY <1>1, <2>1 DEF GoTo, Handler
  <2>3. cur'[c] = 0
    BY <1>5, UnsubscribeAllChannels
  <2> QED
    BY <2>1, <2>2, <2>3 DEF InStep, InSubscribe, InUnsubscribe, InLeaving
<1> QED
  BY <1>3, <1>4, <1>5 DEF BrokerStep

(* After a confirmation the command goes on, or ends.                       *)
LEMMA AckInStep ==
    ASSUME Base, NEW c \in Conn, InStep(c), SubscribeAck(c) \/ UnsubscribeAck(c) \/ UnsubscribeAllAck(c)
    PROVE  InStep(c)'
<1>1. handler \in [Conn -> Handler] /\ handler[c] \in Handler
  BY DEF Base, TypeOK
<1>2. UNCHANGED <<cur, mode, writer>>
  BY DEF SubscribeAck, UnsubscribeAck, UnsubscribeAllAck, broker, writers
<1>3. Synced(c) => Synced(c)'
  BY <1>2 DEF Synced, Running
<1>4. Running(c) => Running(c)'
  BY <1>2 DEF Running
<1>5. CASE SubscribeAck(c)
  <2> DEFINE last == [handler[c] EXCEPT !.step = "mode"]
  <2>1. handler[c].op = "sub" /\ handler[c].step = "ack" /\ Advance(c, last)
    BY <1>5 DEF SubscribeAck, At
  <2>2. last.op = "sub" /\ last.step = "mode"
    BY <1>1, <2>1 DEF Handler
  <2> HIDE DEF last
  <2>3. handler'[c].op = "sub" /\ handler'[c].step \in {"mode", "broker"}
    BY <2>1, <2>2, HandlerAfter
  <2>4. cur'[c] # 0 /\ (mode'[c] = "subscriber" => Running(c)')
    BY <1>2, <1>4, <2>1 DEF InStep, InSubscribe
  <2> QED
    BY <2>3, <2>4 DEF InStep, InSubscribe, InUnsubscribe, InLeaving
<1>6. CASE UnsubscribeAck(c)
  <2>1. handler[c].op = "unsub" /\ handler[c].step = "ack"
    BY <1>6 DEF UnsubscribeAck, At
  <2>2. CASE handler[c].left = 0
    <3>1. GoTo(c, "mode") /\ cur[c] = 0
      BY <1>6, <2>1, <2>2 DEF UnsubscribeAck, InStep, InUnsubscribe
    <3>2. handler'[c].op = "unsub" /\ handler'[c].step = "mode"
      BY <1>1, <2>1, <3>1 DEF GoTo, Handler
    <3> QED
      BY <1>2, <3>1, <3>2 DEF InStep, InSubscribe, InUnsubscribe, InLeaving
  <2>3. CASE handler[c].left # 0
    <3>1. Advance(c, Ready) /\ Synced(c)
      BY <1>6, <2>1, <2>3 DEF UnsubscribeAck, InStep, InUnsubscribe
    <3>2. handler'[c] = Ready \/ (handler'[c].op = "unsub" /\ handler'[c].step = "broker")
      BY <2>1, <3>1, HandlerAfter
    <3> QED
      BY <1>3, <3>1, <3>2 DEF InStep, InSubscribe, InUnsubscribe, InLeaving, Ready
  <2> QED
    BY <2>2, <2>3
<1>7. CASE UnsubscribeAllAck(c)
  <2>1. handler[c].op = "unsuball" /\ GoTo(c, "mode") /\ cur[c] = 0
    BY <1>7 DEF UnsubscribeAllAck, At, InStep, InLeaving
  <2>2. handler'[c].op = "unsuball"
    BY <1>1, <2>1 DEF GoTo, Handler
  <2> QED
    BY <1>2, <2>1, <2>2 DEF InStep, InSubscribe, InUnsubscribe, InLeaving
<1> QED
  BY <1>5, <1>6, <1>7

(* The switch of the mode brings mode, channel and write goroutine in line. *)
LEMMA ModeSwitchInStep ==
    ASSUME Base, NEW c \in Conn, InStep(c), SetSubscriber(c) \/ SetNormal(c)
    PROVE  InStep(c)'
<1>1. handler \in [Conn -> Handler] /\ handler[c] \in Handler /\ cur[c] \in Gen \cup {0}
  BY DEF Base, TypeOK
<1>2. UNCHANGED cur
  BY DEF SetSubscriber, SetNormal, broker
<1>3. CASE SetSubscriber(c)
  <2>1. cur[c] # 0 /\ (mode[c] = "subscriber" => Running(c))
    BY <1>3 DEF SetSubscriber, At, InStep, InSubscribe
  <2>2. ASSUME mode[c] # "subscriber" PROVE Synced(c)'
    <3>1. mode' = [mode EXCEPT ![c] = "subscriber"] /\ writer' = [writer EXCEPT ![c][cur[c]] = "running"]
      BY <1>3, <2>1, <2>2 DEF SetSubscriber
    <3>2. mode'[c] = "subscriber" /\ writer'[c][cur[c]] = "running"
      BY <1>1, <2>1, <3>1 DEF Base, TypeOK
    <3> QED
      BY <1>2, <2>1, <3>2 DEF Synced, Running
  <2>3. ASSUME mode[c] = "subscriber" PROVE Synced(c)'
    BY <1>2, <1>3, <2>1, <2>3 DEF SetSubscriber, Synced, Running
  <2>4. Synced(c)'
    BY <2>2, <2>3
  <2>5. handler'[c] = Ready
    BY <1>1, <1>3 DEF SetSubscriber
  <2> QED
    BY <2>4, <2>5 DEF InStep, InSubscribe, InUnsubscribe, InLeaving, Ready
<1>4. CASE SetNormal(c)
  <2>1. cur[c] = 0 /\ mode' = [mode EXCEPT ![c] = "normal"]
    BY <1>4 DEF SetNormal, At, InStep, InUnsubscribe, InLeaving
  <2>2. Synced(c)'
    BY <1>2, <2>1 DEF Synced, Base, TypeOK
  <2>3. handler'[c] = Ready \/ (handler'[c].op = "unsub" /\ handler'[c].step = "broker")
    BY <1>1, <1>4, HandlerAfter DEF SetNormal
  <2> QED
    BY <2>2, <2>3 DEF InStep, InSubscribe, InUnsubscribe, InLeaving, Ready
<1> QED
  BY <1>3, <1>4

(* Deliveries, the end of a PUBLISH and of a connection.                    *)
LEMMA EndInStep ==
    ASSUME Base, NEW c \in Conn, InStep(c), Deliver(c) \/ PublishReply(c) \/ CloseConn(c)
    PROVE  InStep(c)'
<1>1. handler \in [Conn -> Handler] /\ handler[c] \in Handler
  BY DEF Base, TypeOK
<1>2. UNCHANGED <<cur, mode, writer>>
  BY DEF Deliver, PublishReply, CloseConn, broker, writers
<1>3. CASE Deliver(c) \/ PublishReply(c)
  <2>1. handler[c].op = "pub"
    BY <1>3 DEF Deliver, PublishReply
  <2>2. Synced(c)'
    BY <1>2, <2>1 DEF InStep, Synced, Running
  <2>3. CASE Deliver(c)
    <3> DEFINE n(p) == IF /\ cur[p[2]] # 0 /\ Len(buf[p[2]][cur[p[2]]]) < BufSize
                          /\ p[1] = handler[c].chan \/ p[2] \notin subs[handler[c].chan]
                       THEN handler[c].left + 1 ELSE handler[c].left
    <3>1. PICK p \in handler[c].todo :
            handler' = [handler EXCEPT ![c] = [handler[c] EXCEPT !.todo = handler[c].todo \ {p}, !.args = <<p[1]>>, !.left = n(p)]]
      BY <2>3 DEF Deliver
    <3> HIDE DEF n
    <3>2. handler'[c].op = "pub"
      BY <1>1, <2>1, <3>1 DEF Handler
    <3> QED
      BY <2>2, <3>2 DEF InStep, InSubscribe, InUnsubscribe, InLeaving
  <2>4. CASE PublishReply(c)
    <3>1. handler'[c] = Ready
      BY <1>1, <2>4 DEF PublishReply
    <3> QED
      BY <2>2, <3>1 DEF InStep, InSubscribe, InUnsubscribe, InLeaving, Ready
  <2> QED
    BY <1>3, <2>3, <2>4
<1>4. CASE CloseConn(c)
  <2>1. cur[c] = 0
    BY <1>4 DEF CloseConn, At, InStep, InLeaving
  <2>2. handler'[c] = Gone
    BY <1>1, <1>4 DEF CloseConn
  <2>3. Gone.op = "gone"
    BY DEF Gone, Ready
  <2> QED
    BY <1>2, <2>1, <2>2, <2>3 DEF InStep, InSubscribe, InUnsubscribe, InLeaving
<1> QED
  BY <1>3, <1>4

(* A connection is only concerned by its handler, channel and mode, and by  *)
(* the write goroutine of that channel.                                     *)
LEMMA KeptInStep ==
    ASSUME NEW c \in Conn, InStep(c), handler'[c] = handler[c], cur'[c] = cur[c], mode'[c] = mode[c],
           cur[c] # 0 => writer'[c][cur[c]] = writer[c][cur[c]]
    PROVE  InStep(c)'
<1>1. (Running(c)' <=> Running(c)) /\ (Synced(c)' <=> Synced(c))
  BY DEF Running, Synced
<1> QED
  BY <1>1 DEF InStep, InSubscribe, InUnsubscribe, InLeaving

(* ModeInStep is inductive, given the invariants proved before.             *)
LEMMA NextInStep == Base /\ ChannelIffSubscribed /\ ModeInStep /\ [Next]_vars => ModeInStep'
<1> SUFFICES ASSUME Base, ChannelIffSubscribed, ModeInStep, [Next]_vars PROVE ModeInStep'
  OBVIOUS
<1>1. \A d \in Conn : InStep(d)
  BY DEF ModeInStep
<1>2. ASSUME NEW c \in Conn, ConnStep(c) PROVE ModeInStep'
  <2>1. \A d \in Conn \ {c} : InStep(d)'
    BY <1>1, <1>2, OthersStay, KeptInStep
  <2>2. InStep(c)'
    BY <1>1, <1>2, StartInStep, BrokerInStep, AckInStep, ModeSwitchInStep, EndInStep DEF ConnStep, HandlerStep, BrokerStep
  <2> QED
    BY <2>1, <2>2 DEF ModeInStep
<1>3. ASSUME NEW c \in Conn, NEW g \in Gen, WriterStep(c, g) PROVE ModeInStep'
  <2>1. UNCHANGED <<handler, cur, mode>>
    BY <1>3 DEF WriterStep, Take, Write, Finish, broker
  <2>2. UNCHANGED writer \/ (chan[c][g] = "closed" /\ writer' = [writer EXCEPT ![c][g] = "done"])
    BY <1>3 DEF WriterStep, Take, Write, Finish
  <2>3. \A d \in Conn : cur[d] # 0 => writer'[d][cur[d]] = writer[d][cur[d]]
    <3> SUFFICES ASSUME NEW d \in Conn, cur[d] # 0 PROVE writer'[d][cur[d]] = writer[d][cur[d]]
      OBVIOUS
    <3>1. cur[d] \in Gen /\ writer \in [Conn -> [Gen -> {"none", "running", "done"}]]
      BY DEF Base, TypeOK
    <3>2. chan[d][cur[d]] = "open"
      BY <3>1 DEF ChannelIffSubscribed
    <3>3. ~(d = c /\ cur[d] = g) \/ UNCHANGED writer
      BY <2>2, <3>2
    <3> QED
      BY <2>2, <3>1, <3>3
  <2> QED
    BY <1>1, <2>1, <2>3, KeptInStep DEF ModeInStep
<1>4. CASE UNCHANGED vars
  BY <1>1, <1>4, KeptInStep DEF vars, broker, writers, ModeInStep
<1> QED
  BY <1>2, <1>3, <1>4 DEF Next, ConnStep

(* Between commands a connection is in subscriber mode exactly when it has  *)
(* a delivery channel, and that channel has a running write goroutine; a    *)
(* closed connection has none.                                              *)
THEOREM ModeMatchesChannel == Spec => []ModeMatches
<1>1. Init => ChannelIffSubscribed /\ ModeInStep
  BY DEF Init, ChannelIffSubscribed, TopicsOf, Gen, ModeInStep, InStep, InSubscribe, InUnsubscribe, InLeaving, Synced, Ready
<1>2. Base /\ ChannelIffSubscribed /\ ModeInStep /\ [Next]_vars => (Base /\ ChannelIffSubscribed /\ ModeInStep)'
  BY NextBase, NextChannels, NextInStep
<1>3. ModeInStep => ModeMatches
  <2>1. Ready.op = "ready" /\ Gone.op = "gone"
    BY DEF Ready, Gone
  <2>2. ASSUME ModeInStep, NEW c \in Conn
        PROVE  (handler[c] = Ready => Synced(c)) /\ (handler[c] = Gone => cur[c] = 0)
    BY <2>1, <2>2 DEF ModeInStep, InStep
  <2> QED
    BY <2>2 DEF ModeMatches, Synced, Running
<1> QED
  BY <1>1, <1>2, <1>3, InitBase, PTL DEF Spec

-----------------------------------------------------------------------------
(* PubSub implements Broadcast.                                             *)

(* A channel that was never made has no content and no write goroutine, so  *)
(* that the line it becomes is a new one.                                   *)
UnusedEmpty ==
    \A c \in Conn, g \in Gen : chan[c][g] = "unused" => buf[c][g] = <<>> /\ pen[c][g] = <<>> /\ writer[c][g] # "running"

RefInv == Base /\ ChannelIffSubscribed /\ TargetsStaySubscribed /\ UnusedEmpty

-----------------------------------------------------------------------------
(* Channels that were never made.                                           *)

(* What a table of the broker's holds after one entry of it changes.        *)
LEMMA CellAfter ==
    ASSUME NEW V, NEW A \in [Conn -> [Gen -> V]], NEW e \in Conn, NEW l \in Gen, NEW x,
           NEW B, B = [A EXCEPT ![e][l] = x]
    PROVE  \A d \in Conn, h \in Gen : B[d][h] = IF d = e /\ h = l THEN x ELSE A[d][h]
<1> DEFINE row == [A[e] EXCEPT ![l] = x]
<1>1. B = [A EXCEPT ![e] = row]
  OBVIOUS
<1>2. \A h \in Gen : row[h] = IF h = l THEN x ELSE A[e][h]
  <2>1. A[e] \in [Gen -> V]
    OBVIOUS
  <2> QED
    BY <2>1
<1> HIDE DEF row
<1>3. \A d \in Conn : B[d] = IF d = e THEN row ELSE A[d]
  BY <1>1
<1> QED
  BY <1>2, <1>3

(* A step makes, at most, new channels; it writes to the open one of a      *)
(* subscribed connection, and starts a goroutine on that.                   *)
LEMMA UnusedStays ==
    ASSUME RefInv, [Next]_vars, NEW c \in Conn, NEW g \in Gen
    PROVE  /\ chan'[c][g] = "unused" => chan[c][g] = "unused"
           /\ chan[c][g] = "unused" => buf'[c][g] = buf[c][g]
<1>1. chan \in [Conn -> [Gen -> {"unused", "open", "closed"}]] /\ buf \in [Conn -> [Gen -> Seq(Frame)]]
      /\ cur \in [Conn -> Gen \cup {0}]
  BY DEF RefInv, Base, TypeOK
<1>2. ASSUME chan'[c][g] = "unused" PROVE chan[c][g] = "unused"
  <2>1. CASE UNCHANGED chan
    BY <1>2, <2>1
  <2>2. ASSUME NEW d \in Conn, NEW h, NEW state \in {"open", "closed"}, chan' = [chan EXCEPT ![d][h] = state]
        PROVE  chan[c][g] = "unused"
    BY <1>1, <1>2, <2>2
  <2>3. ASSUME NEW d \in Conn, CloseChan(d) PROVE chan[c][g] = "unused"
    BY <2>1, <2>2, <2>3 DEF CloseChan
  <2>4. ASSUME NEW d \in Conn, BrokerStep(d) PROVE chan[c][g] = "unused"
    BY <2>1, <2>2, <2>3, <2>4 DEF BrokerStep, Subscribe, Unsubscribe, UnsubscribeAll
  <2> QED
    BY <2>1, <2>4, BrokerKept
<1>3. ASSUME chan[c][g] = "unused" PROVE buf'[c][g] = buf[c][g]
  <2>1. ASSUME NEW d \in Conn, Deliver(d) PROVE buf'[c][g] = buf[c][g]
    <3>1. PICK p \in handler[d].todo :
            buf' = buf \/ buf' = [buf EXCEPT ![p[2]][cur[p[2]]] = Append(@, <<p[1], handler[d].msg>>)]
      BY <2>1 DEF Deliver
    <3>2. p[2] \in Conn /\ cur[p[2]] # 0
      BY DEF RefInv, Base, TypeOK, Handler, TargetsStaySubscribed
    <3>3. chan[p[2]][cur[p[2]]] = "open"
      BY <1>1, <3>2 DEF RefInv, ChannelIffSubscribed
    <3> DEFINE e   == p[2]
               h   == cur[e]
               new == Append(buf[e][h], <<p[1], handler[d].msg>>)
    <3>4. e \in Conn /\ h \in Gen
      BY <1>1, <3>2
    <3>5. chan[e][h] = "open"
      BY <3>3
    <3>6. buf' = buf \/ buf' = [buf EXCEPT ![e][h] = new]
      BY <3>1
    <3>7. buf \in [Conn -> [Gen -> Seq(Frame)]]
      BY <1>1
    <3> HIDE DEF e, h, new
    <3>8. ~(c = e /\ g = h)
      BY <1>3, <3>5
    <3>9. CASE buf' = [buf EXCEPT ![e][h] = new]
      <4>1. buf'[c][g] = IF c = e /\ g = h THEN new ELSE buf[c][g]
        BY <3>4, <3>7, <3>9, CellAfter
      <4> QED
        BY <3>8, <4>1
    <3> QED
      BY <3>6, <3>9
  <2>2. ASSUME NEW d \in Conn, NEW h \in Gen, Take(d, h) PROVE buf'[c][g] = buf[c][g]
    <3>1. buf[d][h] # <<>> /\ buf' = [buf EXCEPT ![d][h] = Tail(@)]
      BY <2>2 DEF Take
    <3>2. ~(c = d /\ g = h)
      BY <1>3, <3>1 DEF RefInv, UnusedEmpty
    <3> QED
      BY <1>1, <3>1, <3>2
  <2>3. ASSUME NEW d \in Conn, ConnStep(d), ~Deliver(d) PROVE buf' = buf
    <3>1. CASE SubscribeCommand(d) \/ UnsubscribeCommand(d)
      BY <3>1 DEF SubscribeCommand, UnsubscribeCommand, Command, queues
    <3> QED
      BY <2>3, <3>1 DEF ConnStep, HandlerStep, Subscribe, Unsubscribe, UnsubscribeAll, Publish, Disconnect, SubscribeAck,
            UnsubscribeAck, UnsubscribeAllAck, SetSubscriber, SetNormal, CloseConn, PublishReply, queues
  <2>4. ASSUME NEW d \in Conn, NEW h \in Gen, Write(d, h) \/ Finish(d, h) PROVE buf' = buf
    BY <2>4 DEF Write, Finish, queues
  <2> QED
    BY <2>1, <2>2, <2>3, <2>4 DEF Next, ConnStep, WriterStep, vars, queues
<1> QED
  BY <1>2, <1>3

(* A write goroutine holds a message only if it has a channel, and starts   *)
(* only on one.                                                             *)
LEMMA UnusedWriter ==
    ASSUME RefInv, [Next]_vars, NEW c \in Conn, NEW g \in Gen, chan[c][g] = "unused"
    PROVE  pen'[c][g] = <<>> /\ writer'[c][g] # "running"
<1>1. writer \in [Conn -> [Gen -> {"none", "running", "done"}]] /\ pen \in [Conn -> [Gen -> Seq(Frame)]]
      /\ cur \in [Conn -> Gen \cup {0}]
  BY DEF RefInv, Base, TypeOK
<1>2. pen[c][g] = <<>> /\ writer[c][g] # "running"
  BY DEF RefInv, UnusedEmpty
<1>3. ASSUME NEW d \in Conn, SetSubscriber(d) PROVE writer'[c][g] # "running" /\ pen' = pen
  <2>1. UNCHANGED writer \/ (cur[d] # 0 /\ writer' = [writer EXCEPT ![d][cur[d]] = "running"])
    BY <1>3 DEF SetSubscriber
  <2>2. cur[d] # 0 => chan[d][cur[d]] = "open"
    BY <1>1 DEF RefInv, ChannelIffSubscribed
  <2>3. writer'[c][g] # "running"
    <3> DEFINE h == cur[d]
    <3>1. UNCHANGED writer \/ (h \in Gen /\ chan[d][h] = "open" /\ writer' = [writer EXCEPT ![d][h] = "running"])
      BY <1>1, <2>1, <2>2
    <3> HIDE DEF h
    <3>2. CASE h \in Gen /\ chan[d][h] = "open" /\ writer' = [writer EXCEPT ![d][h] = "running"]
      <4>1. ~(c = d /\ g = h)
        BY <3>2
      <4>2. writer'[c][g] = IF c = d /\ g = h THEN "running" ELSE writer[c][g]
        BY <1>1, <3>2, CellAfter
      <4> QED
        BY <1>2, <4>1, <4>2
    <3> QED
      BY <1>2, <3>1, <3>2
  <2> QED
    BY <1>3, <2>3 DEF SetSubscriber
<1>4. ASSUME NEW d \in Conn, ConnStep(d), ~SetSubscriber(d) PROVE UNCHANGED <<writer, pen>>
  <2>1. CASE SubscribeCommand(d) \/ UnsubscribeCommand(d)
    BY <2>1 DEF SubscribeCommand, UnsubscribeCommand, Command, writers
  <2> QED
    BY <1>4, <2>1 DEF ConnStep, HandlerStep, Subscribe, Unsubscribe, UnsubscribeAll, Publish, Disconnect, SubscribeAck,
          UnsubscribeAck, UnsubscribeAllAck, SetNormal, CloseConn, Deliver, PublishReply, writers
<1>5. ASSUME NEW d \in Conn, NEW h \in Gen, WriterStep(d, h) PROVE pen'[c][g] = <<>> /\ writer'[c][g] # "running"
  <2>1. CASE Take(d, h)
    BY <1>1, <1>2, <2>1 DEF Take
  <2>2. CASE Write(d, h)
    BY <1>1, <1>2, <2>2 DEF Write
  <2>3. CASE Finish(d, h)
    BY <1>1, <1>2, <2>3 DEF Finish
  <2> QED
    BY <1>5, <2>1, <2>2, <2>3 DEF WriterStep
<1> QED
  BY <1>2, <1>3, <1>4, <1>5 DEF Next, ConnStep, vars, writers

(* The invariants the mapping needs hold after every step,                  *)
LEMMA NextRefInv == RefInv /\ [Next]_vars => RefInv'
<1> SUFFICES ASSUME RefInv, [Next]_vars PROVE RefInv'
  OBVIOUS
<1>1. Base' /\ ChannelIffSubscribed' /\ TargetsStaySubscribed'
  BY NextBase, NextChannels, NextTargets DEF RefInv
<1>2. ASSUME NEW c \in Conn, NEW g \in Gen, chan'[c][g] = "unused"
      PROVE  buf'[c][g] = <<>> /\ pen'[c][g] = <<>> /\ writer'[c][g] # "running"
  <2>1. chan[c][g] = "unused" /\ buf'[c][g] = buf[c][g]
    BY <1>2, UnusedStays
  <2> QED
    BY <2>1, UnusedWriter DEF RefInv, UnusedEmpty
<1> QED
  BY <1>1, <1>2 DEF RefInv, UnusedEmpty

(* and at first.                                                            *)
LEMMA InitRefInv == Init => RefInv
<1>1. Init => ChannelIffSubscribed
  BY DEF Init, ChannelIffSubscribed, TopicsOf, Gen
<1>2. Init => TargetsStaySubscribed
  BY DEF Init, TargetsStaySubscribed, Ready
<1>3. Init => UnusedEmpty
  BY DEF Init, UnusedEmpty
<1> QED
  BY <1>1, <1>2, <1>3, InitBase DEF RefInv

-----------------------------------------------------------------------------
(* The mapping.                                                             *)

(* Nobody is subscribed and nothing waits at first.                         *)
LEMMA InitMaps == Init => Abstract!Init
<1> SUFFICES ASSUME Init PROVE Abstract!Init
  OBVIOUS
<1>1. Waiting = [c \in Conn |-> [l \in Gen |-> <<>>]]
  BY DEF Init, Waiting
<1>2. Pending = [p \in Conn |-> {}]
  BY DEF Init, Pending, Ready
<1> QED
  BY <1>1, <1>2 DEF Init, Abstract!Init

(* A handler without deliveries, before and after its step, has none        *)
(* pending, and nobody else's change.                                       *)
LEMMA PendingStays ==
    ASSUME NEW c \in Conn, handler[c].todo = {}, handler'[c].todo = {},
           \A d \in Conn \ {c} : handler'[d] = handler[d]
    PROVE  Pending' = Pending
<1>1. ASSUME NEW d \in Conn
      PROVE  {<<p[1], p[2], handler'[d].msg>> : p \in handler'[d].todo} = {<<p[1], p[2], handler[d].msg>> : p \in handler[d].todo}
  <2>1. CASE d = c
    BY <2>1
  <2>2. CASE d # c
    BY <2>2
  <2> QED
    BY <2>1, <2>2
<1> QED
  BY <1>1 DEF Pending

(* While the broker's write lock is held nothing is pending.                *)
LEMMA BrokerQuiet ==
    ASSUME RefInv, RefInv', NEW c \in Conn, BrokerStep(c)
    PROVE  Abstract!Quiet /\ Pending' = Pending /\ Waiting' = Waiting
<1>1. \A d \in Conn : handler[d].todo = {} /\ handler'[d].todo = {}
  <2>1. \A d \in Conn : handler[d].op # "pub"
    BY DEF BrokerStep, Subscribe, Unsubscribe, UnsubscribeAll, NoReader
  <2>2. \A d \in Conn : handler'[d].op # "pub"
    BY NoPublisherAfter DEF RefInv
  <2> QED
    BY <2>1, <2>2 DEF RefInv, Base, OnlyPublishers
<1>2. Pending = [d \in Conn |-> {}] /\ Pending' = [d \in Conn |-> {}]
  BY <1>1 DEF Pending
<1>3. UNCHANGED <<buf, pen>>
  BY DEF BrokerStep, Subscribe, Unsubscribe, UnsubscribeAll, writers
<1> QED
  BY <1>2, <1>3 DEF Abstract!Quiet, Waiting

(* Subscribe is Join; the line of a new channel is empty.                   *)
LEMMA SubscribeMaps ==
    ASSUME RefInv, RefInv', NEW c \in Conn, Subscribe(c)
    PROVE  Abstract!Join(c, Arg(c)) /\ Arg(c) \in Topic
<1>1. Abstract!Quiet /\ Pending' = Pending /\ Waiting' = Waiting
  BY BrokerQuiet DEF BrokerStep
<1>2. Arg(c) \in Topic
  BY HeadTail DEF Subscribe, At, Arg, RefInv, Base, TypeOK, ArgsLeft, Handler
<1>3. ASSUME cur[c] = 0 PROVE \E l \in Gen : Waiting[c][l] = <<>> /\ cur' = [cur EXCEPT ![c] = l]
  <2>1. PICK g \in Gen : chan[c][g] = "unused" /\ cur' = [cur EXCEPT ![c] = g]
    BY <1>3 DEF Subscribe
  <2>2. buf[c][g] = <<>> /\ pen[c][g] = <<>>
    BY <2>1 DEF RefInv, UnusedEmpty
  <2>3. Waiting[c][g] = <<>>
    <3>1. <<>> \o <<>> = <<>>
      OBVIOUS
    <3> QED
      BY <2>2, <3>1 DEF Waiting
  <2> QED
    BY <2>1, <2>3
<1>4. cur[c] # 0 => cur' = cur
  BY DEF Subscribe
<1>5. subs' = [subs EXCEPT ![Arg(c)] = @ \cup {c}]
  BY DEF Subscribe
<1> QED
  BY <1>1, <1>2, <1>3, <1>4, <1>5 DEF Abstract!Join

(* CloseChan takes the line of a connection that has no topic left.         *)
LEMMA CloseChanLine ==
    ASSUME RefInv, NEW c \in Conn, CloseChan(c)
    PROVE  cur' = [cur EXCEPT ![c] = 0]
<1>1. cur \in [Conn -> Gen \cup {0}]
  BY DEF RefInv, Base, TypeOK
<1> QED
  BY <1>1 DEF CloseChan

(* Unsubscribe is Leave with one topic.                                     *)
LEMMA UnsubscribeMaps ==
    ASSUME RefInv, RefInv', NEW c \in Conn, Unsubscribe(c)
    PROVE  Abstract!Leave(c, {Arg(c)}) /\ Arg(c) \in Topic
<1>1. Abstract!Quiet /\ Pending' = Pending /\ Waiting' = Waiting
  BY BrokerQuiet DEF BrokerStep
<1>2. Arg(c) \in Topic
  BY HeadTail DEF Unsubscribe, At, Arg, RefInv, Base, TypeOK, ArgsLeft, Handler
<1>3. subs \in [Topic -> SUBSET Conn]
  BY DEF RefInv, Base, TypeOK
<1>4. subs' = [t \in Topic |-> IF t \in {Arg(c)} THEN subs[t] \ {c} ELSE subs[t]]
  BY <1>2, <1>3 DEF Unsubscribe
<1>5. cur' = IF \A t \in Topic : c \notin subs'[t] THEN [cur EXCEPT ![c] = 0] ELSE cur
  <2>1. TopicsOf(subs', c) = {} <=> \A t \in Topic : c \notin subs'[t]
    BY DEF TopicsOf
  <2>2. IF TopicsOf(subs', c) = {} THEN CloseChan(c) ELSE UNCHANGED <<cur, chan>>
    BY DEF Unsubscribe
  <2> QED
    BY <2>1, <2>2, CloseChanLine
<1> QED
  BY <1>1, <1>2, <1>4, <1>5 DEF Abstract!Leave

(* UnsubscribeAll is Leave with all topics.                                 *)
LEMMA UnsubscribeAllMaps ==
    ASSUME RefInv, RefInv', NEW c \in Conn, UnsubscribeAll(c)
    PROVE  Abstract!Leave(c, Topic)
<1>1. Abstract!Quiet /\ Pending' = Pending /\ Waiting' = Waiting
  BY BrokerQuiet DEF BrokerStep
<1>2. subs' = [t \in Topic |-> IF t \in Topic THEN subs[t] \ {c} ELSE subs[t]]
  BY DEF UnsubscribeAll
<1>3. \A t \in Topic : c \notin subs'[t]
  BY <1>2
<1>4. cur' = [cur EXCEPT ![c] = 0]
  BY CloseChanLine DEF UnsubscribeAll
<1> QED
  BY <1>1, <1>2, <1>3, <1>4 DEF Abstract!Leave

(* Publish has pending what the subscriptions say.                          *)
LEMMA PublishMaps ==
    ASSUME RefInv, NEW c \in Conn, Publish(c)
    PROVE  \E ch \in Channel, m \in 0 .. MaxMsgs : Abstract!Publish(c, ch, m)
<1> DEFINE targets(ch) == {p \in Matching(ch) \X Conn : p[2] \in subs[p[1]]}
           h(ch) == [op |-> "pub", args |-> <<ch>>, step |-> "none", left |-> 0, chan |-> ch, msg |-> msgs + 1,
                     todo |-> targets(ch)]
<1>1. PICK ch \in Channel : handler' = [handler EXCEPT ![c] = h(ch)]
  BY DEF Publish
<1>2. handler \in [Conn -> Handler] /\ msgs + 1 \in 0 .. MaxMsgs /\ handler[c] = Ready
  BY BoundsAssumption DEF Publish, RefInv, Base, TypeOK
<1>3. Pending[c] = {}
  BY <1>2 DEF Pending, Ready
<1>4. {<<p[1], p[2], msgs + 1>> : p \in targets(ch)}
         = {d \in Matching(ch) \X Conn \X {msgs + 1} : d[2] \in subs[d[1]]}
  <2> DEFINE M == Matching(ch)
             m == msgs + 1
  <2> HIDE DEF M, m
  <2>1. ASSUME NEW d \in M \X Conn \X {m}, d[2] \in subs[d[1]]
        PROVE  \E p \in M \X Conn : p[2] \in subs[p[1]] /\ d = <<p[1], p[2], m>>
    <3>1. <<d[1], d[2]>> \in M \X Conn /\ d = <<d[1], d[2], m>>
      OBVIOUS
    <3> QED
      BY <2>1, <3>1
  <2>2. ASSUME NEW p \in M \X Conn, p[2] \in subs[p[1]]
        PROVE  <<p[1], p[2], m>> \in {d \in M \X Conn \X {m} : d[2] \in subs[d[1]]}
    BY <2>2
  <2>3. {<<p[1], p[2], m>> : p \in {q \in M \X Conn : q[2] \in subs[q[1]]}} = {d \in M \X Conn \X {m} : d[2] \in subs[d[1]]}
    <3> DEFINE S == {<<p[1], p[2], m>> : p \in {q \in M \X Conn : q[2] \in subs[q[1]]}}
               T == {d \in M \X Conn \X {m} : d[2] \in subs[d[1]]}
    <3>1. ASSUME NEW x \in S PROVE x \in T
      <4>1. PICK p \in {q \in M \X Conn : q[2] \in subs[q[1]]} : x = <<p[1], p[2], m>>
        OBVIOUS
      <4>2. p \in M \X Conn /\ p[2] \in subs[p[1]]
        OBVIOUS
      <4> HIDE DEF T
      <4>3. <<p[1], p[2], m>> \in T
        BY <2>2, <4>2 DEF T
      <4> QED
        BY <4>1, <4>3
    <3>2. ASSUME NEW x \in T PROVE x \in S
      <4>1. x \in M \X Conn \X {m} /\ x[2] \in subs[x[1]]
        OBVIOUS
      <4>2. PICK p \in M \X Conn : p[2] \in subs[p[1]] /\ x = <<p[1], p[2], m>>
        BY <2>1, <4>1
      <4>3. p \in {q \in M \X Conn : q[2] \in subs[q[1]]}
        BY <4>2
      <4> QED
        BY <4>2, <4>3
    <3> HIDE DEF S, T
    <3>3. S = T
      BY <3>1, <3>2
    <3> QED
      BY <3>3 DEF S, T
  <2> QED
    BY <2>3 DEF M, m
<1>5. \A d \in Conn : handler'[d] = IF d = c THEN h(ch) ELSE handler[d]
  BY <1>1, <1>2
<1>6. h(ch).msg = msgs + 1 /\ h(ch).todo = targets(ch)
  OBVIOUS
<1> DEFINE due == {d \in Matching(ch) \X Conn \X {msgs + 1} : d[2] \in subs[d[1]]}
<1>7. Pending' = [Pending EXCEPT ![c] = due]
  <2>1. ASSUME NEW d \in Conn
        PROVE  {<<p[1], p[2], handler'[d].msg>> : p \in handler'[d].todo} = IF d = c THEN due ELSE Pending[d]
    <3>1. CASE d = c
      <4> HIDE DEF targets, h
      <4>1. handler'[d] = h(ch)
        BY <1>5, <3>1
      <4> QED
        BY <1>4, <1>6, <3>1, <4>1
    <3>2. CASE d # c
      <4> HIDE DEF h, due
      <4> QED
        BY <1>5, <3>2 DEF Pending
    <3> QED
      BY <3>1, <3>2
  <2> HIDE DEF due
  <2> QED
    BY <2>1 DEF Pending
<1>8. UNCHANGED <<subs, cur, Waiting>>
  BY DEF Publish, broker, queues, writers, Waiting
<1> QED
  BY <1>2, <1>3, <1>7, <1>8 DEF Abstract!Publish

-----------------------------------------------------------------------------
(* Deliveries.                                                              *)

(* A step that changes one line of messages, and no other.                  *)
OneLine(e, l, w) == \A d \in Conn, h \in Gen :
    pen'[d][h] \o buf'[d][h] = IF d = e /\ h = l THEN w ELSE pen[d][h] \o buf[d][h]

(* The lines of messages, when one line changes.                            *)
LEMMA WaitingAfter ==
    ASSUME NEW e \in Conn, NEW l \in Gen, NEW w, OneLine(e, l, w)
    PROVE  Waiting' = [Waiting EXCEPT ![e][l] = w]
<1> DEFINE row == [Waiting[e] EXCEPT ![l] = w]
<1>1. row = [h \in Gen |-> IF h = l THEN w ELSE pen[e][h] \o buf[e][h]]
  BY DEF Waiting
<1>2. Waiting' = [d \in Conn |-> [h \in Gen |-> pen'[d][h] \o buf'[d][h]]]
  BY DEF Waiting
<1> HIDE DEF row
<1>3. ASSUME NEW d \in Conn
      PROVE  [h \in Gen |-> pen'[d][h] \o buf'[d][h]] = IF d = e THEN row ELSE Waiting[d]
  <2>1. CASE d = e
    BY <1>1, <2>1 DEF OneLine
  <2>2. CASE d # e
    <3>1. Waiting[d] = [h \in Gen |-> pen[d][h] \o buf[d][h]]
      BY DEF Waiting
    <3> QED
      BY <2>2, <3>1 DEF OneLine
  <2> QED
    BY <2>1, <2>2
<1>4. Waiting' = [d \in Conn |-> IF d = e THEN row ELSE Waiting[d]]
  BY <1>2, <1>3
<1>5. Waiting = [d \in Conn |-> Waiting[d]]
  BY DEF Waiting
<1>6. Waiting' = [Waiting EXCEPT ![e] = row]
  BY <1>4, <1>5
<1> QED
  BY <1>6 DEF row

(* A delivery, made or dropped, is no longer pending.                       *)
LEMMA DeliverPending ==
    ASSUME RefInv, NEW c \in Conn, NEW p \in handler[c].todo, NEW args, NEW n,
           handler' = [handler EXCEPT ![c] = [handler[c] EXCEPT !.todo = handler[c].todo \ {p}, !.args = args, !.left = n]]
    PROVE  LET d == <<p[1], p[2], handler[c].msg>>
           IN  d \in Pending[c] /\ Pending' = [Pending EXCEPT ![c] = @ \ {d}]
<1> DEFINE d == <<p[1], p[2], handler[c].msg>>
           h == [handler[c] EXCEPT !.todo = handler[c].todo \ {p}, !.args = args, !.left = n]
<1>1. handler \in [Conn -> Handler] /\ handler[c] \in Handler
  BY DEF RefInv, Base, TypeOK
<1>2. h.todo = handler[c].todo \ {p} /\ h.msg = handler[c].msg
  BY <1>1 DEF Handler
<1>3. \A q \in handler[c].todo : q = <<q[1], q[2]>>
  BY <1>1 DEF Handler
<1>4. {<<q[1], q[2], handler[c].msg>> : q \in handler[c].todo \ {p}}
        = {<<q[1], q[2], handler[c].msg>> : q \in handler[c].todo} \ {d}
  BY <1>3
<1>5. \A e \in Conn : handler'[e] = IF e = c THEN h ELSE handler[e]
  BY <1>1
<1> HIDE DEF h
<1>6. d \in Pending[c]
  BY DEF Pending
<1>7. ASSUME NEW e \in Conn
      PROVE  {<<q[1], q[2], handler'[e].msg>> : q \in handler'[e].todo}
               = IF e = c THEN Pending[c] \ {d} ELSE Pending[e]
  <2>1. CASE e = c
    BY <1>2, <1>4, <1>5, <2>1 DEF Pending
  <2>2. CASE e # c
    BY <1>5, <2>2 DEF Pending
  <2> QED
    BY <2>1, <2>2
<1> HIDE DEF d
<1>8. Pending' = [Pending EXCEPT ![c] = Pending[c] \ {d}]
  BY <1>7 DEF Pending
<1> QED
  BY <1>6, <1>8 DEF d

(* deliver serves, or passes over for a full buffer.                        *)
LEMMA DeliverMaps ==
    ASSUME RefInv, NEW c \in Conn, Deliver(c)
    PROVE  \E d \in Pending[c] : Abstract!Serve(c, d) \/ Abstract!PassOver(c, d)
<1> DEFINE sent(p) == cur[p[2]] # 0 /\ Len(buf[p[2]][cur[p[2]]]) < BufSize
           left(p) == IF sent(p) /\ (p[1] = handler[c].chan \/ p[2] \notin subs[handler[c].chan])
                      THEN handler[c].left + 1 ELSE handler[c].left
<1>1. PICK p \in handler[c].todo :
        /\ buf' = IF sent(p) THEN [buf EXCEPT ![p[2]][cur[p[2]]] = Append(@, <<p[1], handler[c].msg>>)] ELSE buf
        /\ handler' = [handler EXCEPT ![c] =
               [handler[c] EXCEPT !.todo = handler[c].todo \ {p}, !.args = <<p[1]>>, !.left = left(p)]]
  BY DEF Deliver
<1> DEFINE d == <<p[1], p[2], handler[c].msg>>
<1>2. d \in Pending[c] /\ Pending' = [Pending EXCEPT ![c] = @ \ {d}]
  <2> HIDE DEF sent, left
  <2> QED
    BY <1>1, DeliverPending
<1>3. UNCHANGED <<subs, cur, pen>>
  BY DEF Deliver, broker, writers
<1> DEFINE e == p[2]
           l == cur[e]
<1>4. e \in Conn /\ l \in Gen /\ d[1] = p[1] /\ d[2] = e /\ d[3] = handler[c].msg
  BY DEF RefInv, Base, TypeOK, Handler, TargetsStaySubscribed
<1>5. /\ buf \in [Conn -> [Gen -> Seq(Frame)]] /\ pen \in [Conn -> [Gen -> Seq(Frame)]]
      /\ Waiting[e][l] = pen[e][l] \o buf[e][l]
  BY <1>4 DEF RefInv, Base, TypeOK, Waiting
<1> HIDE DEF d, e, l
<1>6. CASE sent(p)
  <2> DEFINE f == <<p[1], handler[c].msg>>
  <2>1. buf' = [buf EXCEPT ![e][l] = Append(@, f)]
    BY <1>1, <1>6 DEF e, l
  <2> HIDE DEF f
  <2>2. pen[e][l] \o Append(buf[e][l], f) = Append(Waiting[e][l], f)
    <3>1. f \in Frame
      <4>1. handler[c] \in Handler
        BY DEF RefInv, Base, TypeOK
      <4> QED
        BY <4>1 DEF f, Frame, Handler
    <3>2. pen[e][l] \in Seq(Frame) /\ buf[e][l] \in Seq(Frame)
      BY <1>4, <1>5
    <3> DEFINE x == pen[e][l]
               y == buf[e][l]
    <3> HIDE DEF x, y
    <3> SUFFICES ASSUME x \in Seq(Frame), y \in Seq(Frame) PROVE x \o Append(y, f) = Append(x \o y, f)
      BY <1>5, <3>2 DEF x, y
    <3>3. Append(y, f) = y \o <<f>> /\ Append(x \o y, f) = (x \o y) \o <<f>>
      BY <3>1, AppendIsConcat, ConcatProperties
    <3>4. <<f>> \in Seq(Frame)
      BY <3>1
    <3> QED
      BY <3>3, <3>4, ConcatAssociative
  <2>3. Waiting' = [Waiting EXCEPT ![e][l] = Append(@, f)]
    <3> DEFINE w == Append(Waiting[e][l], f)
    <3>1. pen' = pen /\ e \in Conn /\ l \in Gen /\ pen[e][l] \o Append(buf[e][l], f) = w
      BY <1>3, <1>4, <2>2
    <3> HIDE DEF w
    <3>2. ASSUME NEW a \in Conn, NEW h \in Gen
          PROVE  pen'[a][h] \o buf'[a][h] = IF a = e /\ h = l THEN w ELSE pen[a][h] \o buf[a][h]
      <4>1. buf'[a][h] = IF a = e /\ h = l THEN Append(buf[e][l], f) ELSE buf[a][h]
        <5> DEFINE x == Append(buf[e][l], f)
        <5>1. buf \in [Conn -> [Gen -> Seq(Frame)]] /\ buf' = [buf EXCEPT ![e][l] = x]
          BY <1>5, <2>1
        <5> HIDE DEF x
        <5>2. buf'[a][h] = IF a = e /\ h = l THEN x ELSE buf[a][h]
          BY <3>1, <5>1, CellAfter
        <5> QED
          BY <5>2 DEF x
      <4> QED
        BY <3>1, <4>1
    <3>3. OneLine(e, l, w)
      BY <3>2 DEF OneLine
    <3>4. Waiting' = [Waiting EXCEPT ![e][l] = w]
      BY <3>1, <3>3, WaitingAfter
    <3> QED
      BY <3>4 DEF w
  <2>4. f = <<d[1], d[3]>> /\ l = cur[d[2]]
    BY <1>4 DEF f, l
  <2> QED
    BY <1>2, <1>3, <1>4, <2>3, <2>4 DEF Abstract!Serve
<1>7. CASE ~sent(p)
  <2>1. buf' = buf
    BY <1>1, <1>7
  <2>2. Waiting' = Waiting
    BY <1>3, <2>1 DEF Waiting
  <2>3. buf[e][l] \in Seq(Frame) /\ pen[e][l] \in Seq(Frame)
    BY <1>4, <1>5
  <2>5. ~(Len(buf[e][l]) < BufSize)
    BY <1>4, <1>7, BoundsAssumption DEF e, l, Gen
  <2>4. Len(Waiting[e][l]) >= BufSize
    <3> DEFINE x == pen[e][l]
               y == buf[e][l]
    <3>1. x \in Seq(Frame) /\ y \in Seq(Frame) /\ Waiting[e][l] = x \o y /\ ~(Len(y) < BufSize)
      BY <1>5, <2>3, <2>5
    <3> HIDE DEF x, y
    <3>2. Len(x \o y) = Len(x) + Len(y) /\ Len(x) \in Nat /\ Len(y) \in Nat
      BY <3>1, ConcatProperties, LenProperties
    <3> QED
      BY <3>1, <3>2, BoundsAssumption
  <2> QED
    BY <1>2, <1>3, <1>4, <2>2, <2>4 DEF Abstract!PassOver, l
<1> QED
  BY <1>6, <1>7

-----------------------------------------------------------------------------
(* A sequence of at most one element, and not empty, is that element.       *)
LEMMA OneElement ==
    ASSUME NEW S, NEW x \in Seq(S), x # <<>>, Len(x) <= 1
    PROVE  \E m \in S : x = <<m>>
<1>1. Len(x) = 1
  <2>1. Len(x) \in Nat \ {0}
    BY EmptySeq
  <2> QED
    BY <2>1
<1>2. PICK m \in S : x[1] = m
  BY <1>1
<1> DEFINE y == <<m>>
<1>3. y \in Seq(S) /\ Len(y) = 1 /\ y[1] = m
  OBVIOUS
<1> HIDE DEF y
<1>4. \A i \in 1 .. Len(x) : x[i] = y[i]
  BY <1>1, <1>2, <1>3
<1>5. x = y
  BY <1>1, <1>3, <1>4, SeqEqual
<1> QED
  BY <1>5 DEF y

-----------------------------------------------------------------------------
(* Write goroutines.                                                        *)

(* Take moves a message within the line, Write takes the first one out.     *)
LEMMA WriterMaps ==
    ASSUME RefInv, NEW c \in Conn, NEW g \in Gen, WriterStep(c, g)
    PROVE  Abstract!Arrive(c, g) \/ UNCHANGED Abstract!vars
<1>1. buf \in [Conn -> [Gen -> Seq(Frame)]] /\ pen \in [Conn -> [Gen -> Seq(Frame)]] /\ Len(pen[c][g]) <= 1
  BY DEF RefInv, Base, TypeOK
<1>2. UNCHANGED <<subs, cur, Pending>>
  BY DEF WriterStep, Take, Write, Finish, broker, Pending
<1>3. CASE Take(c, g)
  <2>1. /\ pen[c][g] = <<>> /\ buf[c][g] # <<>>
        /\ pen' = [pen EXCEPT ![c][g] = <<Head(buf[c][g])>>] /\ buf' = [buf EXCEPT ![c][g] = Tail(@)]
    BY <1>3 DEF Take
  <2>2. <<Head(buf[c][g])>> \o Tail(buf[c][g]) = pen[c][g] \o buf[c][g]
    BY <1>1, <2>1
  <2>3. ASSUME NEW d \in Conn, NEW h \in Gen PROVE pen'[d][h] \o buf'[d][h] = pen[d][h] \o buf[d][h]
    BY <1>1, <2>1, <2>2
  <2>4. Waiting' = Waiting
    BY <2>3 DEF Waiting
  <2> QED
    BY <1>2, <2>4 DEF Abstract!vars
<1>4. CASE Write(c, g)
  <2>1. pen[c][g] # <<>> /\ pen' = [pen EXCEPT ![c][g] = <<>>] /\ buf' = buf
    BY <1>4 DEF Write, queues
  <2>2. pen[c][g] \o buf[c][g] # <<>> /\ Tail(pen[c][g] \o buf[c][g]) = <<>> \o buf[c][g]
    <3>1. PICK m \in Frame : pen[c][g] = <<m>>
      BY <1>1, <2>1, OneElement
    <3>2. <<m>> \o buf[c][g] \in Seq(Frame) /\ Len(<<m>> \o buf[c][g]) = 1 + Len(buf[c][g])
      BY <1>1
    <3>3. Tail(<<m>> \o buf[c][g]) = buf[c][g]
      BY <1>1, <3>2
    <3> QED
      BY <1>1, <3>1, <3>2, <3>3
  <2>3. ASSUME NEW d \in Conn, NEW h \in Gen
        PROVE  pen'[d][h] \o buf'[d][h] = IF d = c /\ h = g THEN Tail(pen[c][g] \o buf[c][g]) ELSE pen[d][h] \o buf[d][h]
    BY <1>1, <2>1, <2>2
  <2>4. Waiting' = [Waiting EXCEPT ![c][g] = Tail(pen[c][g] \o buf[c][g])]
    <3>1. OneLine(c, g, Tail(pen[c][g] \o buf[c][g]))
      BY <2>3 DEF OneLine
    <3> DEFINE w == Tail(pen[c][g] \o buf[c][g])
    <3>2. OneLine(c, g, w) /\ g \in Gen
      BY <3>1
    <3> HIDE DEF w
    <3>3. Waiting' = [Waiting EXCEPT ![c][g] = w]
      BY <3>2, WaitingAfter
    <3> QED
      BY <3>3 DEF w
  <2>5. Waiting[c][g] = pen[c][g] \o buf[c][g]
    BY DEF Waiting
  <2>6. Waiting' = [Waiting EXCEPT ![c][g] = Tail(@)] /\ Waiting[c][g] # <<>>
    BY <2>2, <2>4, <2>5
  <2> QED
    BY <1>2, <2>6 DEF Abstract!Arrive
<1>5. CASE Finish(c, g)
  BY <1>2, <1>5 DEF Finish, queues, Abstract!vars, Waiting
<1> QED
  BY <1>3, <1>4, <1>5 DEF WriterStep

-----------------------------------------------------------------------------
(* All other steps of a handler are invisible.                              *)
LEMMA OtherStutters ==
    ASSUME RefInv, RefInv', NEW c \in Conn, ConnStep(c), ~BrokerStep(c), ~Publish(c), ~Deliver(c)
    PROVE  UNCHANGED Abstract!vars
<1>1. handler[c].todo = {}
  <2>1. CASE PublishReply(c)
    BY <2>1 DEF PublishReply
  <2>2. CASE ~PublishReply(c)
    <3>1. CASE SubscribeCommand(c) \/ UnsubscribeCommand(c)
      <4>1. handler[c] = Ready
        BY <3>1 DEF SubscribeCommand, UnsubscribeCommand, Command
      <4> QED
        BY <4>1 DEF Ready
    <3>2. CASE Disconnect(c)
      BY <3>2 DEF Disconnect, Ready
    <3>3. handler[c].op # "pub" \/ handler[c].todo = {}
      BY <2>2, <3>1, <3>2 DEF ConnStep, HandlerStep, BrokerStep, SubscribeAck, UnsubscribeAck, UnsubscribeAllAck,
            SetSubscriber, SetNormal, CloseConn, At
    <3> QED
      BY <3>3 DEF RefInv, Base, OnlyPublishers
  <2> QED
    BY <2>1, <2>2
<1>2. handler'[c].todo = {}
  BY <1>1, TodoShrinks DEF RefInv, Base, OnlyPublishers
<1>3. Pending' = Pending
  BY <1>1, <1>2, OthersStay, PendingStays DEF RefInv
<1>4. UNCHANGED <<subs, cur, buf, pen>>
  <2>1. CASE SubscribeCommand(c) \/ UnsubscribeCommand(c)
    BY <2>1 DEF SubscribeCommand, UnsubscribeCommand, Command, broker, queues, writers
  <2> QED
    BY <2>1 DEF ConnStep, HandlerStep, BrokerStep, Disconnect, SubscribeAck, UnsubscribeAck, UnsubscribeAllAck,
          SetSubscriber, SetNormal, CloseConn, PublishReply, broker, queues, writers
<1> QED
  BY <1>3, <1>4 DEF Abstract!vars, Waiting

(* Every step is a step of Broadcast or a stutter.                          *)
LEMMA NextMaps == RefInv /\ RefInv' /\ [Next]_vars => [Abstract!Next]_(Abstract!vars)
<1> SUFFICES ASSUME RefInv, RefInv', [Next]_vars PROVE Abstract!Next \/ UNCHANGED Abstract!vars
  OBVIOUS
<1>1. ASSUME NEW c \in Conn, BrokerStep(c) PROVE Abstract!Next
  BY <1>1, SubscribeMaps, UnsubscribeMaps, UnsubscribeAllMaps DEF BrokerStep, Abstract!Next
<1>2. ASSUME NEW c \in Conn, Publish(c) PROVE Abstract!Next
  BY <1>2, PublishMaps DEF Abstract!Next
<1>3. ASSUME NEW c \in Conn, Deliver(c) PROVE Abstract!Next
  BY <1>3, DeliverMaps DEF Abstract!Next
<1>4. ASSUME NEW c \in Conn, NEW g \in Gen, WriterStep(c, g) PROVE Abstract!Next \/ UNCHANGED Abstract!vars
  BY <1>4, WriterMaps DEF Abstract!Next
<1>5. ASSUME NEW c \in Conn, ConnStep(c) PROVE Abstract!Next \/ UNCHANGED Abstract!vars
  BY <1>1, <1>2, <1>3, <1>5, OtherStutters
<1>6. CASE UNCHANGED vars
  BY <1>6 DEF vars, broker, queues, writers, Abstract!vars, Waiting, Pending
<1> QED
  BY <1>4, <1>5, <1>6 DEF Next, ConnStep

(* Whatever the clients do, a publication reaches exactly those subscribed  *)
(* at one moment, in the order of the deliveries, except those whose buffer *)
(* is full (Publish, deliver, the write goroutine of SetMode).              *)
THEOREM BrokerImplementsBroadcast == Spec => ImplementsBroadcast
<1>1. RefInv /\ [Next]_vars => [Abstract!Next]_(Abstract!vars)
  BY NextRefInv, NextMaps
<1> QED
  BY <1>1, InitRefInv, NextRefInv, InitMaps, PTL DEF Spec, ImplementsBroadcast, Abstract!Spec
=============================================================================
