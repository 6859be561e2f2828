------------------------------- MODULE PubSub -------------------------------
(***************************************************************************)
(* The pub/sub broker with the connection handlers that call it and the    *)
(* write goroutines that drain its delivery channels.                      *)
(*                                                                         *)
(* A handler goroutine runs one command of its connection at a time, in    *)
(* steps: each broker method is one critical section of PubSubBroker.mu,   *)
(* each confirmation is a socket write, SetMode is a critical section of   *)
(* Server.mu.  Publish holds the read lock over all its deliveries, so     *)
(* several publishers interleave with each other and with the write        *)
(* goroutines, but with no change of the subscriptions.  A connection that *)
(* unsubscribes and subscribes again gets a new delivery channel and a new *)
(* write goroutine while the old one may still be draining: channels are   *)
(* numbered by the order in which a connection's channels are made.        *)
(*                                                                         *)
(* A topic is an exact channel name or a pattern; the maps channels and    *)
(* patterns of the broker are one function here, an absent entry being the *)
(* empty set.                                                              *)
(***************************************************************************)
EXTENDS Integers, Sequences, FiniteSets

CONSTANTS
    Conn,       \* connections
    Channel,    \* exact channel names
    Pattern,    \* glob patterns
    Match,      \* set of <<pattern, channel>>: path.Match
    BufSize,    \* pubsubDeliveryBufSize (64)
    SubArgs,    \* argument lists of SUBSCRIBE and PSUBSCRIBE
    UnsubArgs,  \* argument lists of UNSUBSCRIBE and PUNSUBSCRIBE, <<>> for none
    MaxGen,     \* bound on the delivery channels made for one connection
    MaxCmds,    \* bound on subscription commands
    MaxMsgs     \* bound on published messages

Topic == Channel \cup Pattern
Gen   == 1 .. MaxGen

ASSUME TopicsAssumption == Channel \cap Pattern = {} /\ Match \subseteq Pattern \X Channel
ASSUME ArgsAssumption   == SubArgs \subseteq Seq(Topic) \ {<<>>} /\ UnsubArgs \subseteq Seq(Topic)
ASSUME FiniteAssumption == IsFiniteSet(Topic)
ASSUME BoundsAssumption == BufSize \in Nat \ {0} /\ MaxGen \in Nat /\ MaxCmds \in Nat /\ MaxMsgs \in Nat

VARIABLES
    subs,      \* broker.channels and broker.patterns: topic -> set of connections
    cur,       \* broker.connChans: the number of the connection's channel, or 0
    chan,      \* each channel made so far: "unused", "open" or "closed"
    buf,       \* messages in each channel
    writer,    \* its write goroutine: "none", "running" or "done"
    pen,       \* what that goroutine received and has not written
    mode,      \* Conn.mode
    handler,   \* what the connection's handler goroutine is doing
    cmds, msgs \* what the bounds count

broker  == <<subs, cur>>
queues  == <<chan, buf>>
writers == <<writer, pen>>
vars    == <<broker, queues, writers, mode, handler, cmds, msgs>>

Ready == [op |-> "ready", args |-> <<>>, step |-> "none", left |-> 0, todo |-> {}, chan |-> "none", msg |-> 0]
Gone  == [Ready EXCEPT !.op = "gone"]

Init ==
    /\ subs = [t \in Topic |-> {}]
    /\ cur = [c \in Conn |-> 0]
    /\ chan = [c \in Conn |-> [g \in Gen |-> "unused"]]
    /\ buf = [c \in Conn |-> [g \in Gen |-> <<>>]]
    /\ writer = [c \in Conn |-> [g \in Gen |-> "none"]]
    /\ pen = [c \in Conn |-> [g \in Gen |-> <<>>]]
    /\ mode = [c \in Conn |-> "normal"]
    /\ handler = [c \in Conn |-> Ready]
    /\ cmds = 0 /\ msgs = 0

-----------------------------------------------------------------------------
(* Subscriptions.                                                           *)

TopicsOf(s, c) == {t \in Topic : c \in s[t]}

(* PubSubBroker.mu: Publish holds the read lock, the others the write lock. *)
AnyTime  == TRUE          \* mutant: a writer does not wait for readers
NoReader == \A c \in Conn : handler[c].op # "pub"

At(c, op, step) == handler[c].op = op /\ handler[c].step = step
GoTo(c, step)   == handler' = [handler EXCEPT ![c].step = step]
Arg(c)          == Head(handler[c].args)

(* The next argument of the command, or the end of it.                      *)
Advance(c, last) ==
    LET h == handler[c]
    IN  handler' = [handler EXCEPT ![c] = IF Tail(h.args) # <<>> THEN [h EXCEPT !.args = Tail(h.args), !.step = "broker"]
                                          ELSE last]

Command(c, op, args) ==
    /\ handler[c] = Ready /\ cmds < MaxCmds
    /\ handler' = [handler EXCEPT ![c] = [Ready EXCEPT !.op = op, !.args = args, !.step = "broker"]]
    /\ cmds' = cmds + 1
    /\ UNCHANGED <<broker, queues, writers, mode, msgs>>

SubscribeCommand(c)   == \E args \in SubArgs : Command(c, "sub", args)
UnsubscribeCommand(c) == \E args \in UnsubArgs : Command(c, IF args = <<>> THEN "unsuball" ELSE "unsub", args)

(* Subscribe and PSubscribe, with getOrCreateChan.                          *)
Subscribe(c) ==
    /\ At(c, "sub", "broker") /\ NoReader
    /\ subs' = [subs EXCEPT ![Arg(c)] = @ \cup {c}]
    /\ IF cur[c] # 0 THEN UNCHANGED <<cur, chan>>
       ELSE \E g \in Gen :
                /\ chan[c][g] = "unused" /\ \A h \in 1 .. g - 1 : chan[c][h] # "unused"
                /\ cur' = [cur EXCEPT ![c] = g]
                /\ chan' = [chan EXCEPT ![c][g] = "open"]
    /\ GoTo(c, "ack")
    /\ UNCHANGED <<buf, writers, mode, cmds, msgs>>

CloseKeepsChan(c) ==      \* mutant: the closed channel stays in connChans
    IF cur[c] = 0 THEN UNCHANGED <<cur, chan>>
    ELSE chan' = [chan EXCEPT ![c][cur[c]] = "closed"] /\ UNCHANGED cur
RemoveWithoutClose(c) ==  \* mutant: the channel is removed and never closed
    cur' = [cur EXCEPT ![c] = 0] /\ UNCHANGED chan

(* closeAndRemoveConnChan                                                   *)
CloseChan(c) ==
    IF cur[c] = 0 THEN UNCHANGED <<cur, chan>>
    ELSE /\ chan' = [chan EXCEPT ![c][cur[c]] = "closed"]
         /\ cur' = [cur EXCEPT ![c] = 0]

UnsubscribeMiscounts(c) ==    \* mutant: one subscription less, even if there was none
    /\ At(c, "unsub", "broker") /\ NoReader
    /\ subs' = [subs EXCEPT ![Arg(c)] = @ \ {c}]
    /\ IF TopicsOf(subs', c) = {} THEN CloseChan(c) ELSE UNCHANGED <<cur, chan>>
    /\ handler' = [handler EXCEPT ![c].step = "ack", ![c].left = Cardinality(TopicsOf(subs, c)) - 1]
    /\ UNCHANGED <<buf, writers, mode, cmds, msgs>>

(* Unsubscribe and PUnsubscribe.                                            *)
Unsubscribe(c) ==
    /\ At(c, "unsub", "broker") /\ NoReader
    /\ subs' = [subs EXCEPT ![Arg(c)] = @ \ {c}]
    /\ IF TopicsOf(subs', c) = {} THEN CloseChan(c) ELSE UNCHANGED <<cur, chan>>
    /\ handler' = [handler EXCEPT ![c].step = "ack", ![c].left = Cardinality(TopicsOf(subs', c))]
    /\ UNCHANGED <<buf, writers, mode, cmds, msgs>>

(* UnsubscribeAll, for UNSUBSCRIBE without arguments and for a disconnect.  *)
UnsubscribeAll(c) ==
    /\ At(c, "unsuball", "broker") \/ At(c, "closing", "broker")
    /\ NoReader
    /\ subs' = [t \in Topic |-> subs[t] \ {c}]
    /\ CloseChan(c)
    /\ GoTo(c, "ack")
    /\ UNCHANGED <<buf, writers, mode, cmds, msgs>>

(* ctx.Write: the confirmation goes straight to the socket.                 *)
SubscribeAck(c) ==
    /\ At(c, "sub", "ack")
    /\ Advance(c, [handler[c] EXCEPT !.step = "mode"])
    /\ UNCHANGED <<broker, queues, writers, mode, cmds, msgs>>

UnsubscribeStaysInMode(c) ==  \* mutant: the last unsubscription does not reset the mode
    /\ At(c, "unsub", "ack")
    /\ Advance(c, Ready)
    /\ UNCHANGED <<broker, queues, writers, mode, cmds, msgs>>

UnsubscribeAck(c) ==
    /\ At(c, "unsub", "ack")
    /\ IF handler[c].left = 0 THEN GoTo(c, "mode") ELSE Advance(c, Ready)
    /\ UNCHANGED <<broker, queues, writers, mode, cmds, msgs>>

UnsubscribeAllAck(c) ==
    /\ At(c, "unsuball", "ack")
    /\ GoTo(c, "mode")
    /\ UNCHANGED <<broker, queues, writers, mode, cmds, msgs>>

(* SetMode(ModeSubscriber): the first time, start the write goroutine on    *)
(* the connection's channel.                                                *)
SetSubscriber(c) ==
    /\ At(c, "sub", "mode")
    /\ IF mode[c] # "subscriber" /\ cur[c] # 0
       THEN /\ mode' = [mode EXCEPT ![c] = "subscriber"]
            /\ writer' = [writer EXCEPT ![c][cur[c]] = "running"]
       ELSE UNCHANGED <<mode, writer>>
    /\ handler' = [handler EXCEPT ![c] = Ready]
    /\ UNCHANGED <<broker, queues, pen, cmds, msgs>>

SetNormal(c) ==
    /\ At(c, "unsub", "mode") \/ At(c, "unsuball", "mode")
    /\ mode' = [mode EXCEPT ![c] = "normal"]
    /\ IF handler[c].op = "unsub" THEN Advance(c, Ready) ELSE handler' = [handler EXCEPT ![c] = Ready]
    /\ UNCHANGED <<broker, queues, writers, cmds, msgs>>

(* The client disconnects: handleConn's deferred function.                  *)
Disconnect(c) ==
    /\ handler[c] = Ready
    /\ handler' = [handler EXCEPT ![c] = [Ready EXCEPT !.op = "closing", !.step = "broker"]]
    /\ UNCHANGED <<broker, queues, writers, mode, cmds, msgs>>

CloseConn(c) ==
    /\ At(c, "closing", "ack")
    /\ handler' = [handler EXCEPT ![c] = Gone]
    /\ UNCHANGED <<broker, queues, writers, mode, cmds, msgs>>

-----------------------------------------------------------------------------
(* Publish.                                                                 *)

Matching(ch) == {ch} \cup {p \in Pattern : <<p, ch>> \in Match}

(* PUBLISH is refused in subscriber mode.  Deliveries go to the exact       *)
(* subscribers first, then pattern by pattern, in any order.                *)
Publish(c) ==
    /\ handler[c] = Ready /\ mode[c] = "normal" /\ msgs < MaxMsgs
    /\ \E ch \in Channel :
          handler' = [handler EXCEPT ![c] =
                        [op |-> "pub", args |-> <<ch>>, step |-> "none", left |-> 0, chan |-> ch, msg |-> msgs + 1,
                         todo |-> {p \in Matching(ch) \X Conn : p[2] \in subs[p[1]]}]]
    /\ msgs' = msgs + 1
    /\ UNCHANGED <<broker, queues, writers, mode, cmds>>

NextUp(h, p) == p[1] = h.args[1] \/ \A q \in h.todo : q[1] # h.args[1]

DeliverBlocks(c) ==           \* mutant: a full buffer blocks the publisher
    LET h == handler[c]
    IN  /\ h.op = "pub"
        /\ \E p \in h.todo :
              LET d == p[2]
              IN  /\ NextUp(h, p)
                  /\ Len(buf[d][cur[d]]) < BufSize
                  /\ buf' = [buf EXCEPT ![d][cur[d]] = Append(@, <<p[1], h.msg>>)]
                  /\ handler' = [handler EXCEPT ![c] = [h EXCEPT !.todo = h.todo \ {p}, !.args = <<p[1]>>]]
        /\ UNCHANGED <<broker, chan, writers, mode, cmds, msgs>>

DeliverDropsEarly(c) ==       \* mutant: the last place of the buffer is never used
    LET h == handler[c]
    IN  /\ h.op = "pub"
        /\ \E p \in h.todo :
              LET d    == p[2]
                  sent == cur[d] # 0 /\ Len(buf[d][cur[d]]) < BufSize - 1
              IN  /\ NextUp(h, p)
                  /\ buf' = IF sent THEN [buf EXCEPT ![d][cur[d]] = Append(@, <<p[1], h.msg>>)] ELSE buf
                  /\ handler' = [handler EXCEPT ![c] = [h EXCEPT !.todo = h.todo \ {p}, !.args = <<p[1]>>]]
        /\ UNCHANGED <<broker, chan, writers, mode, cmds, msgs>>
DeliverCountsAll(c) ==        \* mutant: a pattern delivery to an exact subscriber is counted too
    LET h == handler[c]
    IN  /\ h.op = "pub"
        /\ \E p \in h.todo :
              LET d    == p[2]
                  sent == cur[d] # 0 /\ Len(buf[d][cur[d]]) < BufSize
              IN  /\ NextUp(h, p)
                  /\ buf' = IF sent THEN [buf EXCEPT ![d][cur[d]] = Append(@, <<p[1], h.msg>>)] ELSE buf
                  /\ handler' = [handler EXCEPT ![c] =
                        [h EXCEPT !.todo = h.todo \ {p}, !.args = <<p[1]>>, !.left = IF sent THEN h.left + 1 ELSE h.left]]
        /\ UNCHANGED <<broker, chan, writers, mode, cmds, msgs>>

(* deliver: a full buffer drops the message.  A pattern delivery is counted *)
(* unless the connection is an exact subscriber as well.                    *)
Deliver(c) ==
    LET h == handler[c]
    IN  /\ h.op = "pub"
        /\ \E p \in h.todo :
              LET t    == p[1]
                  d    == p[2]
                  sent == cur[d] # 0 /\ Len(buf[d][cur[d]]) < BufSize
              IN  /\ NextUp(h, p)
                  /\ buf' = IF sent THEN [buf EXCEPT ![d][cur[d]] = Append(@, <<t, h.msg>>)] ELSE buf
                  /\ handler' = [handler EXCEPT ![c] =
                        [h EXCEPT !.todo = h.todo \ {p}, !.args = <<t>>,
                                  !.left = IF sent /\ (t = h.chan \/ d \notin subs[h.chan]) THEN h.left + 1 ELSE h.left]]
        /\ UNCHANGED <<broker, chan, writers, mode, cmds, msgs>>

PublishReply(c) ==
    /\ handler[c].op = "pub" /\ handler[c].todo = {}
    /\ handler' = [handler EXCEPT ![c] = Ready]
    /\ UNCHANGED <<broker, queues, writers, mode, cmds, msgs>>

-----------------------------------------------------------------------------
(* The write goroutine of one channel: for msg := range deliveryCh.         *)

Take(c, g) ==
    /\ writer[c][g] = "running" /\ pen[c][g] = <<>> /\ buf[c][g] # <<>>
    /\ pen' = [pen EXCEPT ![c][g] = <<Head(buf[c][g])>>]
    /\ buf' = [buf EXCEPT ![c][g] = Tail(@)]
    /\ UNCHANGED <<broker, chan, writer, mode, handler, cmds, msgs>>

(* conn.Write; after conn.Close it fails and the error is ignored.          *)
Write(c, g) ==
    /\ pen[c][g] # <<>>
    /\ pen' = [pen EXCEPT ![c][g] = <<>>]
    /\ UNCHANGED <<broker, queues, writer, mode, handler, cmds, msgs>>

Finish(c, g) ==
    /\ writer[c][g] = "running" /\ pen[c][g] = <<>> /\ buf[c][g] = <<>> /\ chan[c][g] = "closed"
    /\ writer' = [writer EXCEPT ![c][g] = "done"]
    /\ UNCHANGED <<broker, queues, pen, mode, handler, cmds, msgs>>

HandlerStep(c) ==
    \/ Subscribe(c) \/ Unsubscribe(c) \/ UnsubscribeAll(c)
    \/ SubscribeAck(c) \/ UnsubscribeAck(c) \/ UnsubscribeAllAck(c)
    \/ SetSubscriber(c) \/ SetNormal(c)
    \/ CloseConn(c)
    \/ Deliver(c) \/ PublishReply(c)

WriterStep(c, g) == Take(c, g) \/ Write(c, g) \/ Finish(c, g)

Next ==
    \/ \E c \in Conn : SubscribeCommand(c) \/ UnsubscribeCommand(c) \/ Publish(c) \/ Disconnect(c) \/ HandlerStep(c)
    \/ \E c \in Conn, g \in Gen : WriterStep(c, g)

Spec == Init /\ [][Next]_vars

(* A handler that has a command runs it: the scheduler is fair, and so are  *)
(* RWMutex and the socket for the small confirmations.  A write goroutine   *)
(* may be stuck in conn.Write for as long as its client does not read; once *)
(* the connection is closed the write returns.                              *)
Fairness ==
    /\ \A c \in Conn : WF_vars(HandlerStep(c))
    /\ \A c \in Conn, g \in Gen : WF_vars(handler[c] = Gone /\ WriterStep(c, g))
FairSpec == Spec /\ Fairness

-----------------------------------------------------------------------------
Frame   == Topic \X (0 .. MaxMsgs)     \* the topic it was sent for, and the message
Handler == [op   : {"ready", "gone", "sub", "unsub", "unsuball", "closing", "pub"},
            args : Seq(Topic),
            step : {"none", "broker", "ack", "mode"},
            left : Nat,
            todo : SUBSET (Topic \X Conn),
            chan : Channel \cup {"none"},
            msg  : 0 .. MaxMsgs]

(* Types.  The number of subscriptions in a confirmation is a natural, a    *)
(* channel holds no more than its buffer, and a write goroutine one message.*)
TypeOK ==
    /\ subs \in [Topic -> SUBSET Conn]
    /\ cur \in [Conn -> Gen \cup {0}]
    /\ chan \in [Conn -> [Gen -> {"unused", "open", "closed"}]]
    /\ buf \in [Conn -> [Gen -> Seq(Frame)]]
    /\ writer \in [Conn -> [Gen -> {"none", "running", "done"}]]
    /\ pen \in [Conn -> [Gen -> Seq(Frame)]]
    /\ mode \in [Conn -> {"normal", "subscriber"}]
    /\ handler \in [Conn -> Handler]
    /\ cmds \in 0 .. MaxCmds /\ msgs \in 0 .. MaxMsgs
    /\ \A c \in Conn, g \in Gen : Len(buf[c][g]) <= BufSize /\ Len(pen[c][g]) <= 1

(* A connection has a delivery channel exactly while it has a subscription, *)
(* that channel is open, and every other channel ever made for it has been  *)
(* closed: deliver never sends on a closed channel and no channel is closed *)
(* twice or left open behind (Subscribe, Unsubscribe, UnsubscribeAll).      *)
ChannelIffSubscribed ==
    \A c \in Conn :
        /\ (cur[c] # 0) <=> (TopicsOf(subs, c) # {})
        /\ \A g \in Gen : (chan[c][g] = "open") <=> (g = cur[c])

(* Between commands a connection is in subscriber mode exactly when it has  *)
(* a subscription, and then its channel has a running write goroutine; a    *)
(* closed connection has neither subscription nor channel.                  *)
ModeMatches ==
    \A c \in Conn :
        /\ handler[c] = Ready => /\ (mode[c] = "subscriber") <=> (cur[c] # 0)
                                 /\ cur[c] # 0 => writer[c][cur[c]] = "running"
        /\ handler[c] = Gone => cur[c] = 0

(* A publisher only waits to deliver to connections that are subscribed:    *)
(* the subscriptions do not change under its read lock.                     *)
TargetsStaySubscribed ==
    \A c \in Conn : \A p \in handler[c].todo : p[2] \in subs[p[1]] /\ cur[p[2]] # 0

(* Publish ends although subscribers may never read: deliver drops instead  *)
(* of blocking.                                                             *)
PublishEnds == \A c \in Conn : (handler[c].op = "pub") ~> (handler[c].op # "pub")

(* When a connection is gone, every write goroutine ever started for it     *)
(* ends ("the broker delivery channel is closed, which terminates the write *)
(* goroutine").                                                             *)
WritersEnd ==
    \A c \in Conn : \A g \in Gen :
        (handler[c] = Gone) ~> (writer[c][g] # "running")

(* The reply of PUBLISH counts no connection twice, whether it subscribed   *)
(* to the channel or to a pattern or to both, and however long the          *)
(* deliveries take; only two patterns of one connection are both counted    *)
(* (Publish: the check of the exact subscribers).                           *)
PublishCountsOnce ==
    \A c \in Conn :
        LET h      == handler[c]
            by(d)  == {t \in Matching(h.chan) : d \in subs[t]}
        IN  h.op = "pub" /\ (\A d \in Conn : Cardinality(by(d) \cap Pattern) <= 1)
            => h.left <= Cardinality({d \in Conn : by(d) # {}})
=============================================================================
