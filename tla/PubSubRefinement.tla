-------------------------- MODULE PubSubRefinement --------------------------
(***************************************************************************)
(* PubSub implements Broadcast.  What is waiting for a connection is what  *)
(* its write goroutine holds, followed by the content of its channel; what *)
(* a publisher has pending is what its handler has left to deliver.        *)
(***************************************************************************)
EXTENDS PubSub

Waiting == [c \in Conn |-> [g \in Gen |-> pen[c][g] \o buf[c][g]]]
Pending == [c \in Conn |-> {<<p[1], p[2], handler[c].msg>> : p \in handler[c].todo}]

Abstract == INSTANCE Broadcast WITH
    Message  <- 0 .. MaxMsgs,
    Line     <- Gen,
    Capacity <- BufSize,
    Reaches  <- Matching,
    members  <- subs,
    line     <- cur,
    waiting  <- Waiting,
    pending  <- Pending

(* Each step of broker, handlers and write goroutines is a step of          *)
(* Broadcast or invisible there: PUBLISH reaches exactly those subscribed   *)
(* at one moment, drops a message only for a full delivery buffer, and the  *)
(* write goroutine keeps the order (Publish, deliver, closeAndRemoveConnChan).*)
ImplementsBroadcast == Abstract!Spec
=============================================================================
