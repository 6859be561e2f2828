------------------------------ MODULE Broadcast ------------------------------
(***************************************************************************)
(* What the pub/sub broker promises, without locks, channels or            *)
(* goroutines.  A publication goes to exactly the members of the topics it *)
(* matches at one moment, and nobody joins or leaves until each of them    *)
(* was served or passed over.  A message is passed over only if its        *)
(* receiver already has Capacity messages waiting.  What is waiting for a  *)
(* connection leaves in the order in which it came.  A connection that     *)
(* leaves its last topic and joins again begins a new line: the old one    *)
(* only gets shorter.                                                      *)
(***************************************************************************)
EXTENDS Naturals, Sequences

CONSTANTS
    Conn,      \* connections
    Topic,     \* what one can be a member of
    Channel,   \* what one can publish to
    Message,
    Line,      \* numbers of a connection's lines
    Capacity,  \* messages that may wait before others are passed over
    Reaches(_) \* the topics a publication to a channel matches

VARIABLES
    members,   \* topic -> its members
    line,      \* connection -> its present line, 0 while it has no topic
    waiting,   \* connection -> line -> messages on their way
    pending    \* publisher -> deliveries it still has to make

vars == <<members, line, waiting, pending>>

Init ==
    /\ members = [t \in Topic |-> {}]
    /\ line = [c \in Conn |-> 0]
    /\ waiting = [c \in Conn |-> [l \in Line |-> <<>>]]
    /\ pending = [p \in Conn |-> {}]

Quiet == \A p \in Conn : pending[p] = {}

(* A line that was never used: nothing is waiting in it.                    *)
Join(c, t) ==
    /\ Quiet
    /\ members' = [members EXCEPT ![t] = @ \cup {c}]
    /\ IF line[c] # 0 THEN UNCHANGED line
       ELSE \E l \in Line : waiting[c][l] = <<>> /\ line' = [line EXCEPT ![c] = l]
    /\ UNCHANGED <<waiting, pending>>

Leave(c, topics) ==
    /\ Quiet
    /\ members' = [t \in Topic |-> IF t \in topics THEN members[t] \ {c} ELSE members[t]]
    /\ line' = IF \A t \in Topic : c \notin members'[t] THEN [line EXCEPT ![c] = 0] ELSE line
    /\ UNCHANGED <<waiting, pending>>

Publish(p, ch, m) ==
    /\ pending[p] = {}
    /\ pending' = [pending EXCEPT ![p] = {d \in Reaches(ch) \X Conn \X {m} : d[2] \in members[d[1]]}]
    /\ UNCHANGED <<members, line, waiting>>

Serve(p, d) ==
    LET c == d[2]
    IN  /\ waiting' = [waiting EXCEPT ![c][line[c]] = Append(@, <<d[1], d[3]>>)]
        /\ pending' = [pending EXCEPT ![p] = @ \ {d}]
        /\ UNCHANGED <<members, line>>

PassOver(p, d) ==
    /\ Len(waiting[d[2]][line[d[2]]]) >= Capacity
    /\ pending' = [pending EXCEPT ![p] = @ \ {d}]
    /\ UNCHANGED <<members, line, waiting>>

Arrive(c, l) ==
    /\ waiting[c][l] # <<>>
    /\ waiting' = [waiting EXCEPT ![c][l] = Tail(@)]
    /\ UNCHANGED <<members, line, pending>>

Next ==
    \/ \E c \in Conn, t \in Topic : Join(c, t)
    \/ \E c \in Conn, topics \in {{t} : t \in Topic} \cup {Topic} : Leave(c, topics)
    \/ \E p \in Conn, ch \in Channel, m \in Message : Publish(p, ch, m)
    \/ \E p \in Conn : \E d \in pending[p] : Serve(p, d) \/ PassOver(p, d)
    \/ \E c \in Conn, l \in Line : Arrive(c, l)

Spec == Init /\ [][Next]_vars
=============================================================================
