-------------------------------- MODULE Heap --------------------------------
(***************************************************************************)
(* The store's values where Go keeps them.  The map holds pointers to      *)
(* Values, the Data of a list is a slice, a window of an array that other  *)
(* slices may share, and replies are encoded after Store.mu is released:   *)
(* GET from the pointer Store.Get returned, LRANGE and the pops with a     *)
(* count from a window of the list's own array, element by element.  GET   *)
(* formats a list, too, element by element (ToString).                     *)
(*                                                                         *)
(* A method is one step.  The steps of a reply come between those of other *)
(* handlers; every element is a string, so that a read that races with a   *)
(* write sees the element from before or after it.  There are no hashes:   *)
(* what GET makes of a map that HSET or HDEL changes meanwhile is up to    *)
(* Go's runtime, which may stop the process.                               *)
(***************************************************************************)
EXTENDS StoreOps

CONSTANTS
    Clients, Writes, Pushes, Counts, Windows,   \* as in Keyspace
    MaxLen,    \* bound on the length of a list
    MaxPushes, \* bound on the pushes
    MaxSpare   \* bound on the capacity append reserves beyond what it needs

(* What can reach memory: the keys and the pending replies.  A location is  *)
(* named by a root that reaches it, so that heaps of the same shape are one *)
(* state; New names the location a step allocates.                          *)
Root     == Key \cup Clients
Null     == "nil"
New      == "new"
Location == Root \cup {New}

ASSUME RootAssumption == Key \cap Clients = {} /\ {Null, New} \cap Root = {}
ASSUME HeapAssumption ==
    /\ Db = {0} /\ Writes \subseteq Str /\ {MaxLen, MaxPushes, MaxSpare} \subseteq Nat
    /\ Pushes \subseteq Seq(Str) \ {<<>>}
    /\ \A count \in Counts : count \in Seq(Int) /\ Len(count) <= 1
    /\ Windows \subseteq Int \X Int

VARIABLES
    ref,    \* the map: key -> *Value, Null for none
    val,    \* the Values
    arr,    \* the backing arrays, as long as their capacity
    reply,  \* what each handler has still to encode
    pushes  \* pushes so far

vars == <<ref, val, arr, reply, pushes>>

Slice(b, from, len) == [block |-> b, from |-> from, len |-> len]
NoSlice    == Slice(Null, 0, 0)
NoValue    == [type |-> "none", str |-> NoStr, list |-> NoSlice]
StrValue(s)  == [NoValue EXCEPT !.type = "string", !.str = s]
ListValue(l) == [NoValue EXCEPT !.type = "list", !.list = l]

(* A pending reply: the pointer of GET, or a slice and how much of it is    *)
(* encoded, for GET of a list from "GETLIST" on.  The rest is history: what *)
(* the client is owed (for GET, the value its key has, or had at last while *)
(* it held the Value), and whether the right end of the slice was cut off   *)
(* from the list, or the Value moved to another key.                        *)
NoReply == [op |-> "none", key |-> "none", cell |-> Null, list |-> NoSlice, sent |-> <<>>,
            owed |-> {}, cut |-> FALSE]

Init ==
    /\ ref = [k \in Key |-> Null] /\ val = [x \in Location |-> NoValue]
    /\ arr = [b \in Location |-> <<>>] /\ reply = [c \in Clients |-> NoReply] /\ pushes = 0

Value(k)    == IF ref[k] = Null THEN NoValue ELSE val[ref[k]]
Seen(a, l)  == SubSeq(a[l.block], l.from + 1, l.from + l.len)
Elements(l) == Seen(arr, l)
IsList(k)   == Value(k).type = "list"
List(k)     == Value(k).list
Idle(c)     == reply[c].op = "none"

(* The cells and arrays the roots reach, and the names they go by: at maps  *)
(* roots to locations.                                                      *)
Cells(r, p)     == [i \in Root |-> IF i \in Key THEN r[i] ELSE p[i].cell]
Blocks(r, v, p) == [i \in Root |-> LET x == Cells(r, p)[i]
                                   IN  IF x # Null THEN v[x].list.block
                                       ELSE IF i \in Clients THEN p[i].list.block ELSE Null]
Name(x, at)     == IF x = Null THEN Null ELSE CHOOSE i \in Root : at[i] = x
Named(i, at)    == i \in Root /\ at[i] # Null /\ Name(at[i], at) = i
Moved(l, at)    == [l EXCEPT !.block = Name(@, at)]

(* The heap a step leaves: what nothing points to any more is gone.         *)
Collected(r, v, a, p) ==
    LET cells  == Cells(r, p)
        blocks == Blocks(r, v, p)
    IN  /\ ref' = [k \in Key |-> Name(r[k], cells)]
        /\ val' = [i \in Location |->
              IF Named(i, cells) THEN [v[cells[i]] EXCEPT !.list = Moved(@, blocks)] ELSE NoValue]
        /\ arr' = [i \in Location |-> IF Named(i, blocks) THEN a[blocks[i]] ELSE <<>>]
        /\ reply' = [c \in Clients |->
              [p[c] EXCEPT !.cell = Name(@, cells), !.list = Moved(@, blocks)]]

(* What the Value at x shows.                                               *)
Shown(v, a, x) == IF v[x].type = "string" THEN NewStringValue(v[x].str) ELSE NewListValue(Seen(a, v[x].list))

(* A pending GET is owed what its key shows, as long as it holds the Value. *)
Seeing(r, v, a, p) ==
    [c \in Clients |-> IF p[c].op = "GET" /\ ~p[c].cut /\ r[p[c].key] = p[c].cell
                       THEN [p[c] EXCEPT !.owed = {Shown(v, a, p[c].cell)}] ELSE p[c]]

Becomes(r, v, a, p) == Collected(r, v, a, Seeing(r, v, a, p))

NewValue(k, v, a) == Becomes([ref EXCEPT ![k] = New], [val EXCEPT ![New] = v], a, reply)
SetList(k, l, a, p) == Becomes(ref, [val EXCEPT ![ref[k]] = ListValue(l)], a, p)

(* Nothing is owed to a reply that lost its value to another key or list.   *)
Cut(p) == [p EXCEPT !.cut = TRUE, !.owed = {}]
(* Replies that show the right end of list l, which is being cut off.       *)
CutBy(l, end) ==
    [c \in Clients |-> IF reply[c].list.block = l.block /\ reply[c].list.from + reply[c].list.len > end
                       THEN Cut(reply[c]) ELSE reply[c]]
Owes(p, c, op, l, cut) ==
    [p EXCEPT ![c] = [NoReply EXCEPT !.op = op, !.list = l, !.cut = cut,
                                     !.owed = IF cut THEN {} ELSE {NewListValue(Elements(l))}]]

-----------------------------------------------------------------------------
(* Strings.  Set makes a new Value, Incr writes into the one it finds.      *)

DoSet(k, v) == NewValue(k, StrValue(v), arr)

DoIncr(k) ==
    LET cur == IF ref[k] = Null THEN StrValue(0) ELSE Value(k)
        new == StrValue(Wrap(Atoi(cur.str) + 1))
    IN  /\ cur.type = "string" /\ IsNumeral(cur.str)
        /\ IF ref[k] = Null THEN NewValue(k, new, arr)
           ELSE Becomes(ref, [val EXCEPT ![ref[k]] = new], arr, reply)

DelClears(k) ==           \* mutant: Del empties the Value it unlinks
    /\ ref[k] # Null
    /\ Becomes([ref EXCEPT ![k] = Null], [val EXCEPT ![ref[k]] = StrValue(NoStr)], arr, reply)

DoDel(k) == ref[k] # Null /\ Becomes([ref EXCEPT ![k] = Null], val, arr, reply)

RenameCopies(k, l) ==     \* mutant: the source keeps its pointer
    ref[k] # Null /\ Becomes([ref EXCEPT ![l] = ref[k]], val, arr, reply)

(* The pointer moves; whoever holds it still does.                          *)
DoRename(k, l) ==
    /\ ref[k] # Null
    /\ Becomes([[ref EXCEPT ![l] = ref[k]] EXCEPT ![k] = Null], val, arr,
               [c \in Clients |-> IF reply[c].cell = ref[k] THEN Cut(reply[c]) ELSE reply[c]])

DoGet(c, k) ==
    /\ Idle(c) /\ ref[k] # Null
    /\ Becomes(ref, val, arr, [reply EXCEPT ![c] = [NoReply EXCEPT !.op = "GET", !.key = k, !.cell = ref[k]]])

-----------------------------------------------------------------------------
(* Lists.                                                                   *)

(* A new array holds xs and some spare room.                                *)
Allocated(xs, spare) == [arr EXCEPT ![New] = xs \o [i \in 1 .. spare |-> NoStr]]

NewList(k, vals) == ref[k] = Null /\ NewValue(k, ListValue(Slice(New, 0, Len(vals))), Allocated(vals, 0))

Grow(k, xs) == \E spare \in 0 .. MaxSpare :
    SetList(k, Slice(New, 0, Len(xs)), Allocated(xs, spare), reply)

End(l) == l.from + l.len
RoomOffByOne(l, n) == End(l) + n <= Len(arr[l.block]) + 1   \* mutant: one place too many
Room(l, n)         == End(l) + n <= Len(arr[l.block])

OverwrittenEarly(a, at, vals) == \* mutant: one place too far to the left
    [i \in 1 .. Len(a) |-> IF i \in at .. at + Len(vals) - 1 THEN vals[i - at + 1] ELSE a[i]]

(* append(list, values...) writes into the array where it has room, over    *)
(* whatever an earlier, longer slice showed there.                          *)
Overwritten(a, at, vals) ==
    [i \in 1 .. Len(a) |-> IF i \in at + 1 .. at + Len(vals) THEN vals[i - at] ELSE a[i]]

DoRPush(k, vals) ==
    \/ NewList(k, vals)
    \/ /\ IsList(k) /\ List(k).len + Len(vals) <= MaxLen
       /\ LET l == List(k)
          IN  IF Room(l, Len(vals))
              THEN SetList(k, [l EXCEPT !.len = @ + Len(vals)],
                           [arr EXCEPT ![l.block] = Overwritten(@, End(l), vals)], reply)
              ELSE Grow(k, Elements(l) \o vals)

(* append(values, list...): always the array of the arguments or a new one. *)
DoLPush(k, vals) ==
    \/ NewList(k, Reverse(vals))
    \/ IsList(k) /\ List(k).len + Len(vals) <= MaxLen /\ Grow(k, Reverse(vals) \o Elements(List(k)))

(* What a pop gives its client: one element is copied under the lock, with  *)
(* a count the reply is a slice, and its handler must have none to encode.  *)
(* A pop without a count may be any handler's, like the other methods.      *)
Pops(c, k, count) == IsList(k) /\ List(k).len > 0 /\ (count # <<>> => Idle(c) /\ count[1] >= 0)

LPopShifts(c, k, count) == \* mutant: the remaining elements move to the front of the array
    /\ Pops(c, k, count)
    /\ LET l == List(k)
           n == Count(count, l.len)
       IN  SetList(k, [l EXCEPT !.len = @ - n],
                   [arr EXCEPT ![l.block] = Overwritten(@, l.from, SubSeq(Elements(l), n + 1, l.len))],
                   IF count = <<>> THEN reply ELSE Owes(reply, c, "LPOP", Slice(l.block, l.from, n), FALSE))

DoLPop(c, k, count) ==
    /\ Pops(c, k, count)
    /\ LET l == List(k)
           n == Count(count, l.len)
       IN  SetList(k, Slice(l.block, l.from + n, l.len - n), arr,
                   IF count = <<>> THEN reply ELSE Owes(reply, c, "LPOP", Slice(l.block, l.from, n), FALSE))

DoRPop(c, k, count) ==
    /\ Pops(c, k, count)
    /\ LET l    == List(k)
           n    == Count(count, l.len)
           rest == End(l) - n
           p    == CutBy(l, rest)
       IN  SetList(k, [l EXCEPT !.len = @ - n], arr,
                   IF count = <<>> THEN p ELSE Owes(p, c, "RPOP", Slice(l.block, rest, n), TRUE))

Outside(lo, hi, len) == lo > hi \/ lo >= len

DoLRange(c, k, w) ==
    /\ Idle(c) /\ IsList(k)
    /\ LET l  == List(k)
           lo == Lo(w[1], l.len)
           hi == Hi(w[2], l.len)
       IN  /\ ~Outside(lo, hi, l.len)
           /\ Becomes(ref, val, arr, Owes(reply, c, "LRANGE", Slice(l.block, l.from + lo, hi - lo + 1), FALSE))

DoLTrim(k, w) ==
    /\ IsList(k)
    /\ LET l  == List(k)
           lo == Lo(w[1], l.len)
           hi == Hi(w[2], l.len)
       IN  IF Outside(lo, hi, l.len) THEN Becomes([ref EXCEPT ![k] = Null], val, arr, reply)
           ELSE SetList(k, Slice(l.block, l.from + lo, hi - lo + 1), arr, CutBy(l, l.from + hi + 1))

-----------------------------------------------------------------------------
(* The handler encodes its reply, without Store.mu.                         *)

(* ToString of a list takes the slice the Value has by now.                 *)
AsList(c) ==
    LET p == reply[c]
    IN  /\ p.op = "GET" /\ val[p.cell].type = "list"
        /\ Becomes(ref, val, arr,
                   [reply EXCEPT ![c] = [p EXCEPT !.op = "GETLIST", !.key = "none", !.cell = Null,
                                                  !.list = val[p.cell].list]])

EncodeElement(c) ==
    LET p == reply[c]
    IN  /\ p.op \in {"LPOP", "RPOP", "LRANGE", "GETLIST"} /\ Len(p.sent) < p.list.len
        /\ Becomes(ref, val, arr,
                   [reply EXCEPT ![c].sent = Append(@, arr[p.list.block][p.list.from + Len(@) + 1])])

Replied(c) ==
    /\ ~Idle(c)
    /\ IF reply[c].op = "GET" THEN val[reply[c].cell].type = "string"
       ELSE Len(reply[c].sent) = reply[c].list.len
    /\ Becomes(ref, val, arr, [reply EXCEPT ![c] = NoReply])

Push == /\ pushes < MaxPushes /\ pushes' = pushes + 1
        /\ \E k \in Key, vals \in Pushes : DoRPush(k, vals) \/ DoLPush(k, vals)

OnKey(k) ==
    \/ \E v \in Writes : DoSet(k, v)
    \/ DoIncr(k) \/ DoDel(k)
    \/ \E l \in Key : DoRename(k, l)
    \/ \E w \in Windows : DoLTrim(k, w)

Replying(c, k) ==
    \/ DoGet(c, k)
    \/ \E n \in Counts : DoLPop(c, k, n) \/ DoRPop(c, k, n)
    \/ \E w \in Windows : DoLRange(c, k, w)

Encoding(c) == AsList(c) \/ EncodeElement(c) \/ Replied(c)

Next ==
    \/ Push
    \/ /\ UNCHANGED pushes
       /\ \/ \E k \in Key : OnKey(k)
          \/ \E c \in Clients : Encoding(c) \/ \E k \in Key : Replying(c, k)

Spec == Init /\ [][Next]_vars

-----------------------------------------------------------------------------
Within(l) == l = NoSlice \/ (l.block \in Location /\ l.from >= 0 /\ l.len >= 0 /\ l.from + l.len <= Len(arr[l.block]))

(* Types: every slice lies within its array, every pointer leads somewhere. *)
TypeOK ==
    /\ \A k \in Key : ref[k] \in Location \cup {Null} /\ (ref[k] # Null => val[ref[k]] # NoValue)
    /\ \A x \in Location : val[x].str \in Str \cup {NoStr} /\ Within(val[x].list)
    /\ \A b \in Location : \A i \in 1 .. Len(arr[b]) : arr[b][i] \in Str \cup {NoStr}
    /\ \A c \in Clients : Within(reply[c].list) /\ Len(reply[c].sent) <= reply[c].list.len

(* No two keys share a Value or an array, after any renames, trims and      *)
(* pops, so that no push on one key writes into another one's list.         *)
KeysNeverShare ==
    \A k, l \in Key : k # l /\ ref[k] # Null =>
        ref[k] # ref[l] /\ (IsList(k) /\ IsList(l) => List(k).block # List(l).block)

(* A reply of LRANGE, or of LPOP with a count, is what the list held when   *)
(* the method ran, though pushes and pops go on in its array while it is    *)
(* encoded, as long as nobody has cut off the elements it shows from the    *)
(* right end of the list (RPOP, LTRIM), where a push would overwrite them.  *)
RepliesExactUnlessCut == \A c \in Clients :
    reply[c].op \in {"LPOP", "RPOP", "LRANGE"} /\ ~reply[c].cut =>
        \A e \in reply[c].owed : IsPrefix(reply[c].sent, e.list)

(* GET replies with the value its key has when it is read or, if the key    *)
(* was replaced or deleted since the call, had at last before that, string  *)
(* or list, although the Value and then the elements of its list are read   *)
(* after the lock is released.  Nothing is said when RENAME moved the Value *)
(* to another key, nor when RPOP or LTRIM cut off elements of the list from *)
(* the right while it is formatted: pushes then write there, and GET of     *)
(* [a b c] may reply [a x c].                                               *)
GetReadsItsKey == \A c \in Clients :
    LET p == reply[c]
    IN  ~p.cut =>
          /\ p.op = "GET" => p.owed = {Shown(val, arr, p.cell)}
          /\ p.op = "GETLIST" => \E e \in p.owed : /\ e.type = "list" /\ Len(e.list) = p.list.len
                                                  /\ IsPrefix(p.sent, e.list)

(* The keys, read through pointers and slices.                              *)
Entries == [k \in Key |-> IF ref[k] = Null THEN Missing ELSE Shown(val, arr, ref[k])]

Plain == INSTANCE Keyspace WITH keys <- Entries

(* The keys behave as independent strings and sequences: what shares memory *)
(* is never a value that is in the store (Store's list methods, Rename).    *)
ImplementsKeyspace == Plain!Spec
=============================================================================
