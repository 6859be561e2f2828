----------------------------- MODULE HeapProofs -----------------------------
(***************************************************************************)
(* Theorems about Heap, for any keys, clients, values and bounds: aliasing *)
(* is never visible through the keys, and which replies it can reach.      *)
(***************************************************************************)
EXTENDS Heap, StoreOpsProofs, SequenceTheorems

-----------------------------------------------------------------------------
(* Heaps.  r, v, a and p stand for ref, val, arr and reply: a step builds   *)
(* them before what is unreachable goes.                                    *)

Elem    == Str \cup {NoStr}
ListOps == {"LPOP", "RPOP", "LRANGE", "GETLIST"}
Slices  == [block : Location \cup {Null}, from : Nat, len : Nat]
Values  == [type : {"none", "string", "list"}, str : Elem, list : Slices]
PlainValues == {NewStringValue(x) : x \in Elem} \cup {NewListValue(x) : x \in Seq(Elem)}
Replies == [op : {"none", "GET"} \cup ListOps, key : Key \cup {"none"}, cell : Location \cup {Null},
            list : Slices, sent : Seq(Elem), owed : SUBSET PlainValues, cut : BOOLEAN]

Shapes(r, v, a, p) ==
    /\ r \in [Key -> Location \cup {Null}] /\ v \in [Location -> Values]
    /\ a \in [Location -> Seq(Elem)] /\ p \in [Clients -> Replies]

Inside(a, l) == l.block \in Location /\ l.from + l.len <= Len(a[l.block])
ListAt(r, v, k) == r[k] # Null /\ v[r[k]].type = "list"

(* A value is a string, or a list inside its array.                         *)
Whole(v, a, x) == \/ v[x].type = "string" /\ v[x].list = NoSlice
                  \/ v[x].type = "list" /\ Inside(a, v[x].list)
KeyOK(r, v, a, k) == r[k] # Null => Whole(v, a, r[k])
(* No other key holds the same value or array.                              *)
Apart(r, v, k, l) == k # l /\ r[k] # Null =>
    /\ r[k] # r[l]
    /\ ListAt(r, v, k) /\ ListAt(r, v, l) => v[r[k]].list.block # v[r[l]].list.block
(* No key but those that hold the Value at x has a list in its array.       *)
Alone(r, v, x) == \A k \in Key :
    v[x].type = "list" /\ ListAt(r, v, k) /\ v[r[k]].list.block = v[x].list.block => r[k] = x
(* A pending GET points to a value, though maybe no key does any more.      *)
(* Unless RENAME moved it, no other key writes to it, and it is what the    *)
(* client is owed or will be.                                               *)
GetOK(r, v, a, p, c) == p[c].op = "GET" =>
    /\ p[c].key \in Key /\ p[c].cell # Null /\ p[c].list = NoSlice /\ p[c].sent = <<>>
    /\ Whole(v, a, p[c].cell) /\ Alone(r, v, p[c].cell)
    /\ ~p[c].cut =>
          /\ \A k \in Key : r[k] = p[c].cell => k = p[c].key
          /\ p[c].owed = {Shown(v, a, p[c].cell)} \/ r[p[c].key] = p[c].cell
(* A pending slice: unless it was cut off, its window shows what is owed,   *)
(* and a list in its array does not end before it.                          *)
ListOK(r, v, a, p, c) == p[c].op \in ListOps =>
    /\ p[c].cell = Null /\ Inside(a, p[c].list) /\ Len(p[c].sent) <= p[c].list.len
    /\ ~p[c].cut =>
          /\ p[c].owed = {NewListValue(Seen(a, p[c].list))}
          /\ \A i \in 1 .. Len(p[c].sent) : p[c].sent[i] = a[p[c].list.block][p[c].list.from + i]
          /\ \A k \in Key : ListAt(r, v, k) /\ v[r[k]].list.block = p[c].list.block =>
                            p[c].list.from + p[c].list.len <= End(v[r[k]].list)
IdleOK(p, c) == p[c].op = "none" => p[c] = NoReply

Intact(r, v, a, p) ==
    /\ Shapes(r, v, a, p)
    /\ \A k \in Key : KeyOK(r, v, a, k)
    /\ \A k, l \in Key : Apart(r, v, k, l)
    /\ \A c \in Clients : GetOK(r, v, a, p, c) /\ ListOK(r, v, a, p, c) /\ IdleOK(p, c)

(* What holds besides once nothing unreachable is left: New is free, and a  *)
(* pending GET is owed the value it points to.                              *)
Fits(v, a, x)  == v[x].list = NoSlice \/ Inside(a, v[x].list)
Free(r, v, p)  == /\ \A k \in Key : r[k] # New /\ (r[k] # Null => v[r[k]].list.block # New)
                  /\ \A c \in Clients : /\ p[c].cell # New /\ p[c].list.block # New
                                        /\ p[c].cell # Null => v[p[c].cell].list.block # New
Paid(v, a, p, c) == p[c].op = "GET" /\ ~p[c].cut => p[c].owed = {Shown(v, a, p[c].cell)}
Tidy(r, v, a, p) ==
    /\ Intact(r, v, a, p) /\ Free(r, v, p)
    /\ \A x \in Location : Fits(v, a, x)
    /\ \A c \in Clients : Paid(v, a, p, c)

(* The value a key holds, read through its pointer and its slice.           *)
ValueOf(r, v, a, k) == IF r[k] = Null THEN Missing ELSE Shown(v, a, r[k])
Held(k) == ValueOf(ref, val, arr, k)

(* What the keys show after a step: what they held in the heap it built; a  *)
(* new value of one key; the same as before.                                *)
Shows(r, v, a) == \A k \in Key : ValueOf(ref', val', arr', k) = ValueOf(r, v, a, k)
Puts(k, e)     == \A j \in Key : ValueOf(ref', val', arr', j) = IF j = k THEN e ELSE Held(j)
Moves(k, l)    == \A j \in Key : ValueOf(ref', val', arr', j) = IF j = k THEN Missing ELSE IF j = l THEN Held(k) ELSE Held(j)
Stays          == \A j \in Key : ValueOf(ref', val', arr', j) = Held(j)

(* The step that collects an intact heap, with the maps it names cells and  *)
(* arrays by.                                                               *)
Leaves(r, v, a, p, C, B) ==
    Intact(r, v, a, p) /\ Collected(r, v, a, p) /\ C = Cells(r, p) /\ B = Blocks(r, v, p)

-----------------------------------------------------------------------------
(* Names.                                                                   *)

(* The name of a location that at reaches is a root that reaches it.        *)
LEMMA Naming ==
    ASSUME NEW at, NEW i \in Root
    PROVE  /\ at[i] = Null <=> Name(at[i], at) = Null
           /\ at[i] # Null => Name(at[i], at) \in Root /\ at[Name(at[i], at)] = at[i]
                              /\ Named(Name(at[i], at), at)
<1>1. Null \notin Root
  BY RootAssumption
<1>2. CASE at[i] = Null
  BY <1>2 DEF Name
<1>3. CASE at[i] # Null
  <2> DEFINE n == CHOOSE j \in Root : at[j] = at[i]
  <2>1. n \in Root /\ at[n] = at[i]
    OBVIOUS
  <2>2. Name(at[i], at) = n
    BY <1>3 DEF Name
  <2>3. Name(at[n], at) = n
    BY <2>1, <2>2
  <2> QED
    BY <1>1, <1>3, <2>1, <2>2, <2>3 DEF Named
<1> QED
  BY <1>2, <1>3

(* Different locations have different names.                                *)
LEMMA SameName ==
    ASSUME NEW at, NEW i \in Root, NEW j \in Root
    PROVE  Name(at[i], at) = Name(at[j], at) <=> at[i] = at[j]
<1>1. Null \notin Root
  BY RootAssumption
<1>2. CASE at[i] = Null \/ at[j] = Null
  BY <1>1, <1>2, Naming
<1>3. CASE at[i] # Null /\ at[j] # Null
  BY <1>3, Naming
<1> QED
  BY <1>2, <1>3

(* The cells and arrays of keys and replies, by name.                       *)
LEMMA Reached ==
    ASSUME NEW r, NEW v, NEW a, NEW p, NEW C, NEW B, Leaves(r, v, a, p, C, B)
    PROVE  /\ \A k \in Key : k \in Root /\ C[k] = r[k]
           /\ \A k \in Key : r[k] # Null => B[k] = v[r[k]].list.block
           /\ \A c \in Clients : /\ c \in Root /\ C[c] = p[c].cell
                                 /\ B[c] = IF p[c].cell = Null THEN p[c].list.block ELSE v[p[c].cell].list.block
           /\ \A i \in Root : C[i] \in Location \cup {Null} /\ B[i] \in Location \cup {Null}
<1> USE DEF Leaves
<1>1. Shapes(r, v, a, p)
  BY DEF Intact
<1>2. \A k \in Key : k \in Root /\ C[k] = r[k]
  BY RootAssumption DEF Cells, Root
<1>3. \A k \in Key : B[k] = IF r[k] = Null THEN Null ELSE v[r[k]].list.block
  BY RootAssumption DEF Cells, Blocks, Root
<1>4. \A c \in Clients : /\ c \in Root /\ C[c] = p[c].cell
                         /\ B[c] = IF p[c].cell = Null THEN p[c].list.block ELSE v[p[c].cell].list.block
  BY RootAssumption DEF Cells, Blocks, Root
<1>5. ASSUME NEW k \in Key PROVE C[k] \in Location \cup {Null} /\ B[k] \in Location \cup {Null}
  <2>1. r[k] \in Location \cup {Null}
    BY <1>1, <1>5 DEF Shapes
  <2>2. CASE r[k] = Null
    BY <1>2, <1>3, <1>5, <2>2
  <2>3. CASE r[k] # Null
    <3>1. v[r[k]] \in Values
      BY <1>1, <2>1, <2>3 DEF Shapes
    <3>2. v[r[k]].list \in Slices
      BY <3>1 DEF Values
    <3>3. v[r[k]].list.block \in Location \cup {Null}
      BY <3>2 DEF Slices
    <3> QED
      BY <1>2, <1>3, <1>5, <2>1, <2>3, <3>3
  <2> QED
    BY <2>2, <2>3
<1>6. ASSUME NEW c \in Clients PROVE C[c] \in Location \cup {Null} /\ B[c] \in Location \cup {Null}
  <2>1. p[c] \in Replies
    BY <1>1, <1>6 DEF Shapes
  <2>2. p[c].cell \in Location \cup {Null} /\ p[c].list \in Slices
    BY <2>1 DEF Replies
  <2>3. p[c].list.block \in Location \cup {Null}
    BY <2>2 DEF Slices
  <2>4. ASSUME p[c].cell # Null PROVE v[p[c].cell].list.block \in Location \cup {Null}
    <3>1. v[p[c].cell] \in Values
      BY <1>1, <2>2, <2>4 DEF Shapes
    <3>2. v[p[c].cell].list \in Slices
      BY <3>1 DEF Values
    <3> QED
      BY <3>2 DEF Slices
  <2> QED
    BY <1>4, <1>6, <2>2, <2>3, <2>4
<1> QED
  BY <1>2, <1>3, <1>4, <1>5, <1>6 DEF Root

(* What is kept of a location, under the name i.                            *)
LEMMA ValueKept ==
    ASSUME NEW r, NEW v, NEW a, NEW p, NEW C, NEW B, Leaves(r, v, a, p, C, B), NEW i \in Location
    PROVE  /\ Named(i, C) => /\ v[C[i]] \in Values /\ val'[i].type = v[C[i]].type
                             /\ val'[i].str = v[C[i]].str /\ val'[i].list = Moved(v[C[i]].list, B)
                             /\ DOMAIN val'[i] = {"type", "str", "list"}
           /\ ~Named(i, C) => val'[i] = NoValue
<1>1. val'[i] = IF Named(i, C) THEN [v[C[i]] EXCEPT !.list = Moved(v[C[i]].list, B)] ELSE NoValue
  BY DEF Leaves, Collected
<1>2. ASSUME Named(i, C) PROVE v[C[i]] \in Values
  <2>1. C[i] \in Location
    BY <1>2, Reached DEF Named
  <2> QED
    BY <2>1 DEF Leaves, Intact, Shapes
<1> QED
  BY <1>1, <1>2 DEF Values

(* An array keeps its content under its new name.                           *)
LEMMA ArrayKept ==
    ASSUME NEW r, NEW v, NEW a, NEW p, NEW C, NEW B, Leaves(r, v, a, p, C, B), NEW i \in Location
    PROVE  arr'[i] = IF Named(i, B) THEN a[B[i]] ELSE <<>>
BY DEF Leaves, Collected

(* The name of what a root reaches names it.                                *)
LEMMA Renamed ==
    ASSUME NEW r, NEW v, NEW a, NEW p, NEW C, NEW B, Leaves(r, v, a, p, C, B), NEW i \in Root
    PROVE  /\ C[i] # Null => LET n == Name(C[i], C)
                             IN  /\ v[C[i]] \in Values /\ val'[n].type = v[C[i]].type
                                 /\ val'[n].str = v[C[i]].str /\ val'[n].list = Moved(v[C[i]].list, B)
           /\ B[i] # Null => arr'[Name(B[i], B)] = a[B[i]]
<1>1. ASSUME C[i] # Null
      PROVE  LET n == Name(C[i], C)
             IN  /\ v[C[i]] \in Values /\ val'[n].type = v[C[i]].type
                 /\ val'[n].str = v[C[i]].str /\ val'[n].list = Moved(v[C[i]].list, B)
  <2> DEFINE n == Name(C[i], C)
  <2>1. n \in Root /\ C[n] = C[i] /\ Named(n, C)
    BY <1>1, Naming
  <2>2. n \in Location
    BY <2>1 DEF Location
  <2> HIDE DEF n
  <2>3. /\ v[C[n]] \in Values /\ val'[n].type = v[C[n]].type
        /\ val'[n].str = v[C[n]].str /\ val'[n].list = Moved(v[C[n]].list, B)
    BY <2>1, <2>2, ValueKept
  <2> QED
    BY <2>1, <2>3 DEF n
<1>2. ASSUME B[i] # Null
      PROVE  arr'[Name(B[i], B)] = a[B[i]]
  <2> DEFINE n == Name(B[i], B)
  <2>1. n \in Root /\ B[n] = B[i] /\ Named(n, B)
    BY <1>2, Naming
  <2>2. n \in Location
    BY <2>1 DEF Location
  <2> HIDE DEF n
  <2>3. arr'[n] = a[B[n]]
    BY <2>1, <2>2, ArrayKept
  <2> QED
    BY <2>1, <2>3 DEF n
<1> QED
  BY <1>1, <1>2

(* A slice of an array that something reaches keeps its window.             *)
LEMMA MovedSlice ==
    ASSUME NEW at, NEW l \in Slices, NEW i \in Root, l.block = Null \/ l.block = at[i]
    PROVE  /\ Moved(l, at) \in Slices
           /\ Moved(l, at).block = Name(l.block, at) /\ Moved(l, at).block \in Root \cup {Null}
           /\ Moved(l, at).from = l.from /\ Moved(l, at).len = l.len
           /\ l = NoSlice => Moved(l, at) = NoSlice
<1> DEFINE n == Name(l.block, at)
<1>1. n \in Root \cup {Null} /\ (l.block = Null => n = Null)
  <2>1. Name(Null, at) = Null
    BY DEF Name
  <2> QED
    BY <2>1, Naming
<1>2. Moved(l, at) = [l EXCEPT !.block = n]
  BY DEF Moved
<1> HIDE DEF n
<1>3. Moved(l, at) \in Slices /\ Moved(l, at).block = n /\ Moved(l, at).from = l.from /\ Moved(l, at).len = l.len
  BY <1>1, <1>2 DEF Slices, Location
<1>4. l = NoSlice => Moved(l, at) = NoSlice
  BY <1>1, <1>2 DEF NoSlice, Slice
<1> QED
  BY <1>1, <1>3, <1>4 DEF n

(* A key after a step, and the value it holds.                              *)
LEMMA KeyAfter ==
    ASSUME NEW r, NEW v, NEW a, NEW p, NEW C, NEW B, Leaves(r, v, a, p, C, B), NEW k \in Key
    PROVE  /\ k \in Root /\ C[k] = r[k]
           /\ ref'[k] = Name(r[k], C) /\ ref'[k] \in Root \cup {Null}
           /\ ref'[k] = Null <=> r[k] = Null
           /\ r[k] # Null =>
                 /\ val'[ref'[k]].type = v[r[k]].type /\ val'[ref'[k]].str = v[r[k]].str
                 /\ val'[ref'[k]].list = Moved(v[r[k]].list, B)
                 /\ v[r[k]].list \in Slices /\ v[r[k]].list.block = B[k]
                 /\ v[r[k]].type = "list" => arr'[Name(B[k], B)] = a[B[k]] /\ B[k] # Null
<1>1. KeyOK(r, v, a, k) /\ k \in Root /\ C[k] = r[k] /\ ref'[k] = Name(r[k], C)
  <2>1. KeyOK(r, v, a, k)
    BY DEF Leaves, Intact
  <2>2. ref'[k] = Name(r[k], C)
    BY DEF Leaves, Collected
  <2> QED
    BY <2>1, <2>2, Reached
<1>2. ref'[k] \in Root \cup {Null} /\ (ref'[k] = Null <=> r[k] = Null)
  BY <1>1, Naming, RootAssumption
<1>3. ASSUME r[k] # Null
      PROVE  /\ val'[ref'[k]].type = v[r[k]].type /\ val'[ref'[k]].str = v[r[k]].str
             /\ val'[ref'[k]].list = Moved(v[r[k]].list, B)
             /\ v[r[k]].list \in Slices /\ v[r[k]].list.block = B[k]
             /\ v[r[k]].type = "list" => arr'[Name(B[k], B)] = a[B[k]] /\ B[k] # Null
  <2>1. /\ v[r[k]] \in Values /\ val'[ref'[k]].type = v[r[k]].type
        /\ val'[ref'[k]].str = v[r[k]].str /\ val'[ref'[k]].list = Moved(v[r[k]].list, B)
    BY <1>1, <1>3, Renamed
  <2>2. v[r[k]].list.block = B[k]
    BY <1>3, Reached
  <2>3. v[r[k]].type = "list" => B[k] # Null
    <3>1. v[r[k]].type = "list" => v[r[k]].list.block \in Location
      BY <1>1, <1>3 DEF KeyOK, Whole, Inside
    <3> QED
      BY <2>2, <3>1, RootAssumption DEF Location, New, Null
  <2>4. v[r[k]].type = "list" => arr'[Name(B[k], B)] = a[B[k]]
    BY <1>1, <2>3, Renamed
  <2> QED
    BY <2>1, <2>2, <2>3, <2>4 DEF Values
<1> QED
  BY <1>1, <1>2, <1>3

(* A value something reaches is whole, and its array is that of the root.   *)
LEMMA CellOK ==
    ASSUME NEW r, NEW v, NEW a, NEW p, NEW C, NEW B, Leaves(r, v, a, p, C, B), NEW i \in Root, C[i] # Null
    PROVE  /\ v[C[i]] \in Values /\ Whole(v, a, C[i])
           /\ v[C[i]].list.block = B[i]
<1>1. CASE i \in Key
  <2>1. KeyOK(r, v, a, i) /\ C[i] = r[i]
    BY <1>1, Reached DEF Leaves, Intact
  <2>2. B[i] = v[r[i]].list.block
    BY <1>1, <2>1, Reached
  <2> QED
    BY <1>1, <2>1, <2>2, Renamed DEF KeyOK
<1>2. CASE i \in Clients
  <2>1. GetOK(r, v, a, p, i) /\ ListOK(r, v, a, p, i) /\ IdleOK(p, i) /\ p[i] \in Replies
    BY <1>2 DEF Leaves, Intact, Shapes
  <2>2. C[i] = p[i].cell /\ B[i] = IF p[i].cell = Null THEN p[i].list.block ELSE v[p[i].cell].list.block
    BY <1>2, Reached
  <2>3. p[i].op = "GET"
    <3>1. p[i].op # "none"
      BY <2>1, <2>2 DEF IdleOK, NoReply
    <3>2. p[i].op \notin ListOps
      BY <2>1, <2>2 DEF ListOK
    <3> QED
      BY <2>1, <3>1, <3>2 DEF Replies
  <2> QED
    BY <2>1, <2>2, <2>3, Renamed DEF GetOK
<1> QED
  BY <1>1, <1>2 DEF Root

(* It is as whole under its new name, and shows the same.                   *)
LEMMA CellAfter ==
    ASSUME NEW r, NEW v, NEW a, NEW p, NEW C, NEW B, Leaves(r, v, a, p, C, B), NEW i \in Root, C[i] # Null,
           NEW n, n = Name(C[i], C)
    PROVE  /\ Whole(val', arr', n) /\ Shown(val', arr', n) = Shown(v, a, C[i])
           /\ val'[n].type = v[C[i]].type /\ val'[n].list.block = Name(B[i], B)
           /\ val'[n].list.block \in Root \cup {Null}
<1>1. /\ val'[n].type = v[C[i]].type /\ val'[n].str = v[C[i]].str
      /\ val'[n].list = Moved(v[C[i]].list, B) /\ v[C[i]] \in Values
  BY Renamed
<1>2. Whole(v, a, C[i]) /\ v[C[i]].list.block = B[i] /\ v[C[i]].list \in Slices
  BY CellOK DEF Values
<1>3. /\ val'[n].list.block = Name(B[i], B) /\ val'[n].list.block \in Root \cup {Null}
      /\ val'[n].list.from = v[C[i]].list.from /\ val'[n].list.len = v[C[i]].list.len
      /\ v[C[i]].list = NoSlice => val'[n].list = NoSlice
  BY <1>1, <1>2, MovedSlice
<1>4. CASE v[C[i]].type = "string" /\ v[C[i]].list = NoSlice
  BY <1>1, <1>3, <1>4 DEF Whole, Shown
<1>5. CASE v[C[i]].type = "list" /\ Inside(a, v[C[i]].list)
  <2>1. B[i] # Null
    BY <1>2, <1>5, RootAssumption DEF Inside, Location, New, Null
  <2>2. arr'[Name(B[i], B)] = a[B[i]] /\ Name(B[i], B) \in Location
    BY <2>1, Naming, Renamed DEF Location
  <2>3. Inside(arr', val'[n].list)
    BY <1>2, <1>3, <1>5, <2>2 DEF Inside
  <2>4. Seen(arr', val'[n].list) = Seen(a, v[C[i]].list)
    BY <1>2, <1>3, <2>2 DEF Seen
  <2> QED
    BY <1>1, <1>3, <1>5, <2>3, <2>4 DEF Whole, Shown
<1> QED
  BY <1>1, <1>2, <1>3, <1>4, <1>5 DEF Whole

(* A pending reply after a step.                                            *)
LEMMA ReplyAfter ==
    ASSUME NEW r, NEW v, NEW a, NEW p, NEW C, NEW B, Leaves(r, v, a, p, C, B), NEW c \in Clients
    PROVE  /\ reply'[c] \in Replies /\ c \in Root /\ C[c] = p[c].cell
           /\ reply'[c].op = p[c].op /\ reply'[c].key = p[c].key /\ reply'[c].sent = p[c].sent
           /\ reply'[c].owed = p[c].owed /\ reply'[c].cut = p[c].cut
           /\ reply'[c].cell = Name(p[c].cell, C) /\ reply'[c].list = Moved(p[c].list, B)
           /\ reply'[c].cell \in Root \cup {Null} /\ (reply'[c].cell = Null <=> p[c].cell = Null)
           /\ p[c] \in Replies /\ p[c].list \in Slices /\ p[c].list.block \in {Null, B[c]}
           /\ p[c] = NoReply => reply'[c] = NoReply
           /\ p[c].op \in ListOps => arr'[Name(B[c], B)] = a[B[c]] /\ B[c] # Null /\ p[c].list.block = B[c]
<1>1. /\ Shapes(r, v, a, p) /\ GetOK(r, v, a, p, c) /\ ListOK(r, v, a, p, c)
      /\ c \in Root /\ C[c] = p[c].cell /\ p[c] \in Replies
      /\ p[c].list.block \in {Null, B[c]} /\ (p[c].op \in ListOps => p[c].list.block = B[c])
  <2>1. /\ Shapes(r, v, a, p) /\ GetOK(r, v, a, p, c) /\ ListOK(r, v, a, p, c) /\ IdleOK(p, c)
        /\ p[c] \in Replies
    BY DEF Leaves, Intact, Shapes
  <2>2. /\ c \in Root /\ C[c] = p[c].cell
        /\ B[c] = IF p[c].cell = Null THEN p[c].list.block ELSE v[p[c].cell].list.block
    BY Reached
  <2>3. p[c].op \in ListOps => p[c].list.block = B[c]
    BY <2>1, <2>2 DEF ListOK
  <2>4. p[c].op \notin ListOps => p[c].list = NoSlice
    <3>1. p[c].op \notin ListOps => p[c].op \in {"none", "GET"}
      BY <2>1 DEF Replies
    <3> QED
      BY <2>1, <3>1 DEF GetOK, IdleOK, NoReply
  <2>5. NoSlice.block = Null
    BY DEF NoSlice, Slice
  <2> QED
    BY <2>1, <2>2, <2>3, <2>4, <2>5
<1>2. reply'[c] = [p[c] EXCEPT !.cell = Name(p[c].cell, C), !.list = Moved(p[c].list, B)]
  BY DEF Leaves, Collected
<1>3. p[c] \in Replies /\ p[c].list \in Slices
  BY <1>1 DEF Shapes, Replies
<1>4. Name(p[c].cell, C) \in Root \cup {Null} /\ (Name(p[c].cell, C) = Null <=> p[c].cell = Null)
  BY <1>1, Naming, RootAssumption
<1>5. Moved(p[c].list, B) \in Slices /\ (p[c].list = NoSlice => Moved(p[c].list, B) = NoSlice)
  BY <1>1, <1>3, MovedSlice
<1>6. /\ reply'[c] \in Replies
      /\ reply'[c].op = p[c].op /\ reply'[c].key = p[c].key /\ reply'[c].sent = p[c].sent
      /\ reply'[c].owed = p[c].owed /\ reply'[c].cut = p[c].cut
      /\ reply'[c].cell = Name(p[c].cell, C) /\ reply'[c].list = Moved(p[c].list, B)
  BY <1>2, <1>3, <1>4, <1>5 DEF Replies, Location
<1>7. ASSUME p[c] = NoReply PROVE reply'[c] = NoReply
  <2>1. Name(Null, C) = Null
    BY DEF Name
  <2>2. p[c].cell = Null /\ p[c].list = NoSlice
    BY <1>7 DEF NoReply
  <2>3. reply'[c] = [NoReply EXCEPT !.cell = Null, !.list = NoSlice]
    BY <1>2, <1>5, <1>7, <2>1, <2>2
  <2> QED
    BY <2>3 DEF NoReply
<1>8. ASSUME p[c].op \in ListOps PROVE arr'[Name(B[c], B)] = a[B[c]] /\ B[c] # Null
  <2>1. p[c].list.block # Null
    BY <1>1, <1>8, RootAssumption DEF ListOK, Inside, Location, New, Null
  <2> QED
    BY <1>1, <2>1, Renamed
<1> QED
  BY <1>1, <1>3, <1>4, <1>6, <1>7, <1>8

(* The list a key holds after a step: the same window of the same elements. *)
LEMMA KeyList ==
    ASSUME NEW r, NEW v, NEW a, NEW p, NEW C, NEW B, Leaves(r, v, a, p, C, B), NEW k \in Key, r[k] # Null
    PROVE  /\ val'[ref'[k]].list \in Slices /\ val'[ref'[k]].list.block = Name(B[k], B)
           /\ val'[ref'[k]].list.block \in Root \cup {Null}
           /\ val'[ref'[k]].list.from = v[r[k]].list.from /\ val'[ref'[k]].list.len = v[r[k]].list.len
           /\ v[r[k]].list = NoSlice => val'[ref'[k]].list = NoSlice
BY KeyAfter, MovedSlice

(* The slice a reply waits for, likewise.                                   *)
LEMMA ReplyList ==
    ASSUME NEW r, NEW v, NEW a, NEW p, NEW C, NEW B, Leaves(r, v, a, p, C, B), NEW c \in Clients
    PROVE  /\ reply'[c].list.block = Name(p[c].list.block, B) /\ reply'[c].list.block \in Root \cup {Null}
           /\ reply'[c].list.from = p[c].list.from /\ reply'[c].list.len = p[c].list.len
           /\ p[c].list = NoSlice => reply'[c].list = NoSlice
<1>1. /\ reply'[c].list = Moved(p[c].list, B) /\ p[c].list \in Slices /\ c \in Root
      /\ p[c].list.block = Null \/ p[c].list.block = B[c]
  BY ReplyAfter
<1> QED
  BY <1>1, MovedSlice

(* Each value after a step is a value, and its list lies in its array.      *)
LEMMA ValueAfter ==
    ASSUME NEW r, NEW v, NEW a, NEW p, NEW C, NEW B, Leaves(r, v, a, p, C, B), NEW i \in Location
    PROVE  val'[i] \in Values /\ Fits(val', arr', i)
<1>1. CASE Named(i, C)
  <2>1. i \in Root /\ C[i] # Null
    BY <1>1 DEF Named
  <2>2. /\ v[C[i]] \in Values /\ val'[i].type = v[C[i]].type /\ val'[i].str = v[C[i]].str
        /\ val'[i].list = Moved(v[C[i]].list, B)
    BY <1>1, ValueKept
  <2>3. val'[i] = [v[C[i]] EXCEPT !.list = Moved(v[C[i]].list, B)]
    BY <1>1 DEF Leaves, Collected
  <2>4. v[C[i]].list \in Slices /\ v[C[i]].list.block = B[i]
    BY <2>1, <2>2, CellOK DEF Values
  <2>5. /\ Moved(v[C[i]].list, B) \in Slices
        /\ Moved(v[C[i]].list, B).from = v[C[i]].list.from /\ Moved(v[C[i]].list, B).len = v[C[i]].list.len
        /\ Moved(v[C[i]].list, B).block = Name(v[C[i]].list.block, B)
        /\ Moved(v[C[i]].list, B).block \in Root \cup {Null}
        /\ v[C[i]].list = NoSlice => Moved(v[C[i]].list, B) = NoSlice
    BY <2>1, <2>4, MovedSlice
  <2>6. val'[i] \in Values
    BY <2>2, <2>3, <2>5 DEF Values
  <2>7. CASE v[C[i]].list = NoSlice
    BY <2>2, <2>5, <2>6, <2>7 DEF Fits
  <2>8. CASE Inside(a, v[C[i]].list) /\ v[C[i]].list.block = B[i]
    <3>1. B[i] # Null
      BY <2>8, RootAssumption DEF Inside, Location, New, Null
    <3>2. arr'[Name(B[i], B)] = a[B[i]] /\ Name(B[i], B) \in Location
      BY <2>1, <3>1, Naming, Renamed DEF Location
    <3> QED
      BY <2>2, <2>5, <2>6, <2>8, <3>2 DEF Fits, Inside
  <2> QED
    BY <2>1, <2>4, <2>6, <2>7, <2>8, CellOK DEF Whole
<1>2. CASE ~Named(i, C)
  <2>1. val'[i] = NoValue
    BY <1>2, ValueKept
  <2>2. NoValue \in Values /\ NoValue.list = NoSlice
    BY DEF NoValue, Values, Elem, NoSlice, Slice, Slices
  <2> QED
    BY <2>1, <2>2 DEF Fits
<1> QED
  BY <1>1, <1>2

(* Collecting keeps the types.                                              *)
LEMMA ShapesAfter ==
    ASSUME NEW r, NEW v, NEW a, NEW p, NEW C, NEW B, Leaves(r, v, a, p, C, B)
    PROVE  Shapes(ref', val', arr', reply')
<1>1. ref' \in [Key -> Location \cup {Null}]
  <2>1. ref' = [k \in Key |-> Name(r[k], C)]
    BY DEF Leaves, Collected
  <2>2. \A k \in Key : ref'[k] \in Location \cup {Null}
    BY KeyAfter DEF Location
  <2> QED
    BY <2>1, <2>2
<1>2. val' \in [Location -> Values]
  <2>1. val' = [i \in Location |-> val'[i]]
    BY DEF Leaves, Collected
  <2>2. \A i \in Location : val'[i] \in Values
    BY ValueAfter
  <2> QED
    BY <2>1, <2>2
<1>3. arr' \in [Location -> Seq(Elem)]
  <2>1. arr' = [i \in Location |-> arr'[i]]
    BY DEF Leaves, Collected
  <2>2. ASSUME NEW i \in Location PROVE arr'[i] \in Seq(Elem)
    <3>1. CASE Named(i, B)
      <4>1. i \in Root /\ B[i] # Null
        BY <3>1 DEF Named
      <4>2. B[i] \in Location
        BY <4>1, Reached
      <4>3. arr'[i] = a[B[i]]
        BY <2>2, <3>1, ArrayKept
      <4>4. a \in [Location -> Seq(Elem)]
        BY DEF Leaves, Intact, Shapes
      <4> QED
        BY <4>2, <4>3, <4>4
    <3>2. CASE ~Named(i, B)
      <4>1. arr'[i] = <<>>
        BY <2>2, <3>2, ArrayKept
      <4> QED
        BY <4>1, EmptySeq
    <3> QED
      BY <3>1, <3>2
  <2> QED
    BY <2>1, <2>2
<1>4. reply' \in [Clients -> Replies]
  <2>1. reply' = [c \in Clients |-> reply'[c]]
    BY DEF Leaves, Collected
  <2>2. \A c \in Clients : reply'[c] \in Replies
    BY ReplyAfter
  <2> QED
    BY <2>1, <2>2
<1> QED
  BY <1>1, <1>2, <1>3, <1>4 DEF Shapes

(* Collecting keeps every key a well-formed value, apart from the others.   *)
LEMMA KeysAfter ==
    ASSUME NEW r, NEW v, NEW a, NEW p, NEW C, NEW B, Leaves(r, v, a, p, C, B), NEW k \in Key
    PROVE  /\ KeyOK(ref', val', arr', k)
           /\ \A l \in Key : Apart(ref', val', k, l)
           /\ ListAt(ref', val', k) => ListAt(r, v, k)
<1>1. KeyOK(r, v, a, k)
  BY DEF Leaves, Intact
<1>2. KeyOK(ref', val', arr', k)
  <2> SUFFICES ASSUME r[k] # Null
               PROVE  \/ val'[ref'[k]].type = "string" /\ val'[ref'[k]].list = NoSlice
                      \/ val'[ref'[k]].type = "list" /\ Inside(arr', val'[ref'[k]].list)
    BY KeyAfter DEF KeyOK, Whole
  <2>1. CASE v[r[k]].type = "string" /\ v[r[k]].list = NoSlice
    BY <2>1, KeyAfter, KeyList
  <2>2. CASE v[r[k]].type = "list" /\ Inside(a, v[r[k]].list)
    <3>1. /\ val'[ref'[k]].type = "list" /\ arr'[Name(B[k], B)] = a[B[k]] /\ B[k] # Null
          /\ v[r[k]].list.block = B[k] /\ k \in Root
      BY <2>2, KeyAfter
    <3>2. /\ val'[ref'[k]].list.block = Name(B[k], B)
          /\ val'[ref'[k]].list.from = v[r[k]].list.from /\ val'[ref'[k]].list.len = v[r[k]].list.len
      BY KeyList
    <3>3. Name(B[k], B) \in Location
      BY <3>1, Naming DEF Location
    <3> QED
      BY <2>2, <3>1, <3>2, <3>3 DEF Inside
  <2> QED
    BY <1>1, <2>1, <2>2 DEF KeyOK, Whole
<1>3. ASSUME NEW l \in Key, ListAt(ref', val', l) PROVE ListAt(r, v, l) /\ val'[ref'[l]].list.block = Name(B[l], B)
                                                      /\ B[l] = v[r[l]].list.block /\ l \in Root
  BY <1>3, KeyAfter, KeyList DEF ListAt
<1>4. ASSUME NEW l \in Key PROVE Apart(ref', val', k, l)
  <2> SUFFICES ASSUME k # l, ref'[k] # Null
               PROVE  /\ ref'[k] # ref'[l]
                      /\ ListAt(ref', val', k) /\ ListAt(ref', val', l) =>
                            val'[ref'[k]].list.block # val'[ref'[l]].list.block
    BY DEF Apart
  <2>1. Apart(r, v, k, l)
    BY <1>4 DEF Leaves, Intact
  <2>2. r[k] # Null /\ ref'[k] = Name(C[k], C) /\ C[k] = r[k] /\ k \in Root
    BY KeyAfter
  <2>3. ref'[l] = Name(C[l], C) /\ C[l] = r[l] /\ l \in Root
    BY <1>4, KeyAfter
  <2>4. ref'[k] # ref'[l]
    BY <2>1, <2>2, <2>3, SameName DEF Apart
  <2>5. ASSUME ListAt(ref', val', k), ListAt(ref', val', l)
        PROVE  val'[ref'[k]].list.block # val'[ref'[l]].list.block
    <3>1. ListAt(r, v, k) /\ val'[ref'[k]].list.block = Name(B[k], B) /\ B[k] = v[r[k]].list.block
      BY <1>3, <2>5
    <3>2. ListAt(r, v, l) /\ val'[ref'[l]].list.block = Name(B[l], B) /\ B[l] = v[r[l]].list.block
      BY <1>3, <1>4, <2>5
    <3>3. B[k] # B[l]
      BY <2>1, <2>2, <3>1, <3>2 DEF Apart
    <3> QED
      BY <2>2, <2>3, <3>1, <3>2, <3>3, SameName
  <2> QED
    BY <2>4, <2>5
<1> QED
  BY <1>2, <1>3, <1>4

(* Collecting keeps what is said of a pending reply.                        *)
LEMMA RepliesAfter ==
    ASSUME NEW r, NEW v, NEW a, NEW p, NEW C, NEW B, Leaves(r, v, a, p, C, B), NEW c \in Clients
    PROVE  /\ GetOK(ref', val', arr', reply', c) /\ ListOK(ref', val', arr', reply', c) /\ IdleOK(reply', c)
           /\ Paid(v, a, p, c) => Paid(val', arr', reply', c)
<1>1. GetOK(r, v, a, p, c) /\ ListOK(r, v, a, p, c) /\ IdleOK(p, c)
  BY DEF Leaves, Intact
<1>2. IdleOK(reply', c)
  BY <1>1, ReplyAfter DEF IdleOK
<1>3. /\ reply'[c].op = p[c].op /\ reply'[c].key = p[c].key /\ reply'[c].sent = p[c].sent
      /\ reply'[c].owed = p[c].owed /\ reply'[c].cut = p[c].cut
      /\ reply'[c].cell = Name(C[c], C) /\ C[c] = p[c].cell /\ c \in Root
      /\ (reply'[c].cell = Null <=> p[c].cell = Null)
  BY ReplyAfter
<1>a. ASSUME p[c].op = "GET"
      PROVE  LET n == reply'[c].cell
             IN  /\ Whole(val', arr', n) /\ Shown(val', arr', n) = Shown(v, a, p[c].cell)
                 /\ val'[n].type = v[p[c].cell].type /\ val'[n].list.block = Name(B[c], B)
                 /\ v[p[c].cell].list.block = B[c]
  <2>1. p[c].cell # Null
    BY <1>1, <1>a DEF GetOK
  <2> QED
    BY <1>3, <2>1, CellOK, CellAfter
<1>b. Paid(v, a, p, c) => Paid(val', arr', reply', c)
  BY <1>3, <1>a DEF Paid
<1>4. GetOK(ref', val', arr', reply', c)
  <2> SUFFICES ASSUME reply'[c].op = "GET" PROVE GetOK(ref', val', arr', reply', c)
    BY DEF GetOK
  <2> DEFINE n == reply'[c].cell
  <2>1. p[c].op = "GET"
    BY <1>3
  <2>2. reply'[c].list = NoSlice
    BY <1>1, <2>1, ReplyList DEF GetOK
  <2>3. \A k \in Key : ref'[k] = n <=> r[k] = p[c].cell
    <3>1. \A k \in Key : ref'[k] = Name(C[k], C) /\ C[k] = r[k] /\ k \in Root
      BY KeyAfter
    <3> QED
      BY <1>3, <3>1, SameName
  <2>4. Alone(ref', val', n)
    <3> SUFFICES ASSUME NEW k \in Key, val'[n].type = "list", ListAt(ref', val', k),
                        val'[ref'[k]].list.block = val'[n].list.block
                 PROVE  ref'[k] = n
      BY DEF Alone
    <3>1. ListAt(r, v, k)
      BY KeysAfter
    <3>2. k \in Root /\ v[r[k]].list.block = B[k] /\ val'[ref'[k]].list.block = Name(B[k], B)
      BY <3>1, KeyAfter, KeyList DEF ListAt
    <3>3. B[k] = B[c]
      BY <1>3, <1>a, <2>1, <3>2, SameName
    <3>4. Alone(r, v, p[c].cell)
      BY <1>1, <2>1 DEF GetOK
    <3>5. r[k] = p[c].cell
      BY <1>a, <2>1, <3>1, <3>2, <3>3, <3>4 DEF Alone
    <3> QED
      BY <2>3, <3>5
  <2>5. p[c].key \in Key /\ p[c].cell # Null /\ p[c].sent = <<>>
    BY <1>1, <2>1 DEF GetOK
  <2>6. Whole(val', arr', n) /\ Shown(val', arr', n) = Shown(v, a, p[c].cell)
    BY <1>a, <2>1
  <2>7. ASSUME ~p[c].cut
        PROVE  /\ \A k \in Key : r[k] = p[c].cell => k = p[c].key
               /\ p[c].owed = {Shown(v, a, p[c].cell)} \/ r[p[c].key] = p[c].cell
    BY <1>1, <2>1, <2>7 DEF GetOK
  <2> HIDE DEF n
  <2> QED
    BY <1>3, <2>2, <2>3, <2>4, <2>5, <2>6, <2>7 DEF GetOK, n
<1>5. ListOK(ref', val', arr', reply', c)
  <2> SUFFICES ASSUME reply'[c].op \in ListOps PROVE ListOK(ref', val', arr', reply', c)
    BY DEF ListOK
  <2>1. /\ p[c].op \in ListOps /\ reply'[c].sent = p[c].sent
        /\ reply'[c].owed = p[c].owed /\ reply'[c].cut = p[c].cut /\ c \in Root
        /\ (reply'[c].cell = Null <=> p[c].cell = Null)
        /\ p[c].list.block = B[c] /\ arr'[Name(B[c], B)] = a[B[c]] /\ B[c] # Null
    BY <1>3, ReplyAfter
  <2>2. /\ reply'[c].list.block = Name(B[c], B)
        /\ reply'[c].list.from = p[c].list.from /\ reply'[c].list.len = p[c].list.len
    BY <2>1, ReplyList
  <2>3. Name(B[c], B) \in Location
    BY <2>1, Naming DEF Location
  <2>4. Inside(arr', reply'[c].list)
    BY <1>1, <2>1, <2>2, <2>3 DEF ListOK, Inside
  <2>5. Seen(arr', reply'[c].list) = Seen(a, p[c].list)
    BY <2>1, <2>2 DEF Seen
  <2>6. ASSUME NEW k \in Key, ListAt(ref', val', k), val'[ref'[k]].list.block = reply'[c].list.block
        PROVE  /\ ListAt(r, v, k) /\ v[r[k]].list.block = p[c].list.block
               /\ End(val'[ref'[k]].list) = End(v[r[k]].list)
    <3>1. ListAt(r, v, k)
      BY <2>6, KeysAfter
    <3>2. k \in Root /\ v[r[k]].list.block = B[k]
      BY <2>6, <3>1, KeyAfter DEF ListAt
    <3>3. /\ val'[ref'[k]].list.block = Name(B[k], B)
          /\ val'[ref'[k]].list.from = v[r[k]].list.from /\ val'[ref'[k]].list.len = v[r[k]].list.len
      BY <2>6, <3>1, KeyList DEF ListAt
    <3>4. B[k] = B[c]
      <4>1. Name(B[k], B) = Name(B[c], B)
        BY <2>2, <2>6, <3>3
      <4> QED
        BY <2>1, <3>2, <4>1, SameName
    <3> QED
      BY <2>1, <3>1, <3>2, <3>3, <3>4 DEF End
  <2> QED
    BY <1>1, <2>1, <2>2, <2>4, <2>5, <2>6 DEF ListOK
<1> QED
  BY <1>2, <1>4, <1>5, <1>b

(* Once the unreachable is gone, New is free.                               *)
LEMMA FreeAfter ==
    ASSUME NEW r, NEW v, NEW a, NEW p, NEW C, NEW B, Leaves(r, v, a, p, C, B)
    PROVE  Free(ref', val', reply')
<1>1. New \notin Root \cup {Null}
  BY RootAssumption DEF New, Null
<1>2. \A k \in Key : ref'[k] \in Root \cup {Null} /\ (ref'[k] = Null <=> r[k] = Null)
  BY KeyAfter
<1>3. \A k \in Key : r[k] # Null => val'[ref'[k]].list.block \in Root \cup {Null}
  BY KeyList
<1>4. \A c \in Clients : reply'[c].cell \in Root \cup {Null}
  BY ReplyAfter
<1>5. \A c \in Clients : reply'[c].list.block \in Root \cup {Null}
  BY ReplyList
<1>6. ASSUME NEW c \in Clients, reply'[c].cell # Null PROVE val'[reply'[c].cell].list.block \in Root \cup {Null}
  BY <1>6, ReplyAfter, CellAfter
<1> QED
  BY <1>1, <1>2, <1>3, <1>4, <1>5, <1>6 DEF Free

(* The keys show what they held before the collection.                      *)
LEMMA ShownAfter ==
    ASSUME NEW r, NEW v, NEW a, NEW p, NEW C, NEW B, Leaves(r, v, a, p, C, B)
    PROVE  Shows(r, v, a)
<1> SUFFICES ASSUME NEW k \in Key PROVE ValueOf(ref', val', arr', k) = ValueOf(r, v, a, k)
  BY DEF Shows
<1>1. CASE r[k] = Null
  BY <1>1, KeyAfter DEF ValueOf, Shown
<1>2. CASE r[k] # Null
  <2>1. /\ ref'[k] # Null /\ val'[ref'[k]].type = v[r[k]].type /\ val'[ref'[k]].str = v[r[k]].str
        /\ v[r[k]].list.block = B[k]
    BY <1>2, KeyAfter
  <2>2. CASE v[r[k]].type = "string"
    BY <1>2, <2>1, <2>2 DEF ValueOf, Shown
  <2>3. CASE v[r[k]].type # "string"
    <3>1. v[r[k]].type = "list"
      BY <1>2, <2>3 DEF Leaves, Intact, KeyOK, Whole
    <3>2. arr'[Name(B[k], B)] = a[B[k]]
      BY <1>2, <3>1, KeyAfter
    <3>3. /\ val'[ref'[k]].list.block = Name(B[k], B) /\ val'[ref'[k]].list.from = v[r[k]].list.from
          /\ val'[ref'[k]].list.len = v[r[k]].list.len
      BY <1>2, KeyList
    <3>4. Seen(arr', val'[ref'[k]].list) = Seen(a, v[r[k]].list)
      BY <2>1, <3>2, <3>3 DEF Seen
    <3> QED
      BY <1>2, <2>1, <2>3, <3>4 DEF ValueOf, Shown
  <2> QED
    BY <2>2, <2>3
<1> QED
  BY <1>1, <1>2

(* Collecting an intact heap that owes nothing leaves a tidy one.           *)
LEMMA CollectedTidy ==
    ASSUME NEW r, NEW v, NEW a, NEW p, Intact(r, v, a, p), Collected(r, v, a, p),
           \A c \in Clients : Paid(v, a, p, c)
    PROVE  Tidy(ref', val', arr', reply') /\ Shows(r, v, a)
<1>1. PICK C, B : Leaves(r, v, a, p, C, B)
  BY DEF Leaves
<1>2. \A k \in Key : KeyOK(ref', val', arr', k) /\ \A l \in Key : Apart(ref', val', k, l)
  BY <1>1, KeysAfter
<1>3. \A c \in Clients : GetOK(ref', val', arr', reply', c) /\ ListOK(ref', val', arr', reply', c) /\ IdleOK(reply', c)
  BY <1>1, RepliesAfter
<1>4. \A c \in Clients : Paid(val', arr', reply', c)
  BY <1>1, RepliesAfter
<1>5. \A x \in Location : Fits(val', arr', x)
  BY <1>1, ValueAfter
<1> QED
  BY <1>1, <1>2, <1>3, <1>4, <1>5, ShapesAfter, FreeAfter, ShownAfter DEF Tidy, Intact

-----------------------------------------------------------------------------
(* What a slice shows is a sequence of elements, as long as the slice.      *)
LEMMA SeenType ==
    ASSUME NEW a \in [Location -> Seq(Elem)], NEW s \in Slices, Inside(a, s)
    PROVE  Seen(a, s) \in Seq(Elem) /\ Len(Seen(a, s)) = s.len
<1>1. a[s.block] \in Seq(Elem) /\ s.from \in Nat /\ s.len \in Nat /\ s.from + s.len <= Len(a[s.block])
  BY DEF Inside, Slices
<1>2. \A i \in s.from + 1 .. s.from + s.len : a[s.block][i] \in Elem
  <2> DEFINE f == s.from
             e == s.len
             g == Len(a[s.block])
  <2>1. f \in Nat /\ e \in Nat /\ g \in Nat /\ f + e <= g
    BY <1>1
  <2> HIDE DEF f, e, g
  <2>2. \A i \in f + 1 .. f + e : i \in 1 .. g
    BY <2>1
  <2> QED
    BY <1>1, <2>2, ElementOfSeq DEF f, e, g
<1>3. s.from + 1 \in Int /\ s.from + s.len \in Int
  BY <1>1
<1>4. Len(SubSeq(a[s.block], s.from + 1, s.from + s.len)) = s.len
  BY <1>1, <1>2, <1>3, SubSeqProperties
<1>5. SubSeq(a[s.block], s.from + 1, s.from + s.len) \in Seq(Elem)
  BY <1>2, <1>3, SubSeqProperties
<1> QED
  BY <1>4, <1>5 DEF Seen

(* What a whole value shows is a plain one.                                 *)
LEMMA ShownType ==
    ASSUME NEW v \in [Location -> Values], NEW a \in [Location -> Seq(Elem)], NEW x \in Location, Whole(v, a, x)
    PROVE  Shown(v, a, x) \in PlainValues
<1>1. v[x].str \in Elem /\ v[x].list \in Slices
  BY DEF Values
<1>2. CASE v[x].type = "string"
  BY <1>1, <1>2 DEF Shown, PlainValues
<1>3. CASE v[x].type = "list" /\ Inside(a, v[x].list)
  <2>1. Seen(a, v[x].list) \in Seq(Elem)
    BY <1>1, <1>3, SeenType
  <2> QED
    BY <1>3, <2>1 DEF Shown, PlainValues
<1> QED
  BY <1>2, <1>3 DEF Whole

(* What pending GETs see of a step.                                         *)
LEMMA SeeingIntact ==
    ASSUME NEW r, NEW v, NEW a, NEW p, Intact(r, v, a, p), NEW q, q = Seeing(r, v, a, p)
    PROVE  Intact(r, v, a, q) /\ \A c \in Clients : Paid(v, a, q, c)
<1>1. Shapes(r, v, a, p)
  BY DEF Intact
<1>2. ASSUME NEW c \in Clients
      PROVE  /\ q[c] \in Replies
             /\ q[c].op = p[c].op /\ q[c].key = p[c].key /\ q[c].cell = p[c].cell /\ q[c].list = p[c].list
             /\ q[c].sent = p[c].sent /\ q[c].cut = p[c].cut
             /\ p[c].op # "GET" => q[c] = p[c]
             /\ p[c].op = "GET" /\ ~p[c].cut =>
                   q[c].owed = IF r[p[c].key] = p[c].cell THEN {Shown(v, a, p[c].cell)} ELSE p[c].owed
  <2>1. p[c] \in Replies /\ GetOK(r, v, a, p, c)
    BY <1>1, <1>2 DEF Intact, Shapes
  <2>2. q[c] = IF p[c].op = "GET" /\ ~p[c].cut /\ r[p[c].key] = p[c].cell
               THEN [p[c] EXCEPT !.owed = {Shown(v, a, p[c].cell)}] ELSE p[c]
    BY <1>2 DEF Seeing
  <2>3. CASE p[c].op = "GET" /\ ~p[c].cut /\ r[p[c].key] = p[c].cell
    <3>1. p[c].cell \in Location /\ Whole(v, a, p[c].cell)
      BY <2>1, <2>3 DEF GetOK, Replies
    <3>2. Shown(v, a, p[c].cell) \in PlainValues
      BY <1>1, <3>1, ShownType DEF Shapes
    <3>3. PICK o : o = {Shown(v, a, p[c].cell)}
      OBVIOUS
    <3>4. q[c] = [p[c] EXCEPT !.owed = o] /\ o \in SUBSET PlainValues
      BY <2>2, <2>3, <3>2, <3>3
    <3>5. /\ q[c] \in Replies /\ q[c].owed = o
          /\ q[c].op = p[c].op /\ q[c].key = p[c].key /\ q[c].cell = p[c].cell /\ q[c].list = p[c].list
          /\ q[c].sent = p[c].sent /\ q[c].cut = p[c].cut
      BY <2>1, <3>4 DEF Replies
    <3> QED
      BY <2>3, <3>3, <3>5
  <2>4. CASE ~(p[c].op = "GET" /\ ~p[c].cut /\ r[p[c].key] = p[c].cell)
    BY <2>1, <2>2, <2>4
  <2> QED
    BY <2>3, <2>4
<1>3. Shapes(r, v, a, q)
  BY <1>1, <1>2 DEF Shapes, Seeing
<1>4. ASSUME NEW c \in Clients
      PROVE  GetOK(r, v, a, q, c) /\ ListOK(r, v, a, q, c) /\ IdleOK(q, c) /\ Paid(v, a, q, c)
  <2>1. GetOK(r, v, a, p, c) /\ ListOK(r, v, a, p, c) /\ IdleOK(p, c)
    BY <1>4 DEF Intact
  <2>2. p[c] \in Replies
    BY <1>1, <1>4 DEF Shapes
  <2>3. CASE p[c].op # "GET"
    <3>1. q[c] = p[c]
      BY <1>2, <1>4, <2>3
    <3> QED
      BY <2>1, <2>3, <3>1 DEF GetOK, ListOK, IdleOK, Paid
  <2>4. CASE p[c].op = "GET"
    <3>1. /\ q[c].op = "GET" /\ q[c].key = p[c].key /\ q[c].cell = p[c].cell /\ q[c].list = p[c].list
          /\ q[c].sent = p[c].sent /\ q[c].cut = p[c].cut
          /\ ~p[c].cut => q[c].owed = IF r[p[c].key] = p[c].cell THEN {Shown(v, a, p[c].cell)} ELSE p[c].owed
      BY <1>2, <1>4, <2>4
    <3>2. ~p[c].cut => q[c].owed = {Shown(v, a, p[c].cell)}
      BY <2>1, <2>4, <3>1 DEF GetOK
    <3>3. GetOK(r, v, a, q, c) /\ Paid(v, a, q, c)
      BY <2>1, <2>4, <3>1, <3>2 DEF GetOK, Paid
    <3>4. ListOK(r, v, a, q, c) /\ IdleOK(q, c)
      BY <3>1 DEF ListOK, IdleOK, ListOps
    <3> QED
      BY <3>3, <3>4
  <2> QED
    BY <2>3, <2>4
<1> QED
  BY <1>3, <1>4 DEF Intact

(* Every step that leaves an intact heap leaves a tidy one.                 *)
LEMMA BecomesTidy ==
    ASSUME NEW r, NEW v, NEW a, NEW p, Intact(r, v, a, p), Becomes(r, v, a, p)
    PROVE  Tidy(ref', val', arr', reply') /\ Shows(r, v, a)
<1>1. PICK q : q = Seeing(r, v, a, p)
  OBVIOUS
<1>2. Collected(r, v, a, q)
  BY <1>1 DEF Becomes
<1>3. Intact(r, v, a, q) /\ \A c \in Clients : Paid(v, a, q, c)
  BY <1>1, SeeingIntact
<1> QED
  BY <1>2, <1>3, CollectedTidy

-----------------------------------------------------------------------------
(* The heaps that the methods build.                                        *)

Grown(a, b) == b \in [Location -> Seq(Elem)] /\ \A x \in Location \ {New} : b[x] = a[x]

Placed(b, w) == \/ w.type = "string" /\ w.list = NoSlice
                \/ w.type = "list" /\ w.list.block = New /\ Inside(b, w.list)

(* A Value that a method leaves alone, with the array of its list.          *)
LeftAlone(v, v2, a, b, x) == /\ v2[x] = v[x] /\ Whole(v, a, x)
                             /\ v[x].type = "list" => b[v[x].list.block] = a[v[x].list.block]

LEMMA ValueUnchanged ==
    ASSUME NEW v, NEW v2, NEW a, NEW b, NEW x, LeftAlone(v, v2, a, b, x)
    PROVE  Whole(v2, b, x) /\ Shown(v2, b, x) = Shown(v, a, x)
<1> USE DEF LeftAlone
<1>1. CASE v[x].type = "string" /\ v[x].list = NoSlice
  BY <1>1 DEF Whole, Shown
<1>2. CASE v[x].type = "list" /\ Inside(a, v[x].list)
  <2>1. Inside(b, v[x].list)
    BY <1>2 DEF Inside
  <2>2. Seen(b, v[x].list) = Seen(a, v[x].list)
    BY <1>2 DEF Seen
  <2> QED
    BY <1>2, <2>1, <2>2 DEF Whole, Shown
<1> QED
  BY <1>1, <1>2 DEF Whole

(* A key takes a new value, which nothing else reaches.                     *)
LEMMA StoredIntact ==
    ASSUME NEW r, NEW v, NEW a, NEW p, Tidy(r, v, a, p), NEW k \in Key, NEW w \in Values, NEW b, Grown(a, b),
           Placed(b, w), NEW r2, r2 = [r EXCEPT ![k] = New], NEW v2, v2 = [v EXCEPT ![New] = w]
    PROVE  Intact(r2, v2, b, p)
<1> USE DEF Placed
<1>1. Shapes(r, v, a, p) /\ Free(r, v, p) /\ New \in Location /\ New # Null
  BY RootAssumption DEF Tidy, Intact, Location, New, Null
<1>2. r2[k] = New /\ v2[New] = w /\ \A j \in Key : j # k => r2[j] = r[j]
  BY <1>1 DEF Shapes
<1>3. \A x \in Location : x # New => v2[x] = v[x]
  BY <1>1 DEF Shapes
<1>4. \A j \in Key : j # k /\ r[j] # Null => r[j] \in Location /\ r[j] # New /\ v2[r2[j]] = v[r[j]]
  BY <1>1, <1>2, <1>3 DEF Shapes, Free
<1>5. Shapes(r2, v2, b, p)
  <2>1. r2 \in [Key -> Location \cup {Null}]
    BY <1>1 DEF Shapes
  <2>2. v2 \in [Location -> Values]
    BY <1>1 DEF Shapes
  <2> QED
    BY <1>1, <2>1, <2>2 DEF Shapes, Grown
<1>6. ASSUME NEW j \in Key PROVE KeyOK(r2, v2, b, j)
  <2>1. CASE j = k
    BY <1>2, <2>1 DEF KeyOK, Whole
  <2>2. CASE j # k
    <3> SUFFICES ASSUME r[j] # Null PROVE KeyOK(r2, v2, b, j)
      BY <1>2, <1>6, <2>2 DEF KeyOK, Whole
    <3>1. KeyOK(r, v, a, j) /\ v2[r2[j]] = v[r[j]]
      BY <1>4, <1>6, <2>2 DEF Tidy, Intact
    <3>2. v[r[j]].list.block # New
      BY <1>1, <1>6 DEF Free
    <3> QED
      BY <3>1, <3>2 DEF KeyOK, Whole, Inside, Grown
  <2> QED
    BY <2>1, <2>2
<1>7. ASSUME NEW i \in Key, NEW j \in Key PROVE Apart(r2, v2, i, j)
  <2> SUFFICES ASSUME i # j, r2[i] # Null
               PROVE  /\ r2[i] # r2[j]
                      /\ ListAt(r2, v2, i) /\ ListAt(r2, v2, j) => v2[r2[i]].list.block # v2[r2[j]].list.block
    BY DEF Apart
  <2>1. CASE i = k
    <3>1. r2[j] = r[j] /\ r[j] # New
      BY <1>1, <1>2, <1>7, <2>1 DEF Free
    <3>2. r[j] # Null => v2[r2[j]] = v[r[j]] /\ v[r[j]].list.block # New
      BY <1>1, <1>4, <1>7, <2>1 DEF Free
    <3>3. ListAt(r2, v2, i) => w.list.block = New
      BY <1>2, <2>1 DEF ListAt
    <3> QED
      BY <1>2, <2>1, <3>1, <3>2, <3>3 DEF ListAt
  <2>2. CASE j = k
    <3>1. r2[i] = r[i] /\ r[i] # New /\ v2[r2[i]] = v[r[i]] /\ v[r[i]].list.block # New
      BY <1>1, <1>2, <1>4, <1>7, <2>2 DEF Free
    <3>2. ListAt(r2, v2, j) => w.list.block = New
      BY <1>2, <2>2 DEF ListAt
    <3> QED
      BY <1>2, <2>2, <3>1, <3>2
  <2>3. CASE i # k /\ j # k
    <3>1. r2[i] = r[i] /\ r2[j] = r[j] /\ v2[r2[i]] = v[r[i]] /\ (r[j] # Null => v2[r2[j]] = v[r[j]])
      BY <1>2, <1>4, <1>7, <2>3
    <3>2. Apart(r, v, i, j)
      BY <1>7 DEF Tidy, Intact
    <3> QED
      BY <3>1, <3>2 DEF Apart, ListAt
  <2> QED
    BY <2>1, <2>2, <2>3
<1>8. ASSUME NEW c \in Clients PROVE GetOK(r2, v2, b, p, c) /\ ListOK(r2, v2, b, p, c) /\ IdleOK(p, c)
  <2>1. /\ GetOK(r, v, a, p, c) /\ ListOK(r, v, a, p, c) /\ IdleOK(p, c) /\ Paid(v, a, p, c)
        /\ p[c].cell # New /\ p[c].list.block # New
    <3>1. GetOK(r, v, a, p, c) /\ ListOK(r, v, a, p, c) /\ IdleOK(p, c) /\ Paid(v, a, p, c)
      BY DEF Tidy, Intact
    <3>2. p[c].cell # New /\ p[c].list.block # New
      BY <1>1 DEF Free
    <3> QED
      BY <3>1, <3>2
  <2>2. p[c].cell \in Location \cup {Null}
    BY <1>1, <1>8 DEF Shapes, Replies
  <2>3. GetOK(r2, v2, b, p, c)
    <3> SUFFICES ASSUME p[c].op = "GET" PROVE GetOK(r2, v2, b, p, c)
      BY DEF GetOK
    <3> DEFINE x == p[c].cell
    <3>1. x \in Location \ {New} /\ v2[x] = v[x] /\ v[x].list.block # New
      BY <1>1, <1>3, <1>8, <2>1, <2>2 DEF GetOK, Free
    <3>2. Whole(v, a, x) /\ Alone(r, v, x)
      BY <2>1 DEF GetOK
    <3>3. v[x].type = "list" => b[v[x].list.block] = a[v[x].list.block]
      BY <3>1, <3>2 DEF Whole, Inside, Grown
    <3>4. Whole(v2, b, x) /\ Shown(v2, b, x) = Shown(v, a, x)
      <4>1. LeftAlone(v, v2, a, b, x)
        BY <3>1, <3>2, <3>3 DEF LeftAlone
      <4> HIDE DEF x
      <4> QED
        BY <4>1, ValueUnchanged
    <3>5. \A j \in Key : r2[j] = x => j # k /\ r[j] = x
      BY <1>2, <3>1
    <3>6. Alone(r2, v2, x)
      <4> SUFFICES ASSUME NEW j \in Key, v[x].type = "list", ListAt(r2, v2, j),
                          v2[r2[j]].list.block = v[x].list.block
                   PROVE  r2[j] = x
        BY <3>1 DEF Alone
      <4>1. j # k
        BY <1>2, <3>1 DEF ListAt
      <4>2. r2[j] = r[j] /\ v2[r2[j]] = v[r[j]] /\ ListAt(r, v, j)
        BY <1>2, <1>4, <4>1 DEF ListAt
      <4> QED
        BY <3>2, <4>2 DEF Alone
    <3>7. p[c].key \in Key /\ x # Null /\ p[c].list = NoSlice /\ p[c].sent = <<>>
      BY <2>1 DEF GetOK
    <3>8. ASSUME ~p[c].cut
          PROVE  (\A j \in Key : r[j] = x => j = p[c].key) /\ p[c].owed = {Shown(v, a, x)}
      BY <2>1, <3>8 DEF GetOK, Paid
    <3> HIDE DEF x
    <3> QED
      BY <3>4, <3>5, <3>6, <3>7, <3>8 DEF GetOK, x
  <2>4. p[c].op \in ListOps => Inside(a, p[c].list) /\ b[p[c].list.block] = a[p[c].list.block]
    BY <2>1 DEF ListOK, Grown, Inside
  <2>5. p[c].op \in ListOps => Inside(b, p[c].list) /\ Seen(b, p[c].list) = Seen(a, p[c].list)
    BY <2>4 DEF Inside, Seen
  <2>6. ASSUME NEW j \in Key, ListAt(r2, v2, j), v2[r2[j]].list.block = p[c].list.block
        PROVE  /\ ListAt(r, v, j) /\ v[r[j]].list.block = p[c].list.block
               /\ End(v2[r2[j]].list) = End(v[r[j]].list)
    <3>1. j # k
      BY <1>2, <2>1, <2>6 DEF ListAt
    <3> QED
      BY <1>2, <1>4, <2>6, <3>1 DEF ListAt
  <2>7. ListOK(r2, v2, b, p, c)
    BY <2>1, <2>4, <2>5, <2>6 DEF ListOK
  <2> QED
    BY <2>1, <2>3, <2>7
<1> QED
  BY <1>5, <1>6, <1>7, <1>8 DEF Intact

(* Pops, trims and appends leave the rest of a list's array as it was.      *)
Kept(a, b, l) == \A x \in Location \ {New} :
    /\ Len(b[x]) = Len(a[x])
    /\ \A i \in 1 .. Len(a[x]) : x # l.block \/ i <= End(l) => b[x][i] = a[x][i]
(* A step may cut off replies to list methods.                              *)
Cuts(p, q) == \A c \in Clients :
    \/ q[c] = p[c]
    \/ p[c].op \in ListOps /\ q[c] = Cut(p[c])
(* No pending slice reaches beyond the end of l in its array, unless cut.   *)
NoneOver(q, l) == \A c \in Clients :
    q[c].op \in ListOps /\ ~q[c].cut /\ q[c].list.block = l.block => q[c].list.from + q[c].list.len <= End(l)

(* What replaces list l, and the pending replies that stay.                 *)
Replaces(a, b, l, m) == /\ m \in Slices /\ m.block \in {l.block, New} /\ b \in [Location -> Seq(Elem)]
                        /\ Kept(a, b, l) /\ Inside(b, m)
Spares(p, q, l, m)   == /\ q \in [Clients -> Replies] /\ Cuts(p, q)
                        /\ NoneOver(q, m) /\ NoneOver(q, l)

(* A key's list is replaced by a window of its array or of a new one, where *)
(* the replies that show what lies beyond the window's end are cut off.     *)
LEMMA ListIntact ==
    ASSUME NEW r, NEW v, NEW a, NEW p, Tidy(r, v, a, p), NEW k \in Key, ListAt(r, v, k),
           NEW l, l = v[r[k]].list, NEW m, NEW b, Replaces(a, b, l, m), NEW q, Spares(p, q, l, m),
           NEW v2, v2 = [v EXCEPT ![r[k]] = ListValue(m)]
    PROVE  Intact(r, v2, b, q)
<1> USE DEF Replaces, Spares
<1>1. Shapes(r, v, a, p) /\ Free(r, v, p) /\ New \in Location /\ New # Null
  BY RootAssumption DEF Tidy, Intact, Location, New, Null
<1>2. r[k] # Null /\ v[r[k]].type = "list" /\ r[k] \in Location
  BY <1>1 DEF ListAt, Shapes
<1>3. v2[r[k]].type = "list" /\ v2[r[k]].list = m /\ ListValue(m) \in Values
  <2>1. ListValue(m).type = "list" /\ ListValue(m).list = m /\ ListValue(m) \in Values
    BY DEF ListValue, NoValue, Values, Elem
  <2> QED
    BY <1>1, <1>2, <2>1 DEF Shapes
<1>4. \A x \in Location : x # r[k] => v2[x] = v[x]
  BY <1>1 DEF Shapes
<1>5. \A j \in Key : j # k /\ r[j] # Null => r[j] \in Location /\ r[j] # r[k] /\ v2[r[j]] = v[r[j]]
  <2>1. \A j \in Key : Apart(r, v, k, j)
    BY DEF Tidy, Intact
  <2>2. \A j \in Key : j # k => r[j] # r[k]
    BY <1>2, <2>1 DEF Apart
  <2>3. \A j \in Key : r[j] # Null => r[j] \in Location
    BY <1>1 DEF Shapes
  <2> QED
    BY <1>4, <2>2, <2>3
<1>6. Shapes(r, v2, b, q)
  <2>1. v2 \in [Location -> Values]
    BY <1>1, <1>3 DEF Shapes
  <2> QED
    BY <1>1, <2>1 DEF Shapes
<1>7. ASSUME NEW j \in Key PROVE KeyOK(r, v2, b, j)
  <2>1. CASE j = k
    BY <1>3, <2>1 DEF KeyOK, Whole
  <2>2. CASE j # k
    <3> SUFFICES ASSUME r[j] # Null PROVE KeyOK(r, v2, b, j)
      BY DEF KeyOK, Whole
    <3>1. KeyOK(r, v, a, j) /\ v2[r[j]] = v[r[j]]
      BY <1>5, <1>7, <2>2 DEF Tidy, Intact
    <3>2. v[r[j]].list.block # New
      BY <1>1, <1>7 DEF Free
    <3> QED
      BY <3>1, <3>2 DEF KeyOK, Whole, Inside, Kept
  <2> QED
    BY <2>1, <2>2
<1>8. ASSUME NEW j \in Key, j # k, ListAt(r, v2, j)
      PROVE  ListAt(r, v, j) /\ v2[r[j]] = v[r[j]] /\ v[r[j]].list.block # m.block
  <2>1. ListAt(r, v, j) /\ v2[r[j]] = v[r[j]]
    BY <1>5, <1>8 DEF ListAt
  <2>2. Apart(r, v, j, k) /\ v[r[j]].list.block # New
    BY <1>1, <1>8, <2>1 DEF Tidy, Intact, Free, ListAt
  <2>3. v[r[j]].list.block # l.block
    BY <1>8, <2>1, <2>2 DEF Apart, ListAt
  <2> QED
    BY <2>1, <2>2, <2>3
<1>9. ASSUME NEW i \in Key, NEW j \in Key PROVE Apart(r, v2, i, j)
  <2>1. Apart(r, v, i, j)
    BY <1>9 DEF Tidy, Intact
  <2> SUFFICES ASSUME i # j, ListAt(r, v2, i), ListAt(r, v2, j)
               PROVE  v2[r[i]].list.block # v2[r[j]].list.block
    BY <2>1 DEF Apart
  <2>2. CASE i = k
    BY <1>3, <1>8, <1>9, <2>2
  <2>3. CASE j = k
    BY <1>3, <1>8, <1>9, <2>3
  <2>4. CASE i # k /\ j # k
    BY <1>8, <1>9, <2>1, <2>4 DEF Apart, ListAt
  <2> QED
    BY <2>2, <2>3, <2>4
<1>10. ASSUME NEW c \in Clients PROVE GetOK(r, v2, b, q, c) /\ ListOK(r, v2, b, q, c) /\ IdleOK(q, c)
  <2>1. /\ GetOK(r, v, a, p, c) /\ ListOK(r, v, a, p, c) /\ IdleOK(p, c) /\ Paid(v, a, p, c)
        /\ p[c].list.block # New /\ p[c] \in Replies
        /\ (q[c] = p[c] \/ (p[c].op \in ListOps /\ q[c] = Cut(p[c])))
    <3>1. GetOK(r, v, a, p, c) /\ ListOK(r, v, a, p, c) /\ IdleOK(p, c) /\ Paid(v, a, p, c)
      BY DEF Tidy, Intact
    <3>2. p[c].list.block # New /\ p[c] \in Replies
      BY <1>1 DEF Free, Shapes
    <3>3. q[c] = p[c] \/ (p[c].op \in ListOps /\ q[c] = Cut(p[c]))
      BY DEF Cuts
    <3> QED
      BY <3>1, <3>2, <3>3
  <2>2. /\ q[c].op = p[c].op /\ q[c].key = p[c].key /\ q[c].cell = p[c].cell /\ q[c].list = p[c].list
        /\ q[c].sent = p[c].sent /\ (~q[c].cut => ~p[c].cut /\ q[c].owed = p[c].owed)
        /\ p[c].op \notin ListOps => q[c] = p[c]
    BY <2>1 DEF Replies, Cut
  <2>3. GetOK(r, v2, b, q, c) /\ IdleOK(q, c)
    <3>1. CASE p[c].op = "GET"
      <4>1. p[c].cell \in Location \cup {Null} /\ q[c] = p[c]
        BY <2>1, <2>2, <3>1 DEF Replies, ListOps
      <4> DEFINE x == p[c].cell
      <4>2. /\ x # Null /\ x \in Location /\ x # New /\ Whole(v, a, x) /\ Alone(r, v, x)
            /\ v[x].list.block # New /\ p[c].key \in Key /\ p[c].list = NoSlice /\ p[c].sent = <<>>
        <5>1. /\ x # Null /\ Whole(v, a, x) /\ Alone(r, v, x)
              /\ p[c].key \in Key /\ p[c].list = NoSlice /\ p[c].sent = <<>>
          BY <2>1, <3>1 DEF GetOK
        <5>2. x # New /\ (x # Null => v[x].list.block # New)
          BY <1>1 DEF Free
        <5> QED
          BY <4>1, <5>1, <5>2
      <4>3. ASSUME ~p[c].cut
            PROVE  (\A j \in Key : r[j] = x => j = p[c].key) /\ p[c].owed = {Shown(v, a, x)}
        BY <2>1, <3>1, <4>3 DEF GetOK, Paid
      <4>4. CASE x = r[k]
        <5>1. Whole(v2, b, x)
          BY <1>3, <4>4 DEF Whole
        <5>2. Alone(r, v2, x)
          BY <1>3, <1>8, <4>4 DEF Alone
        <5>3. ~p[c].cut => r[p[c].key] = x
          BY <4>3, <4>4
        <5> HIDE DEF x
        <5> QED
          BY <3>1, <4>1, <4>2, <4>3, <5>1, <5>2, <5>3 DEF GetOK, IdleOK, x
      <4>5. CASE x # r[k]
        <5>1. v2[x] = v[x]
          BY <1>4, <4>2, <4>5
        <5>2. v[x].type = "list" => v[x].list.block # l.block
          BY <1>2, <4>2, <4>5 DEF Alone
        <5>3. v[x].type = "list" => b[v[x].list.block] = a[v[x].list.block]
          <6> SUFFICES ASSUME v[x].type = "list" PROVE b[v[x].list.block] = a[v[x].list.block]
            OBVIOUS
          <6> DEFINE y == v[x].list.block
          <6>1. y \in Location \ {New} /\ y # l.block
            BY <4>2, <5>2 DEF Whole, Inside, NoSlice, Slice
          <6>2. Len(b[y]) = Len(a[y]) /\ \A i \in 1 .. Len(a[y]) : b[y][i] = a[y][i]
            BY <6>1 DEF Kept
          <6>3. a[y] \in Seq(Elem) /\ b[y] \in Seq(Elem)
            BY <1>1, <6>1 DEF Shapes
          <6> HIDE DEF y
          <6>4. b[y] = a[y]
            BY <6>2, <6>3, SeqEqual
          <6> QED
            BY <6>4 DEF y
        <5>4. Whole(v2, b, x) /\ Shown(v2, b, x) = Shown(v, a, x)
          <6>1. LeftAlone(v, v2, a, b, x)
            BY <4>2, <5>1, <5>3 DEF LeftAlone
          <6> HIDE DEF x
          <6> QED
            BY <6>1, ValueUnchanged
        <5>5. Alone(r, v2, x)
          <6> SUFFICES ASSUME NEW j \in Key, v[x].type = "list", ListAt(r, v2, j),
                              v2[r[j]].list.block = v[x].list.block
                       PROVE  r[j] = x
            BY <5>1 DEF Alone
          <6>1. j # k
            BY <1>3, <4>2, <5>2
          <6> QED
            BY <1>8, <4>2, <6>1 DEF Alone
        <5> HIDE DEF x
        <5> QED
          BY <3>1, <4>1, <4>2, <4>3, <5>4, <5>5 DEF GetOK, IdleOK, x
      <4> QED
        BY <4>4, <4>5
    <3>2. CASE p[c].op # "GET"
      BY <2>1, <2>2, <3>2 DEF GetOK, IdleOK, ListOps
    <3> QED
      BY <3>1, <3>2
  <2>4. ListOK(r, v2, b, q, c)
    <3> SUFFICES ASSUME p[c].op \in ListOps PROVE ListOK(r, v2, b, q, c)
      BY <2>2 DEF ListOK
    <3> DEFINE s == p[c].list
               n == s.from + s.len
    <3>1. s \in Slices /\ s.block \in Location \ {New} /\ s.from \in Nat /\ s.len \in Nat /\ n <= Len(a[s.block])
      BY <2>1 DEF ListOK, Inside, Replies, Slices
    <3>2. Len(b[s.block]) = Len(a[s.block]) /\ Len(a[s.block]) \in Nat /\ a[s.block] \in Seq(Elem)
          /\ b[s.block] \in Seq(Elem)
      BY <1>1, <3>1 DEF Kept, Shapes
    <3>3. Inside(b, s)
      BY <3>1, <3>2 DEF Inside
    <3>4. ASSUME ~q[c].cut PROVE s.block = l.block => n <= End(l)
      BY <1>10, <2>2, <3>4 DEF NoneOver
    <3>5. ASSUME ~q[c].cut, NEW i \in 1 .. n PROVE b[s.block][i] = a[s.block][i]
      <4>1. l \in Slices
        BY <1>1, <1>2 DEF Shapes, Values
      <4>2. s.block # l.block \/ i <= End(l)
        <5> DEFINE e == End(l)
        <5>1. e \in Int /\ n \in Int /\ i \in 1 .. n
          <6>1. l.from \in Nat /\ l.len \in Nat
            BY <4>1 DEF Slices
          <6>2. e \in Int
            BY <6>1 DEF End
          <6>3. n \in Int
            BY <3>1
          <6>4. i \in 1 .. n
            BY <3>5
          <6> QED
            BY <6>2, <6>3, <6>4
        <5>2. s.block = l.block => n <= e
          BY <3>4, <3>5
        <5> HIDE DEF e, n
        <5>3. s.block = l.block => i <= e
          BY <5>1, <5>2
        <5> QED
          BY <5>3 DEF e
      <4>3. i \in 1 .. Len(a[s.block])
        <5> DEFINE g == Len(a[s.block])
        <5>1. n \in Int /\ g \in Int /\ n <= g /\ i \in 1 .. n
          BY <3>1, <3>2, <3>5
        <5> HIDE DEF n, g
        <5>2. i \in 1 .. g
          BY <5>1
        <5> QED
          BY <5>2 DEF g
      <4>4. \A j \in 1 .. Len(a[s.block]) : s.block # l.block \/ j <= End(l) => b[s.block][j] = a[s.block][j]
        BY <3>1 DEF Kept
      <4> QED
        BY <4>2, <4>3, <4>4
    <3>6. ASSUME ~q[c].cut PROVE Seen(b, s) = Seen(a, s)
      <4>1. s.from + 1 \in Int /\ s.from + s.len \in Int
        BY <3>1
      <4>2. \A i \in s.from + 1 .. s.from + s.len : a[s.block][i] \in Elem /\ b[s.block][i] \in Elem
                                                  /\ b[s.block][i] = a[s.block][i]
        <5>1. \A i \in s.from + 1 .. s.from + s.len : i \in 1 .. n /\ i \in 1 .. Len(a[s.block])
          <6> DEFINE f == s.from
                     e == s.len
                     g == Len(a[s.block])
          <6>1. f \in Nat /\ e \in Nat /\ g \in Nat /\ f + e <= g
            BY <3>1, <3>2
          <6> HIDE DEF f, e, g
          <6>2. \A i \in f + 1 .. f + e : i \in 1 .. f + e /\ i \in 1 .. g
            BY <6>1
          <6> QED
            BY <6>2 DEF f, e, g
        <5> QED
          BY <3>2, <3>5, <3>6, <5>1, ElementOfSeq
      <4> HIDE DEF s, n
      <4>3. /\ SubSeq(a[s.block], s.from + 1, s.from + s.len) \in Seq(Elem)
            /\ SubSeq(b[s.block], s.from + 1, s.from + s.len) \in Seq(Elem)
        BY <4>1, <4>2, SubSeqProperties
      <4>4. /\ Len(SubSeq(a[s.block], s.from + 1, s.from + s.len)) = Len(SubSeq(b[s.block], s.from + 1, s.from + s.len))
            /\ Len(SubSeq(a[s.block], s.from + 1, s.from + s.len)) = s.len
        BY <3>1, <4>1, <4>2, SubSeqProperties
      <4>5. \A i \in 1 .. s.len : SubSeq(a[s.block], s.from + 1, s.from + s.len)[i]
                                    = SubSeq(b[s.block], s.from + 1, s.from + s.len)[i]
        <5>1. \A i \in 1 .. s.len : s.from + 1 + i - 1 \in s.from + 1 .. s.from + s.len
          BY <3>1
        <5>2. s.from + s.len - (s.from + 1) + 1 = s.len
          BY <3>1
        <5> QED
          BY <4>1, <4>2, <5>1, <5>2, SubSeqProperties
      <4> QED
        BY <4>3, <4>4, <4>5, SeqEqual DEF Seen
    <3>7. ASSUME ~q[c].cut PROVE \A i \in 1 .. Len(p[c].sent) : p[c].sent[i] = b[s.block][s.from + i]
      <4>1. \A i \in 1 .. Len(p[c].sent) : p[c].sent[i] = a[s.block][s.from + i]
        BY <2>1, <2>2, <3>7 DEF ListOK
      <4>2. Len(p[c].sent) <= s.len /\ Len(p[c].sent) \in Nat
        BY <2>1 DEF ListOK, Replies
      <4>3. \A i \in 1 .. Len(p[c].sent) : s.from + i \in 1 .. n
        <5> DEFINE f == s.from
                   e == s.len
                   g == Len(p[c].sent)
        <5>1. f \in Nat /\ e \in Nat /\ g \in Nat /\ g <= e
          BY <3>1, <4>2
        <5> HIDE DEF f, e, g
        <5>2. \A i \in 1 .. g : f + i \in 1 .. f + e
          BY <5>1
        <5> QED
          BY <5>2 DEF f, e, g
      <4> QED
        BY <3>5, <3>7, <4>1, <4>3
    <3>8. ASSUME ~q[c].cut, NEW j \in Key, ListAt(r, v2, j), v2[r[j]].list.block = s.block
          PROVE  n <= End(v2[r[j]].list)
      <4>1. CASE j = k
        BY <1>3, <1>10, <2>2, <3>8, <4>1 DEF NoneOver
      <4>2. CASE j # k
        BY <1>8, <2>1, <2>2, <3>8, <4>2 DEF ListOK
      <4> QED
        BY <4>1, <4>2
    <3>9. q[c].cell = Null /\ Len(q[c].sent) <= q[c].list.len /\ (~q[c].cut => q[c].owed = {NewListValue(Seen(b, s))})
      BY <2>1, <2>2, <3>6 DEF ListOK
    <3> QED
      BY <2>2, <3>3, <3>7, <3>8, <3>9 DEF ListOK
  <2> QED
    BY <2>3, <2>4
<1> QED
  BY <1>6, <1>7, <1>9, <1>10 DEF Intact

(* A string changes where it is: pending GETs of its key see it.            *)
LEMMA StringIntact ==
    ASSUME NEW r, NEW v, NEW a, NEW p, Tidy(r, v, a, p), NEW k \in Key, r[k] # Null, v[r[k]].type = "string",
           NEW x \in Str, NEW v2, v2 = [v EXCEPT ![r[k]] = StrValue(x)]
    PROVE  Intact(r, v2, a, p)
<1>1. Shapes(r, v, a, p) /\ r[k] \in Location
  BY DEF Tidy, Intact, Shapes
<1>2. v2[r[k]].type = "string" /\ v2[r[k]].list = NoSlice /\ StrValue(x) \in Values
  <2>1. StrValue(x).type = "string" /\ StrValue(x).list = NoSlice /\ StrValue(x) \in Values
    BY DEF StrValue, NoValue, Values, Elem, NoSlice, Slice, Slices
  <2> QED
    BY <1>1, <2>1 DEF Shapes
<1>3. \A y \in Location : y # r[k] => v2[y] = v[y]
  BY <1>1 DEF Shapes
<1>4. Shapes(r, v2, a, p)
  <2>1. v2 \in [Location -> Values]
    BY <1>1, <1>2 DEF Shapes
  <2> QED
    BY <1>1, <2>1 DEF Shapes
<1>5. \A j \in Key : r[j] # Null => r[j] \in Location
  BY <1>1 DEF Shapes
<1>6. \A j \in Key : ListAt(r, v2, j) => ListAt(r, v, j) /\ v2[r[j]] = v[r[j]]
  BY <1>2, <1>3, <1>5 DEF ListAt
<1>7. ASSUME NEW j \in Key PROVE KeyOK(r, v2, a, j) /\ \A i \in Key : Apart(r, v2, j, i)
  <2>1. KeyOK(r, v, a, j) /\ \A i \in Key : Apart(r, v, j, i)
    BY <1>7 DEF Tidy, Intact
  <2>2. KeyOK(r, v2, a, j)
    <3>1. CASE r[j] = r[k]
      BY <1>2, <3>1 DEF KeyOK, Whole
    <3>2. CASE r[j] # r[k]
      BY <1>3, <1>5, <1>7, <2>1, <3>2 DEF KeyOK, Whole
    <3> QED
      BY <3>1, <3>2
  <2>3. \A i \in Key : Apart(r, v2, j, i)
    BY <1>6, <1>7, <2>1 DEF Apart
  <2> QED
    BY <2>2, <2>3
<1>8. ASSUME NEW c \in Clients PROVE GetOK(r, v2, a, p, c) /\ ListOK(r, v2, a, p, c) /\ IdleOK(p, c)
  <2>1. GetOK(r, v, a, p, c) /\ ListOK(r, v, a, p, c) /\ IdleOK(p, c) /\ Paid(v, a, p, c)
    BY <1>8 DEF Tidy, Intact
  <2>2. p[c].cell \in Location \cup {Null}
    BY <1>1, <1>8 DEF Shapes, Replies
  <2>3. GetOK(r, v2, a, p, c)
    <3> SUFFICES ASSUME p[c].op = "GET" PROVE GetOK(r, v2, a, p, c)
      BY DEF GetOK, Whole, Alone
    <3>1. CASE p[c].cell = r[k]
      <4>1. ~p[c].cut => r[p[c].key] = p[c].cell
        BY <2>1, <3>1 DEF GetOK
      <4> QED
        BY <1>2, <2>1, <3>1, <4>1 DEF GetOK, Whole, Alone
    <3>2. CASE p[c].cell # r[k]
      <4>1. v2[p[c].cell] = v[p[c].cell]
        BY <1>3, <2>1, <2>2, <3>2 DEF GetOK, Whole, Alone
      <4>2. Whole(v2, a, p[c].cell) /\ Shown(v2, a, p[c].cell) = Shown(v, a, p[c].cell)
        BY <2>1, <4>1 DEF GetOK, Whole, Shown
      <4>3. Alone(r, v2, p[c].cell)
        BY <1>6, <2>1, <4>1 DEF GetOK, Alone
      <4> QED
        BY <2>1, <4>2, <4>3 DEF GetOK
    <3> QED
      BY <3>1, <3>2
  <2>4. ListOK(r, v2, a, p, c)
    BY <1>6, <2>1 DEF ListOK
  <2> QED
    BY <2>1, <2>3, <2>4
<1> QED
  BY <1>4, <1>7, <1>8 DEF Intact

(* A key goes; what it held stays for the replies that wait for it.         *)
LEMMA DroppedIntact ==
    ASSUME NEW r, NEW v, NEW a, NEW p, Tidy(r, v, a, p), NEW k \in Key,
           NEW r2, r2 = [r EXCEPT ![k] = Null]
    PROVE  Intact(r2, v, a, p)
<1>1. Shapes(r, v, a, p)
  BY DEF Tidy, Intact
<1>2. r2[k] = Null /\ \A j \in Key : j # k => r2[j] = r[j]
  BY <1>1 DEF Shapes
<1>3. Shapes(r2, v, a, p)
  <2>1. r2 \in [Key -> Location \cup {Null}]
    BY <1>1 DEF Shapes
  <2> QED
    BY <1>1, <2>1 DEF Shapes
<1>4. \A j \in Key : ListAt(r2, v, j) => ListAt(r, v, j) /\ r2[j] = r[j]
  BY <1>2 DEF ListAt
<1>5. ASSUME NEW j \in Key PROVE KeyOK(r2, v, a, j) /\ \A i \in Key : Apart(r2, v, j, i)
  <2>1. KeyOK(r, v, a, j) /\ \A i \in Key : Apart(r, v, j, i)
    BY <1>5 DEF Tidy, Intact
  <2>2. KeyOK(r2, v, a, j)
    BY <1>2, <1>5, <2>1 DEF KeyOK, Whole
  <2>3. \A i \in Key : Apart(r2, v, j, i)
    BY <1>2, <1>4, <1>5, <2>1 DEF Apart
  <2> QED
    BY <2>2, <2>3
<1>6. ASSUME NEW c \in Clients PROVE GetOK(r2, v, a, p, c) /\ ListOK(r2, v, a, p, c) /\ IdleOK(p, c)
  <2>1. GetOK(r, v, a, p, c) /\ ListOK(r, v, a, p, c) /\ IdleOK(p, c) /\ Paid(v, a, p, c)
    BY <1>6 DEF Tidy, Intact
  <2>2. GetOK(r2, v, a, p, c)
    <3>1. p[c].op = "GET" => Alone(r2, v, p[c].cell)
      BY <1>4, <2>1 DEF GetOK, Alone
    <3> QED
      BY <1>2, <2>1, <3>1 DEF GetOK, Paid
  <2>3. ListOK(r2, v, a, p, c)
    BY <1>4, <2>1 DEF ListOK
  <2> QED
    BY <2>1, <2>2, <2>3
<1> QED
  BY <1>3, <1>5, <1>6 DEF Intact

(* The replies that wait for a value that moves.                            *)
CutFrom(p, x) == [c \in Clients |-> IF p[c].cell = x THEN Cut(p[c]) ELSE p[c]]

(* A key's pointer moves to another key.                                    *)
LEMMA RenamedIntact ==
    ASSUME NEW r, NEW v, NEW a, NEW p, Tidy(r, v, a, p), NEW k \in Key, NEW l \in Key, r[k] # Null,
           NEW r2, r2 = [[r EXCEPT ![l] = r[k]] EXCEPT ![k] = Null],
           NEW q, q = CutFrom(p, r[k])
    PROVE  Intact(r2, v, a, q)
<1>1. Shapes(r, v, a, p)
  BY DEF Tidy, Intact
<1>2. /\ r2[k] = Null /\ (l # k => r2[l] = r[k])
      /\ \A j \in Key : j # k /\ j # l => r2[j] = r[j]
  BY <1>1 DEF Shapes
<1>3. \A j \in Key : r2[j] # Null => \E i \in Key : r2[j] = r[i] /\ (j = l => i = k) /\ (j # l => i = j) /\ j # k
  BY <1>2
<1>4. \A c \in Clients : q[c] \in Replies
  <2> SUFFICES ASSUME NEW c \in Clients PROVE q[c] \in Replies
    OBVIOUS
  <2>1. p[c] \in Replies /\ (q[c] = p[c] \/ q[c] = Cut(p[c]))
    BY <1>1 DEF Shapes, CutFrom
  <2>2. Cut(p[c]) \in Replies
    BY <2>1 DEF Replies, Cut
  <2> QED
    BY <2>1, <2>2
<1>5. Shapes(r2, v, a, q)
  <2>1. r2 \in [Key -> Location \cup {Null}]
    BY <1>1 DEF Shapes
  <2> QED
    BY <1>1, <1>4, <2>1 DEF Shapes, CutFrom
<1>6. ASSUME NEW j \in Key PROVE KeyOK(r2, v, a, j)
  <2> SUFFICES ASSUME r2[j] # Null PROVE KeyOK(r2, v, a, j)
    BY DEF KeyOK, Whole
  <2>1. PICK i \in Key : r2[j] = r[i]
    BY <1>3, <1>6
  <2>2. KeyOK(r, v, a, i)
    BY DEF Tidy, Intact
  <2> QED
    BY <2>1, <2>2 DEF KeyOK, Whole
<1>7. ASSUME NEW i \in Key, NEW j \in Key PROVE Apart(r2, v, i, j)
  <2> SUFFICES ASSUME i # j, r2[i] # Null, r2[j] # Null PROVE Apart(r2, v, i, j)
    BY DEF Apart, ListAt
  <2>1. PICK m \in Key : r2[i] = r[m] /\ (i = l => m = k) /\ (i # l => m = i) /\ i # k
    BY <1>3, <1>7
  <2>2. PICK n \in Key : r2[j] = r[n] /\ (j = l => n = k) /\ (j # l => n = j) /\ j # k
    BY <1>3, <1>7
  <2>3. m # n /\ Apart(r, v, m, n)
    BY <2>1, <2>2 DEF Tidy, Intact
  <2> QED
    BY <2>1, <2>2, <2>3 DEF Apart, ListAt
<1>8. ASSUME NEW c \in Clients PROVE GetOK(r2, v, a, q, c) /\ ListOK(r2, v, a, q, c) /\ IdleOK(q, c)
  <2>1. GetOK(r, v, a, p, c) /\ ListOK(r, v, a, p, c) /\ IdleOK(p, c) /\ Paid(v, a, p, c) /\ p[c] \in Replies
    BY <1>1, <1>8 DEF Tidy, Intact, Shapes
  <2>2. q[c] = IF p[c].cell = r[k] THEN Cut(p[c]) ELSE p[c]
    BY <1>8 DEF CutFrom
  <2>a. p[c].op = "GET" => Alone(r2, v, p[c].cell)
    <3> SUFFICES ASSUME p[c].op = "GET", NEW j \in Key, v[p[c].cell].type = "list", ListAt(r2, v, j),
                        v[r2[j]].list.block = v[p[c].cell].list.block
                 PROVE  r2[j] = p[c].cell
      BY DEF Alone
    <3>1. PICK i \in Key : r2[j] = r[i]
      BY <1>3 DEF ListAt
    <3> QED
      BY <2>1, <3>1 DEF GetOK, Alone, ListAt
  <2>3. CASE p[c].cell = r[k]
    <3>1. /\ q[c].cut /\ q[c].op = p[c].op /\ q[c].key = p[c].key /\ q[c].cell = p[c].cell
          /\ q[c].list = p[c].list /\ q[c].sent = p[c].sent
      BY <2>1, <2>2, <2>3 DEF Replies, Cut
    <3>2. p[c].op \notin ListOps /\ p[c].op # "none"
      BY <2>1, <2>3 DEF ListOK, IdleOK, NoReply
    <3> QED
      BY <2>1, <2>a, <3>1, <3>2 DEF GetOK, ListOK, IdleOK
  <2>4. CASE p[c].cell # r[k]
    <3>1. q[c] = p[c]
      BY <2>2, <2>4
    <3>2. \A j \in Key : p[c].cell # Null /\ r2[j] = p[c].cell => r[j] = p[c].cell
      BY <1>2, <2>4
    <3>3. GetOK(r2, v, a, q, c)
      BY <2>1, <2>a, <3>1, <3>2 DEF GetOK, Paid
    <3>4. ListOK(r2, v, a, q, c)
      <4>1. \A j \in Key : ListAt(r2, v, j) => \E i \in Key : ListAt(r, v, i) /\ r2[j] = r[i]
        BY <1>3 DEF ListAt
      <4> DEFINE block == p[c].list.block
                 top   == p[c].list.from + p[c].list.len
                 Below(x) == \A j \in Key : ListAt(x, v, j) /\ v[x[j]].list.block = block => top <= End(v[x[j]].list)
      <4>2. Below(r) => Below(r2)
        <5> HIDE DEF block, top
        <5> SUFFICES ASSUME Below(r), NEW j \in Key, ListAt(r2, v, j), v[r2[j]].list.block = block
                     PROVE  top <= End(v[r2[j]].list)
          OBVIOUS
        <5>1. PICK i \in Key : ListAt(r, v, i) /\ r2[j] = r[i]
          BY <4>1
        <5>2. v[r[i]].list.block = block
          BY <5>1
        <5>3. top <= End(v[r[i]].list)
          BY <5>1, <5>2
        <5> QED
          BY <5>1, <5>3
      <4>3. (p[c].op \in ListOps /\ ~p[c].cut) => Below(r)
        BY <2>1 DEF ListOK
      <4> QED
        BY <2>1, <3>1, <4>2, <4>3 DEF ListOK
    <3> QED
      BY <2>1, <3>1, <3>3, <3>4 DEF IdleOK
  <2> QED
    BY <2>3, <2>4
<1> QED
  BY <1>5, <1>6, <1>7, <1>8 DEF Intact

(* A client's pending reply is replaced.                                    *)
LEMMA ReplyIntact ==
    ASSUME NEW r, NEW v, NEW a, NEW p, Intact(r, v, a, p), NEW c \in Clients, NEW x \in Replies,
           NEW q, q = [p EXCEPT ![c] = x], GetOK(r, v, a, q, c), ListOK(r, v, a, q, c), IdleOK(q, c)
    PROVE  Intact(r, v, a, q)
<1>1. Shapes(r, v, a, p)
  BY DEF Intact
<1>2. Shapes(r, v, a, q)
  BY <1>1 DEF Shapes
<1>3. ASSUME NEW d \in Clients PROVE GetOK(r, v, a, q, d) /\ ListOK(r, v, a, q, d) /\ IdleOK(q, d)
  <2>1. CASE d = c
    BY <2>1
  <2>2. CASE d # c
    <3>1. q[d] = p[d]
      BY <1>1, <1>3, <2>2 DEF Shapes
    <3>2. GetOK(r, v, a, p, d) /\ ListOK(r, v, a, p, d) /\ IdleOK(p, d)
      BY <1>3 DEF Intact
    <3> QED
      BY <3>1, <3>2 DEF GetOK, ListOK, IdleOK
  <2> QED
    BY <2>1, <2>2
<1> QED
  BY <1>2, <1>3 DEF Intact

(* A client is owed a slice.                                                *)
LEMMA OwedIntact ==
    ASSUME NEW r, NEW v, NEW a, NEW p, Intact(r, v, a, p), NEW c \in Clients,
           NEW op \in ListOps, NEW s \in Slices, Inside(a, s), NEW cut \in BOOLEAN,
           \A k \in Key : ~cut /\ ListAt(r, v, k) /\ v[r[k]].list.block = s.block
                          => s.from + s.len <= End(v[r[k]].list),
           NEW q, q = [p EXCEPT ![c] = [NoReply EXCEPT !.op = op, !.list = s, !.cut = cut, !.owed = IF cut THEN {} ELSE {NewListValue(Seen(a, s))}]]
    PROVE  Intact(r, v, a, q)
<1> DEFINE x == [NoReply EXCEPT !.op = op, !.list = s, !.cut = cut, !.owed = IF cut THEN {} ELSE {NewListValue(Seen(a, s))}]
<1>1. Shapes(r, v, a, p)
  BY DEF Intact
<1>2. Seen(a, s) \in Seq(Elem)
  BY <1>1, SeenType DEF Shapes
<1>3. /\ x.op = op /\ x.key = "none" /\ x.cell = Null /\ x.list = s /\ x.sent = <<>>
      /\ (~cut => x.owed = {NewListValue(Seen(a, s))}) /\ x.cut = cut /\ x \in Replies
  <2> DEFINE y == IF cut THEN {} ELSE {NewListValue(Seen(a, s))}
  <2>1. y \in SUBSET PlainValues
    BY <1>2 DEF PlainValues
  <2>2. <<>> \in Seq(Elem)
    BY EmptySeq
  <2>a. x = [NoReply EXCEPT !.op = op, !.list = s, !.cut = cut, !.owed = y]
    OBVIOUS
  <2> HIDE DEF y, x
  <2>3. x = [op |-> op, key |-> "none", cell |-> Null, list |-> s, sent |-> <<>>, owed |-> y, cut |-> cut]
    BY <2>a DEF NoReply
  <2>4. x \in Replies
    BY <2>1, <2>2, <2>3 DEF Replies
  <2>5. /\ x.op = op /\ x.key = "none" /\ x.cell = Null /\ x.list = s /\ x.sent = <<>> /\ x.owed = y /\ x.cut = cut
    BY <2>3
  <2> QED
    BY <2>4, <2>5 DEF y
<1>4. q[c] = x
  BY <1>1 DEF Shapes
<1> HIDE DEF x
<1>5. GetOK(r, v, a, q, c) /\ IdleOK(q, c)
  BY <1>3, <1>4 DEF GetOK, IdleOK, ListOps
<1>6. ListOK(r, v, a, q, c)
  <2>1. Len(q[c].sent) = 0 /\ s.len \in Nat
    <3>1. q[c].sent = <<>>
      BY <1>3, <1>4
    <3>2. Len(q[c].sent) = 0
      BY <3>1, EmptySeq
    <3> QED
      BY <3>2 DEF Slices
  <2>2. Len(q[c].sent) <= q[c].list.len
    BY <1>3, <1>4, <2>1
  <2>3. \A i \in 1 .. Len(q[c].sent) : q[c].sent[i] = a[q[c].list.block][q[c].list.from + i]
    BY <1>3, <1>4, <2>1
  <2> QED
    BY <1>3, <1>4, <2>2, <2>3 DEF ListOK
<1>7. q = [p EXCEPT ![c] = x]
  BY DEF x
<1> QED
  BY <1>3, <1>5, <1>6, <1>7, ReplyIntact

-----------------------------------------------------------------------------
(* What the keys show in these heaps.                                       *)

TidyNow == Tidy(ref, val, arr, reply)

Linked(k, x)  == [ref EXCEPT ![k] = x]
Renaming(k, l) == [[ref EXCEPT ![l] = ref[k]] EXCEPT ![k] = Null]
With(x, w)    == [val EXCEPT ![x] = w]
Relisted(k, m, b, v2) == /\ ListAt(ref, val, k) /\ Replaces(arr, b, val[ref[k]].list, m)
                         /\ v2 = With(ref[k], ListValue(m))

(* A key that holds a value leads to one.                                   *)
LEMMA HeldCell ==
    ASSUME TidyNow, NEW j \in Key, ref[j] # Null
    PROVE  /\ ref[j] \in Location \ {New} /\ val[ref[j]] \in Values
           /\ val[ref[j]].type # "string" => /\ ListAt(ref, val, j) /\ val[ref[j]].list.block \in Location \ {New}
                                         /\ val[ref[j]].list \in Slices
<1>1. /\ ref[j] \in Location \cup {Null} /\ ref[j] # New /\ val[ref[j]].list.block # New
      /\ KeyOK(ref, val, arr, j) /\ val \in [Location -> Values]
  BY DEF TidyNow, Tidy, Intact, Free, Shapes
<1>2. val[ref[j]] \in Values
  BY <1>1
<1>3. val[ref[j]].type # "string" => ListAt(ref, val, j) /\ val[ref[j]].list.block \in Location
  BY <1>1 DEF KeyOK, Whole, ListAt, Inside
<1> QED
  BY <1>1, <1>2, <1>3 DEF Values

(* A new value is what its key shows.                                       *)
LEMMA StoredShows ==
    ASSUME TidyNow, NEW k \in Key, NEW w \in Values, NEW b, Grown(arr, b),
           NEW r2, r2 = Linked(k, New), NEW v2, v2 = With(New, w), NEW j \in Key
    PROVE  ValueOf(r2, v2, b, j) = IF j # k THEN Held(j)
                                   ELSE IF w.type = "string" THEN NewStringValue(w.str) ELSE NewListValue(Seen(b, w.list))
<1>1. Shapes(ref, val, arr, reply) /\ New \in Location /\ New # Null
  BY RootAssumption DEF TidyNow, Tidy, Intact, Location, New, Null
<1> USE DEF Linked, With
<1>2. CASE j = k
  <2>1. r2[j] = New /\ v2[r2[j]] = w
    BY <1>1, <1>2 DEF Shapes
  <2> QED
    BY <1>1, <1>2, <2>1 DEF Held, ValueOf, Shown
<1>3. CASE j # k /\ ref[j] = Null
  <2>1. r2[j] = Null
    BY <1>1, <1>3 DEF Shapes
  <2> QED
    BY <1>3, <2>1 DEF Held, ValueOf, Shown
<1>4. CASE j # k /\ ref[j] # Null
  <2>1. r2[j] = ref[j] /\ ref[j] \in Location \ {New}
    BY <1>1, <1>4, HeldCell DEF Shapes
  <2>2. v2[r2[j]] = val[ref[j]]
    BY <1>1, <2>1 DEF Shapes
  <2>3. val[ref[j]].type # "string" => b[val[ref[j]].list.block] = arr[val[ref[j]].list.block]
    BY <1>4, HeldCell DEF Grown
  <2>4. val[ref[j]].type # "string" => Seen(b, val[ref[j]].list) = Seen(arr, val[ref[j]].list)
    BY <2>3 DEF Seen
  <2> QED
    BY <1>4, <2>1, <2>2, <2>4 DEF Held, ValueOf, Shown
<1> QED
  BY <1>2, <1>3, <1>4

(* So is a window of its array, or of a new one; the arrays of other keys   *)
(* are as they were.                                                        *)
LEMMA ListShows ==
    ASSUME TidyNow, NEW k \in Key, NEW m, NEW b, NEW v2, Relisted(k, m, b, v2), NEW j \in Key
    PROVE  ValueOf(ref, v2, b, j) = IF j = k THEN NewListValue(Seen(b, m)) ELSE Held(j)
<1>l. PICK l : l = val[ref[k]].list
  OBVIOUS
<1>v. ListAt(ref, val, k) /\ Replaces(arr, b, l, m) /\ v2 = With(ref[k], ListValue(m))
  BY <1>l DEF Relisted
<1>1. Shapes(ref, val, arr, reply) /\ ref[k] # Null /\ ref[k] \in Location
  BY <1>v DEF TidyNow, Tidy, Intact, Shapes, ListAt
<1> USE DEF With
<1>2. CASE j = k
  <2>1. ListValue(m).type = "list" /\ ListValue(m).list = m
    BY DEF ListValue, NoValue
  <2>2. v2[ref[k]] = ListValue(m)
    BY <1>1, <1>v DEF Shapes
  <2> QED
    BY <1>1, <1>2, <2>1, <2>2 DEF Held, ValueOf, Shown
<1>3. CASE j # k /\ ref[j] = Null
  BY <1>3 DEF Held, ValueOf, Shown
<1>4. CASE j # k /\ ref[j] # Null
  <2>1. ref[j] # ref[k] /\ Apart(ref, val, j, k)
    BY <1>4 DEF TidyNow, Tidy, Intact, Apart
  <2>2. v2[ref[j]] = val[ref[j]]
    BY <1>1, <1>v, <1>4, <2>1, HeldCell DEF Shapes
  <2>3. ASSUME val[ref[j]].type # "string" PROVE Seen(b, val[ref[j]].list) = Seen(arr, val[ref[j]].list)
    <3>1. PICK x : x = val[ref[j]].list.block
      OBVIOUS
    <3>2. x \in Location \ {New} /\ x # l.block
      BY <1>l, <1>v, <1>4, <2>1, <2>3, <3>1, HeldCell DEF Apart
    <3>3. arr[x] \in Seq(Elem) /\ b[x] \in Seq(Elem)
      BY <1>1, <1>v, <3>2 DEF Shapes, Replaces
    <3>4. Len(b[x]) = Len(arr[x]) /\ \A i \in 1 .. Len(arr[x]) : b[x][i] = arr[x][i]
      BY <1>v, <3>2 DEF Replaces, Kept
    <3>5. b[x] = arr[x]
      BY <3>3, <3>4, SeqEqual
    <3> QED
      BY <3>1, <3>5 DEF Seen
  <2> QED
    BY <1>4, <2>2, <2>3 DEF Held, ValueOf, Shown
<1> QED
  BY <1>2, <1>3, <1>4

(* A string that changes where it is.                                       *)
LEMMA StringShows ==
    ASSUME TidyNow, NEW k \in Key, ref[k] # Null, NEW x \in Str,
           NEW v2, v2 = With(ref[k], StrValue(x)), NEW j \in Key
    PROVE  ValueOf(ref, v2, arr, j) = IF j = k THEN NewStringValue(x) ELSE Held(j)
<1>1. Shapes(ref, val, arr, reply) /\ ref[k] \in Location
  BY DEF TidyNow, Tidy, Intact, Shapes
<1> USE DEF With
<1>2. CASE j = k
  <2>1. v2[ref[k]].type = "string" /\ v2[ref[k]].str = x
    BY <1>1 DEF Shapes, StrValue, NoValue
  <2> QED
    BY <1>2, <2>1 DEF Held, ValueOf, Shown
<1>3. CASE j # k
  <2>1. ref[j] # Null => ref[j] # ref[k] /\ ref[j] \in Location
    BY <1>1, <1>3 DEF TidyNow, Tidy, Intact, Apart, Shapes
  <2>2. ref[j] # Null => v2[ref[j]] = val[ref[j]]
    BY <1>1, <2>1 DEF Shapes
  <2> QED
    BY <1>3, <2>2 DEF Held, ValueOf, Shown
<1> QED
  BY <1>2, <1>3

(* Pointers that go or move take the values with them.                      *)
LEMMA DroppedShows ==
    ASSUME TidyNow, NEW k \in Key,
           NEW r2, r2 = Linked(k, Null), NEW j \in Key
    PROVE  ValueOf(r2, val, arr, j) = IF j = k THEN Missing ELSE Held(j)
<1>1. r2[j] = IF j = k THEN Null ELSE ref[j]
  BY DEF Linked, TidyNow, Tidy, Intact, Shapes
<1> QED
  BY <1>1 DEF Held, ValueOf, Shown

(* After RENAME the destination holds what the source held.                 *)
LEMMA RenamedShows ==
    ASSUME TidyNow, NEW k \in Key, NEW l \in Key,
           NEW r2, r2 = Renaming(k, l), NEW j \in Key
    PROVE  ValueOf(r2, val, arr, j) = IF j = k THEN Missing ELSE IF j = l THEN Held(k) ELSE Held(j)
<1>1. r2[j] = IF j = k THEN Null ELSE IF j = l THEN ref[k] ELSE ref[j]
  BY DEF Renaming, TidyNow, Tidy, Intact, Shapes
<1> QED
  BY <1>1 DEF Held, ValueOf, Shown

-----------------------------------------------------------------------------
(* Windows of sequences: the n elements of a that follow the first f.       *)
Part(a, f, n) == SubSeq(a, f + 1, f + n)
Consists(s, a, f, e) == s \in Seq(Elem) /\ Len(s) = e /\ \A i \in 1 .. e : s[i] = a[f + i]

(* The elements of a window of an array.                                    *)
LEMMA WindowItems ==
    ASSUME NEW a \in Seq(Elem), NEW f \in Nat, NEW e \in Nat, f + e <= Len(a)
    PROVE  Consists(Part(a, f, e), a, f, e)
<1> DEFINE s == Part(a, f, e)
<1>1. PICK g \in Nat : g = Len(a)
  OBVIOUS
<1>2. \A i \in f + 1 .. f + e : i \in 1 .. g
  BY <1>1
<1>3. \A i \in f + 1 .. f + e : a[i] \in Elem
  BY <1>1, <1>2, ElementOfSeq
<1>4. PICK x \in Int, y \in Int : x = f + 1 /\ y = f + e
  OBVIOUS
<1>5. \A i \in x .. y : a[i] \in Elem
  BY <1>3, <1>4
<1>6. /\ SubSeq(a, x, y) \in Seq(Elem)
      /\ Len(SubSeq(a, x, y)) = IF x <= y THEN y - x + 1 ELSE 0
      /\ \A i \in 1 .. y - x + 1 : SubSeq(a, x, y)[i] = a[x + i - 1]
  BY <1>5, SubSeqProperties
<1>7. s = SubSeq(a, x, y) /\ y - x + 1 = e /\ (IF x <= y THEN y - x + 1 ELSE 0) = e
  BY <1>4 DEF Part
<1>8. \A i \in 1 .. e : x + i - 1 = f + i
  BY <1>4
<1> HIDE DEF s
<1>9. Consists(s, a, f, e)
  BY <1>6, <1>7, <1>8 DEF Consists
<1> QED
  BY <1>9 DEF s

(* h is where the window d of the part s of a begins in a.                  *)
Nested(a, f, e, s, d, n, h) ==
    /\ a \in Seq(Elem) /\ f \in Nat /\ e \in Nat /\ f + e <= Len(a) /\ s = Part(a, f, e)
    /\ d \in Nat /\ n \in Nat /\ d + n <= e /\ h \in Nat /\ h = f + d

(* A window of a window.                                                    *)
LEMMA WindowOfWindow ==
    ASSUME NEW a, NEW f, NEW e, NEW s, NEW d, NEW n, NEW h, Nested(a, f, e, s, d, n, h)
    PROVE  Part(a, h, n) = Part(s, d, n)
<1> /\ a \in Seq(Elem) /\ f \in Nat /\ e \in Nat /\ f + e <= Len(a) /\ s = Part(a, f, e)
    /\ d \in Nat /\ n \in Nat /\ d + n <= e /\ h \in Nat /\ h = f + d
  BY DEF Nested
<1>1. PICK t : t = Part(a, h, n)
  OBVIOUS
<1>2. PICK u : u = Part(s, d, n)
  OBVIOUS
<1>3. h = f + d
  OBVIOUS
<1>4. s \in Seq(Elem) /\ Len(s) = e /\ \A i \in 1 .. e : s[i] = a[f + i]
  <2>1. Consists(s, a, f, e)
    BY WindowItems
  <2> QED
    BY <2>1 DEF Consists
<1>5. t \in Seq(Elem) /\ Len(t) = n /\ \A i \in 1 .. n : t[i] = a[h + i]
  <2>1. t = Part(a, h, n)
    BY <1>1
  <2>2. Len(a) \in Nat
    OBVIOUS
  <2>3. h + n <= Len(a)
    BY <1>3, <2>2
  <2>4. Consists(t, a, h, n)
    BY <2>1, <2>3, WindowItems
  <2> QED
    BY <2>4 DEF Consists
<1>6. u \in Seq(Elem) /\ Len(u) = n /\ \A i \in 1 .. n : u[i] = s[d + i]
  <2>1. Consists(u, s, d, n)
    BY <1>2, <1>4, WindowItems
  <2> QED
    BY <2>1 DEF Consists
<1>7. ASSUME NEW i \in 1 .. n PROVE t[i] = u[i]
  <2>1. d + i \in 1 .. e /\ f + (d + i) = h + i
    BY <1>3
  <2>2. s[d + i] = a[f + (d + i)]
    BY <1>4, <2>1
  <2> QED
    BY <1>5, <1>6, <2>1, <2>2
<1>8. t = u
  BY <1>5, <1>6, <1>7, SeqEqual
<1> QED
  BY <1>1, <1>2, <1>8

(* append's writes lie behind the list.                                     *)
LEMMA WritesBehind ==
    ASSUME NEW a \in Seq(Elem), NEW at \in Nat, NEW vals \in Seq(Str), at + Len(vals) <= Len(a),
           NEW o, o = Overwritten(a, at, vals)
    PROVE  o \in Seq(Elem) /\ Len(o) = Len(a) /\ \A i \in 1 .. Len(a) : i <= at => o[i] = a[i]
<1>1. o = [i \in 1 .. Len(a) |-> IF i \in at + 1 .. at + Len(vals) THEN vals[i - at] ELSE a[i]]
  BY DEF Overwritten
<1>2. Len(a) \in Nat /\ Len(vals) \in Nat
  OBVIOUS
<1>3. ASSUME NEW i \in 1 .. Len(a) PROVE o[i] \in Elem
  <2>1. CASE i \in at + 1 .. at + Len(vals)
    <3>1. i - at \in 1 .. Len(vals)
      BY <1>2, <2>1
    <3>2. vals[i - at] \in Str
      BY <3>1, ElementOfSeq
    <3> QED
      BY <1>1, <1>3, <2>1, <3>2 DEF Elem
  <2>2. CASE i \notin at + 1 .. at + Len(vals)
    <3>1. a[i] \in Elem
      BY <1>3, ElementOfSeq
    <3> QED
      BY <1>1, <1>3, <2>2, <3>1
  <2> QED
    BY <2>1, <2>2
<1>4. \A i \in 1 .. Len(a) : i <= at => o[i] = a[i]
  BY <1>1, <1>2
<1>5. o \in [1 .. Len(a) -> Elem]
  BY <1>1, <1>3
<1>6. o \in Seq(Elem) /\ Len(o) = Len(a)
  BY <1>2, <1>5
<1> QED
  BY <1>4, <1>6

(* The window append writes behind.                                         *)
Extends(a, f, e, vals, at, m, o) ==
    /\ a \in Seq(Elem) /\ f \in Nat /\ e \in Nat /\ vals \in Seq(Str) /\ at \in Nat
    /\ at = f + e /\ m = e + Len(vals) /\ at + Len(vals) <= Len(a) /\ o = Overwritten(a, at, vals)

(* The window that grows over what append wrote shows the old elements and  *)
(* the new ones.                                                            *)
LEMMA WindowAppended ==
    ASSUME NEW a, NEW f, NEW e, NEW vals, NEW at, NEW m, NEW o, Extends(a, f, e, vals, at, m, o)
    PROVE  Part(o, f, m) = Part(a, f, e) \o vals
<1> a \in Seq(Elem) /\ f \in Nat /\ e \in Nat /\ vals \in Seq(Str) /\ at \in Nat
  BY DEF Extends
<1>1. PICK n \in Nat, g \in Nat : n = Len(vals) /\ g = Len(a)
  OBVIOUS
<1>2. at = f + e /\ m = e + n /\ at + n <= g /\ o = Overwritten(a, at, vals)
  BY <1>1 DEF Extends
<1>3. at + n <= g
  BY <1>1, <1>2
<1>4. o \in Seq(Elem) /\ Len(o) = g
  BY <1>1, <1>2, <1>3, WritesBehind
<1>5. o = [i \in 1 .. g |-> IF i \in at + 1 .. at + n THEN vals[i - at] ELSE a[i]]
  BY <1>1, <1>2 DEF Overwritten
<1>6. m \in Nat /\ m = e + n
  BY <1>2
<1>7. f + m <= g /\ f + e <= g
  BY <1>2, <1>3, <1>6
<1>8. PICK t : t = Part(o, f, m)
  OBVIOUS
<1>a. o \in Seq(Elem) /\ f + m <= Len(o)
  BY <1>4, <1>7
<1>9. t \in Seq(Elem) /\ Len(t) = m /\ \A i \in 1 .. m : t[i] = o[f + i]
  <2>1. Consists(t, o, f, m)
    BY <1>6, <1>8, <1>a, WindowItems
  <2> QED
    BY <2>1 DEF Consists
<1>10. PICK s : s = Part(a, f, e)
  OBVIOUS
<1>11. s \in Seq(Elem) /\ Len(s) = e /\ \A i \in 1 .. e : s[i] = a[f + i]
  <2>1. Consists(s, a, f, e)
    BY <1>1, <1>7, <1>10, WindowItems
  <2> QED
    BY <2>1 DEF Consists
<1>12. vals \in Seq(Elem)
  BY SeqMonotonic DEF Elem
<1>13. PICK u : u = s \o vals
  OBVIOUS
<1>14. /\ u \in Seq(Elem) /\ Len(u) = e + n
       /\ \A i \in 1 .. e + n : u[i] = IF i <= e THEN s[i] ELSE vals[i - e]
  <2>1. /\ u \in Seq(Elem) /\ Len(u) = Len(s) + Len(vals)
        /\ \A i \in 1 .. Len(s) + Len(vals) : u[i] = IF i <= Len(s) THEN s[i] ELSE vals[i - Len(s)]
    BY <1>11, <1>12, <1>13, ConcatProperties
  <2>2. Len(s) = e /\ Len(vals) = n
    BY <1>1, <1>11
  <2> QED
    BY <2>1, <2>2
<1>15. ASSUME NEW i \in 1 .. m PROVE t[i] = u[i]
  <2>1. f + i \in 1 .. g /\ i \in 1 .. e + n
    BY <1>6, <1>7
  <2>2. t[i] = IF f + i \in at + 1 .. at + n THEN vals[(f + i) - at] ELSE a[f + i]
    BY <1>5, <1>9, <2>1
  <2>3. CASE i <= e
    <3>1. f + i \notin at + 1 .. at + n /\ i \in 1 .. e
      BY <1>2, <2>3
    <3> QED
      BY <1>11, <1>14, <2>1, <2>2, <2>3, <3>1
  <2>4. CASE ~(i <= e)
    <3>1. f + i \in at + 1 .. at + n /\ (f + i) - at = i - e
      BY <1>2, <1>6, <2>4
    <3> QED
      BY <1>14, <2>1, <2>2, <2>4, <3>1
  <2> QED
    BY <2>3, <2>4
<1>16. t = u
  BY <1>6, <1>9, <1>14, <1>15, SeqEqual
<1> QED
  BY <1>8, <1>10, <1>13, <1>16

(* The window of all that was put into a new array.                         *)
LEMMA WindowWhole ==
    ASSUME NEW xs \in Seq(Elem), NEW pad \in Seq(Elem)
    PROVE  Part(xs \o pad, 0, Len(xs)) = xs
<1>1. PICK n \in Nat, d \in Nat : n = Len(xs) /\ d = Len(pad)
  OBVIOUS
<1>2. PICK a : a = xs \o pad
  OBVIOUS
<1>3. a \in Seq(Elem) /\ Len(a) = n + d /\ \A i \in 1 .. n + d : a[i] = IF i <= n THEN xs[i] ELSE pad[i - n]
  BY <1>1, <1>2, ConcatProperties
<1>4. PICK t : t = Part(a, 0, n)
  OBVIOUS
<1>5. t \in Seq(Elem) /\ Len(t) = n /\ \A i \in 1 .. n : t[i] = a[0 + i]
  <2>1. 0 + n <= Len(a)
    BY <1>3
  <2>2. Consists(t, a, 0, n)
    BY <1>3, <1>4, <2>1, WindowItems
  <2> QED
    BY <2>2 DEF Consists
<1>6. \A i \in 1 .. n : t[i] = xs[i]
  <2>1. \A i \in 1 .. n : i \in 1 .. n + d /\ i <= n /\ 0 + i = i
    OBVIOUS
  <2> QED
    BY <1>3, <1>5, <2>1
<1> QED
  BY <1>1, <1>2, <1>4, <1>5, <1>6, SeqEqual

-----------------------------------------------------------------------------
(* The steps.                                                               *)

(* A string is a value without a list.                                      *)
LEMMA StrValues == ASSUME NEW x \in Elem
                   PROVE  StrValue(x) \in Values /\ StrValue(x).type = "string" /\ StrValue(x).list = NoSlice
                          /\ StrValue(x).str = x
BY DEF StrValue, NoValue, Values, NoSlice, Slice, Slices

(* The fields of a slice.                                                   *)
LEMMA SliceFields ==
    ASSUME NEW x \in Location, NEW from \in Nat, NEW len \in Nat
    PROVE  /\ Slice(x, from, len) \in Slices /\ Slice(x, from, len).block = x
           /\ Slice(x, from, len).from = from /\ Slice(x, from, len).len = len
BY DEF Slice, Slices

(* A new Value under k, with a new array or none: k holds it, the other     *)
(* keys what they held.                                                     *)
LEMMA NewValueTidy ==
    ASSUME TidyNow, NEW k \in Key, NEW w \in Values, NEW b, Grown(arr, b), Placed(b, w), NewValue(k, w, b)
    PROVE  /\ Tidy(ref', val', arr', reply')
           /\ Puts(k, IF w.type = "string" THEN NewStringValue(w.str) ELSE NewListValue(Seen(b, w.list)))
<1>1. PICK r2 : r2 = [ref EXCEPT ![k] = New]
  OBVIOUS
<1>2. PICK v2 : v2 = [val EXCEPT ![New] = w]
  OBVIOUS
<1>3. Becomes(r2, v2, b, reply)
  BY <1>1, <1>2 DEF NewValue
<1>4. Intact(r2, v2, b, reply)
  BY <1>1, <1>2, StoredIntact DEF TidyNow
<1>5. PICK e : e = IF w.type = "string" THEN NewStringValue(w.str) ELSE NewListValue(Seen(b, w.list))
  OBVIOUS
<1>6. ASSUME NEW j \in Key PROVE ValueOf(r2, v2, b, j) = IF j = k THEN e ELSE Held(j)
  <2>1. ValueOf(r2, v2, b, j) = IF j # k THEN Held(j)
                                ELSE IF w.type = "string" THEN NewStringValue(w.str) ELSE NewListValue(Seen(b, w.list))
    <3>1. r2 = Linked(k, New) /\ v2 = With(New, w)
      BY <1>1, <1>2 DEF Linked, With
    <3> QED
      BY <3>1, StoredShows
  <2> QED
    BY <1>5, <2>1 DEF Held
<1>7. Tidy(ref', val', arr', reply') /\ Shows(r2, v2, b)
  BY <1>3, <1>4, BecomesTidy
<1>8. Puts(k, e)
  BY <1>6, <1>7 DEF Shows, Puts
<1> QED
  BY <1>5, <1>7, <1>8

(* Arrays that nobody touched still hold what they held.                    *)
LEMMA SameArrays == TidyNow => Grown(arr, arr)
BY DEF TidyNow, Tidy, Intact, Shapes, Grown

(* A new string under k.                                                    *)
LEMMA NewStringTidy ==
    ASSUME TidyNow, NEW k \in Key, NEW x \in Elem, NewValue(k, StrValue(x), arr)
    PROVE  Tidy(ref', val', arr', reply') /\ Puts(k, NewStringValue(x))
<1>1. PICK w : w = StrValue(x)
  OBVIOUS
<1>2. w \in Values /\ Placed(arr, w) /\ w.type = "string" /\ w.str = x
  BY <1>1, StrValues DEF Placed
<1>3. Grown(arr, arr) /\ NewValue(k, w, arr)
  BY <1>1, SameArrays
<1> QED
  BY <1>2, <1>3, NewValueTidy

(* SET, INCR and DEL.                                                       *)
LEMMA SetTidy ==
    ASSUME TidyNow, NEW k \in Key, NEW x \in Writes, DoSet(k, x)
    PROVE  Tidy(ref', val', arr', reply') /\ Puts(k, NewStringValue(x))
<1>1. x \in Elem
  BY HeapAssumption DEF Elem
<1> QED
  BY <1>1, NewStringTidy DEF DoSet

(* What Incr makes of a string, or of a missing key, without a deadline.    *)
LEMMA IncrOf ==
    ASSUME NEW k, NEW s, IsNumeral(s), NEW e, e = NewStringValue(s) \/ (e = Missing /\ s = 0)
    PROVE  Incr(e, 0, k).value = NewStringValue(Wrap(Atoi(s) + 1))
<1> DEFINE n == Wrap(Atoi(s) + 1)
           cur == IF Present(e) THEN e ELSE NewStringValue(0)
<1>1. cur = NewStringValue(s)
  <2>1. CASE e = NewStringValue(s)
    <3>1. NewStringValue(s).type = "string"
      BY DEF NewStringValue, Missing
    <3> QED
      BY <2>1, <3>1 DEF Present
  <2>2. CASE e = Missing /\ s = 0
    <3>1. Missing.type = "none"
      BY DEF Missing
    <3> QED
      BY <2>2, <3>1 DEF Present
  <2> QED
    BY <2>1, <2>2
<1>2. cur.type = "string" /\ cur.str = s
  BY <1>1 DEF NewStringValue, Missing
<1>3. Incr(e, 0, k).value = [cur EXCEPT !.str = n]
  <2>1. AddInt(e, 0, k, 1, "INCR") = Result([cur EXCEPT !.str = n], <<<<"INCR", 0, k>>>>, Num(n))
    BY <1>2 DEF AddInt
  <2> HIDE DEF n, cur
  <2> QED
    BY <2>1 DEF Incr, Result
<1> QED
  BY <1>1, <1>3 DEF NewStringValue, Missing

(* Incr, which writes into the Value it finds.                              *)
LEMMA IncrTidy ==
    ASSUME TidyNow, NEW k \in Key, DoIncr(k)
    PROVE  Tidy(ref', val', arr', reply') /\ Puts(k, Incr(Held(k), 0, k).value)
<1> DEFINE cur == IF ref[k] = Null THEN StrValue(0) ELSE Value(k)
           x   == Wrap(Atoi(cur.str) + 1)
<1>1. /\ cur.type = "string" /\ IsNumeral(cur.str)
      /\ IF ref[k] = Null THEN NewValue(k, StrValue(x), arr)
         ELSE Becomes(ref, [val EXCEPT ![ref[k]] = StrValue(x)], arr, reply)
  BY DEF DoIncr
<1>2. x \in Str
  <2> HIDE DEF cur
  <2>1. Atoi(cur.str) + 1 \in Int
    BY <1>1, AtoiType
  <2> QED
    BY <2>1, WrapType, IntsFacts
<1>3. ref[k] # Null => cur = val[ref[k]]
  BY DEF Value
<1>a. Incr(Held(k), 0, k).value = NewStringValue(x)
  <2>1. Held(k) = NewStringValue(cur.str) \/ (Held(k) = Missing /\ cur.str = 0)
    BY <1>1, <1>3 DEF Held, ValueOf, Shown, StrValue, NoValue
  <2> HIDE DEF cur
  <2> QED
    BY <1>1, <2>1, IncrOf
<1> HIDE DEF cur, x
<1>4. CASE ref[k] = Null
  <2>1. x \in Elem
    BY <1>2 DEF Elem
  <2> QED
    BY <1>1, <1>a, <1>4, <2>1, NewStringTidy
<1>5. CASE ref[k] # Null
  <2>1. PICK v2 : v2 = [val EXCEPT ![ref[k]] = StrValue(x)]
    OBVIOUS
  <2>2. Becomes(ref, v2, arr, reply) /\ val[ref[k]].type = "string"
    BY <1>1, <1>3, <1>5, <2>1
  <2>3. Intact(ref, v2, arr, reply)
    BY <1>2, <1>5, <2>1, <2>2, StringIntact DEF TidyNow
  <2>4. ASSUME NEW j \in Key PROVE ValueOf(ref, v2, arr, j) = IF j = k THEN NewStringValue(x) ELSE Held(j)
    <3>1. ValueOf(ref, v2, arr, j) = IF j = k THEN NewStringValue(x) ELSE Held(j)
      <4>1. v2 = With(ref[k], StrValue(x))
        BY <2>1 DEF With
      <4> QED
        BY <1>2, <1>5, <4>1, StringShows
    <3> QED
      BY <3>1 DEF Held
  <2>5. Tidy(ref', val', arr', reply') /\ Shows(ref, v2, arr)
    BY <2>2, <2>3, BecomesTidy
  <2>6. Puts(k, NewStringValue(x))
    BY <2>4, <2>5 DEF Shows, Puts
  <2> QED
    BY <1>a, <2>5, <2>6
<1> QED
  BY <1>4, <1>5

(* A key that goes leaves the others as they were.                          *)
LEMMA DroppedTidy ==
    ASSUME TidyNow, NEW k \in Key, Becomes([ref EXCEPT ![k] = Null], val, arr, reply)
    PROVE  Tidy(ref', val', arr', reply') /\ Puts(k, Missing)
<1>1. PICK r2 : r2 = [ref EXCEPT ![k] = Null]
  OBVIOUS
<1>2. Intact(r2, val, arr, reply)
  BY <1>1, DroppedIntact DEF TidyNow
<1>3. ASSUME NEW j \in Key PROVE ValueOf(r2, val, arr, j) = IF j = k THEN Missing ELSE Held(j)
  <2>1. ValueOf(r2, val, arr, j) = IF j = k THEN Missing ELSE Held(j)
    BY <1>1, DroppedShows DEF Linked
  <2> QED
    BY <2>1 DEF Held
<1>4. Tidy(ref', val', arr', reply') /\ Shows(r2, val, arr)
  BY <1>1, <1>2, BecomesTidy
<1> QED
  BY <1>3, <1>4 DEF Shows, Puts

(* Del.                                                                     *)
LEMMA DelTidy ==
    ASSUME TidyNow, NEW k \in Key, DoDel(k)
    PROVE  Tidy(ref', val', arr', reply') /\ Puts(k, Missing)
BY DroppedTidy DEF DoDel

(* Rename moves the pointer, and with it the value.                         *)
LEMMA RenameTidy ==
    ASSUME TidyNow, NEW k \in Key, NEW l \in Key, DoRename(k, l)
    PROVE  Tidy(ref', val', arr', reply') /\ Held(k) # Missing /\ Moves(k, l)
<1>1. PICK r2 : r2 = [[ref EXCEPT ![l] = ref[k]] EXCEPT ![k] = Null]
  OBVIOUS
<1>2. PICK q : q = CutFrom(reply, ref[k])
  OBVIOUS
<1>3. ref[k] # Null /\ Becomes(r2, val, arr, q)
  BY <1>1, <1>2 DEF DoRename, CutFrom
<1>4. Intact(r2, val, arr, q)
  BY <1>1, <1>2, <1>3, RenamedIntact DEF TidyNow
<1>5. ASSUME NEW j \in Key
      PROVE  ValueOf(r2, val, arr, j) = IF j = k THEN Missing ELSE IF j = l THEN Held(k) ELSE Held(j)
  <2>1. ValueOf(r2, val, arr, j) = IF j = k THEN Missing
                                   ELSE IF j = l THEN Held(k) ELSE Held(j)
    <3>1. r2 = Renaming(k, l)
      BY <1>1 DEF Renaming
    <3> QED
      BY <3>1, RenamedShows
  <2> QED
    BY <2>1 DEF Held
<1>6. Tidy(ref', val', arr', reply') /\ Shows(r2, val, arr)
  BY <1>3, <1>4, BecomesTidy
<1>7. Moves(k, l)
  BY <1>5, <1>6 DEF Shows, Moves
<1>8. Held(k) # Missing
  BY <1>3 DEF Held, ValueOf, Shown, NewStringValue, NewListValue, Missing
<1> QED
  BY <1>6, <1>7, <1>8

(* A client's reply is replaced, and the heap otherwise stays.              *)
LEMMA ReplyTidy ==
    ASSUME TidyNow, NEW c \in Clients, NEW x \in Replies, NEW q, q = [reply EXCEPT ![c] = x],
           GetOK(ref, val, arr, q, c), ListOK(ref, val, arr, q, c), IdleOK(q, c), Becomes(ref, val, arr, q)
    PROVE  Tidy(ref', val', arr', reply') /\ Stays
<1>1. Intact(ref, val, arr, reply)
  BY DEF TidyNow, Tidy
<1>2. Intact(ref, val, arr, q)
  BY <1>1, ReplyIntact
<1> QED
  BY <1>2, BecomesTidy DEF Shows, Stays, Held

(* GET changes no key.                                                      *)
LEMMA GetTidy ==
    ASSUME TidyNow, NEW c \in Clients, NEW k \in Key, DoGet(c, k)
    PROVE  Tidy(ref', val', arr', reply') /\ Stays
<1> DEFINE x == [NoReply EXCEPT !.op = "GET", !.key = k, !.cell = ref[k]]
<1>1. PICK q : q = [reply EXCEPT ![c] = x]
  OBVIOUS
<1>2. ref[k] # Null /\ Becomes(ref, val, arr, q)
  BY <1>1 DEF DoGet
<1>3. ref[k] \in Location /\ Whole(val, arr, ref[k])
  BY <1>2, HeldCell DEF TidyNow, Tidy, Intact, KeyOK
<1>4. Shapes(ref, val, arr, reply) /\ Intact(ref, val, arr, reply)
  BY DEF TidyNow, Tidy, Intact
<1>5. Alone(ref, val, ref[k]) /\ \A j \in Key : ref[j] = ref[k] => j = k
  <2>1. \A j \in Key : Apart(ref, val, k, j)
    BY <1>4 DEF Intact
  <2> QED
    BY <1>2, <2>1 DEF Alone, Apart, ListAt
<1>6. x.op = "GET" /\ x.key = k /\ x.cell = ref[k] /\ x.list = NoSlice /\ x.sent = <<>> /\ x \in Replies
  <2>1. <<>> \in Seq(Elem) /\ {} \in SUBSET PlainValues /\ NoSlice \in Slices
    BY EmptySeq DEF NoSlice, Slice, Slices
  <2> QED
    BY <1>3, <2>1 DEF NoReply, Replies
<1> HIDE DEF x
<1>7. q[c] = x
  BY <1>1, <1>4 DEF Shapes
<1>8. GetOK(ref, val, arr, q, c) /\ ListOK(ref, val, arr, q, c) /\ IdleOK(q, c)
  BY <1>2, <1>3, <1>5, <1>6, <1>7 DEF GetOK, ListOK, IdleOK, ListOps
<1> QED
  BY <1>1, <1>2, <1>6, <1>8, ReplyTidy

(* A reply that turns from its Value to a slice.                            *)
LEMMA TakesList ==
    ASSUME NEW p \in Replies, NEW s \in Slices, NEW x,
           x = [p EXCEPT !.op = "GETLIST", !.key = "none", !.cell = Null, !.list = s]
    PROVE  /\ x.op = "GETLIST" /\ x.cell = Null /\ x.list = s /\ x.sent = p.sent /\ x.owed = p.owed
           /\ x.cut = p.cut /\ x \in Replies
BY DEF Replies, ListOps

(* Nor does GET of a list that goes for its elements: it takes the window   *)
(* it is owed, and a list of a key in that array is this very list.         *)
LEMMA AsListTidy ==
    ASSUME TidyNow, NEW c \in Clients, AsList(c)
    PROVE  Tidy(ref', val', arr', reply') /\ Stays
<1> DEFINE p == reply[c]
           s == val[p.cell].list
           x == [p EXCEPT !.op = "GETLIST", !.key = "none", !.cell = Null, !.list = s]
<1>1. PICK q : q = [reply EXCEPT ![c] = x]
  OBVIOUS
<1>2. p.op = "GET" /\ val[p.cell].type = "list" /\ Becomes(ref, val, arr, q)
  BY <1>1 DEF AsList
<1>3. /\ Shapes(ref, val, arr, reply) /\ p \in Replies
      /\ GetOK(ref, val, arr, reply, c) /\ Paid(val, arr, reply, c)
  BY DEF TidyNow, Tidy, Intact, Shapes
<1>4. p.cell \in Location /\ p.sent = <<>> /\ Inside(arr, s) /\ Alone(ref, val, p.cell)
  BY <1>2, <1>3 DEF GetOK, Whole, Replies
<1>5. s \in Slices
  BY <1>3, <1>4 DEF Shapes, Values
<1>6. ~p.cut => p.owed = {NewListValue(Seen(arr, s))}
  BY <1>2, <1>3 DEF Paid, Shown
<1>7. /\ x.op = "GETLIST" /\ x.cell = Null /\ x.list = s /\ x.sent = <<>> /\ x.owed = p.owed
      /\ x.cut = p.cut /\ x \in Replies
  <2>1. p \in Replies /\ s \in Slices /\ p.sent = <<>>
    BY <1>3, <1>4, <1>5
  <2> HIDE DEF p, s
  <2>2. /\ x.op = "GETLIST" /\ x.cell = Null /\ x.list = s /\ x.sent = p.sent /\ x.owed = p.owed
        /\ x.cut = p.cut /\ x \in Replies
    BY <2>1, TakesList
  <2> QED
    BY <2>1, <2>2
<1>8. q[c] = x
  BY <1>1, <1>3 DEF Shapes
<1>9. ASSUME NEW k \in Key, ListAt(ref, val, k), val[ref[k]].list.block = s.block
      PROVE  s.from + s.len <= End(val[ref[k]].list)
  <2>1. ref[k] = p.cell
    BY <1>2, <1>4, <1>9 DEF Alone
  <2>2. s.from + s.len \in Int
    BY <1>5 DEF Slices
  <2> QED
    BY <2>1, <2>2 DEF End
<1> HIDE DEF x, s
<1>10. Len(q[c].sent) = 0 /\ s.len \in Nat
  BY <1>5, <1>7, <1>8, EmptySeq DEF Slices
<1>11. ListOK(ref, val, arr, q, c)
  <2>1. Len(q[c].sent) <= q[c].list.len
    BY <1>7, <1>8, <1>10
  <2>2. \A i \in 1 .. Len(q[c].sent) : q[c].sent[i] = arr[q[c].list.block][q[c].list.from + i]
    BY <1>10
  <2> QED
    BY <1>4, <1>6, <1>7, <1>8, <1>9, <2>1, <2>2 DEF ListOK
<1>12. GetOK(ref, val, arr, q, c) /\ IdleOK(q, c)
  BY <1>7, <1>8 DEF GetOK, IdleOK
<1> QED
  BY <1>1, <1>2, <1>7, <1>11, <1>12, ReplyTidy DEF x

(* Nor does the end of a reply.                                             *)
LEMMA RepliedTidy ==
    ASSUME TidyNow, NEW c \in Clients, Replied(c)
    PROVE  Tidy(ref', val', arr', reply') /\ Stays
<1>1. PICK q : q = [reply EXCEPT ![c] = NoReply]
  OBVIOUS
<1>2. Becomes(ref, val, arr, q)
  BY <1>1 DEF Replied
<1>3. NoReply \in Replies /\ NoReply.op = "none"
  <2>1. <<>> \in Seq(Elem) /\ {} \in SUBSET PlainValues /\ NoSlice \in Slices
    BY EmptySeq DEF NoSlice, Slice, Slices
  <2> QED
    BY <2>1 DEF NoReply, Replies
<1>4. q[c] = NoReply
  BY <1>1 DEF TidyNow, Tidy, Intact, Shapes
<1>5. GetOK(ref, val, arr, q, c) /\ ListOK(ref, val, arr, q, c) /\ IdleOK(q, c)
  BY <1>3, <1>4 DEF GetOK, ListOK, IdleOK, ListOps
<1> QED
  BY <1>1, <1>2, <1>3, <1>5, ReplyTidy

(* Nor does the encoding of an element.                                     *)
LEMMA EncodeTidy ==
    ASSUME TidyNow, NEW c \in Clients, EncodeElement(c)
    PROVE  Tidy(ref', val', arr', reply') /\ Stays
<1> DEFINE p == reply[c]
           s == p.list
           n == Len(p.sent)
           e == arr[s.block][s.from + n + 1]
           x == [p EXCEPT !.sent = Append(p.sent, e)]
<1>1. /\ p.op \in ListOps /\ n < s.len
      /\ Becomes(ref, val, arr, [reply EXCEPT ![c].sent = Append(@, arr[s.block][s.from + Len(@) + 1])])
  BY DEF EncodeElement, ListOps
<1>2. Shapes(ref, val, arr, reply) /\ ListOK(ref, val, arr, reply, c)
  BY DEF TidyNow, Tidy, Intact
<1>3. PICK q : q = [reply EXCEPT ![c] = x]
  OBVIOUS
<1>4. Becomes(ref, val, arr, q)
  BY <1>1, <1>3
<1>5. p \in Replies /\ p.sent \in Seq(Elem) /\ s \in Slices /\ n \in Nat
  BY <1>2 DEF Shapes, Replies
<1>6. s.block \in Location /\ s.from \in Nat /\ s.len \in Nat /\ s.from + s.len <= Len(arr[s.block])
      /\ arr[s.block] \in Seq(Elem)
  BY <1>1, <1>2, <1>5 DEF ListOK, Inside, Slices, Shapes
<1>7. e \in Elem
  <2> DEFINE f == s.from
             d == s.len
             g == Len(arr[s.block])
             m == n
  <2>1. f \in Nat /\ d \in Nat /\ g \in Nat /\ f + d <= g /\ m \in Nat /\ m < d
    BY <1>1, <1>5, <1>6
  <2> HIDE DEF f, d, g, m
  <2>2. f + m + 1 \in 1 .. g
    BY <2>1
  <2> QED
    BY <1>6, <2>2, ElementOfSeq DEF f, d, g, m
<1>8. q[c] = x
  BY <1>2, <1>3 DEF Shapes
<1> HIDE DEF e
<1>9. /\ Append(p.sent, e) \in Seq(Elem) /\ Len(Append(p.sent, e)) = n + 1 /\ Append(p.sent, e)[n + 1] = e
      /\ \A i \in 1 .. n : Append(p.sent, e)[i] = p.sent[i]
  BY <1>5, <1>7, AppendProperties
<1>10. PICK t : t = Append(p.sent, e)
  OBVIOUS
<1>11. /\ x \in Replies /\ x.op = p.op /\ x.cell = p.cell /\ x.list = s /\ x.sent = t /\ x.owed = p.owed
       /\ x.cut = p.cut
  <2>1. x = [p EXCEPT !.sent = t] /\ t \in Seq(Elem)
    BY <1>9, <1>10
  <2> HIDE DEF x
  <2> QED
    BY <1>5, <2>1 DEF Replies
<1>12. ListOK(ref, val, arr, q, c)
  <2>1. Len(t) <= s.len
    BY <1>1, <1>5, <1>6, <1>9, <1>10
  <2>2. ASSUME ~p.cut PROVE \A i \in 1 .. Len(t) : t[i] = arr[s.block][s.from + i]
    <3>1. \A i \in 1 .. n : t[i] = arr[s.block][s.from + i]
      BY <1>1, <1>2, <1>9, <1>10, <2>2 DEF ListOK
    <3>2. t[n + 1] = arr[s.block][s.from + (n + 1)]
      <4>1. s.from + n + 1 = s.from + (n + 1)
        BY <1>5, <1>6
      <4> QED
        BY <1>9, <1>10, <4>1 DEF e
    <3>3. \A i \in 1 .. Len(t) : i \in 1 .. n \/ i = n + 1
      BY <1>5, <1>9, <1>10
    <3> QED
      BY <3>1, <3>2, <3>3
  <2> HIDE DEF x
  <2> QED
    BY <1>1, <1>2, <1>8, <1>11, <2>1, <2>2 DEF ListOK
<1>13. GetOK(ref, val, arr, q, c) /\ IdleOK(q, c)
  <2> HIDE DEF x
  <2> QED
    BY <1>1, <1>8, <1>11 DEF GetOK, IdleOK, ListOps
<1> HIDE DEF x
<1> QED
  BY <1>3, <1>4, <1>11, <1>12, <1>13, ReplyTidy

-----------------------------------------------------------------------------
(* What the list methods make of a list that never expires, and the pushes  *)
(* of no entry.                                                             *)
LEMMA ListEntry ==
    ASSUME NEW xs, NEW e, e = NewListValue(xs)
    PROVE  e.type = "list" /\ e.list = xs /\ Live(e, 0) /\ Present(e)
<1>1. e = [Missing EXCEPT !.type = "list", !.list = xs]
  BY DEF NewListValue
<1>2. e.type = "list" /\ e.list = xs /\ e.exp = Never
  BY <1>1 DEF Missing
<1>3. Live(e, 0) /\ Present(e)
  BY <1>2 DEF Live, Present, IsExpired
<1> QED
  BY <1>2, <1>3

(* A list entry whose elements are replaced.                                *)
LEMMA OtherList ==
    ASSUME NEW xs, NEW e, e = NewListValue(xs), NEW ys
    PROVE  [e EXCEPT !.list = ys] = NewListValue(ys)
BY DEF Missing, NewListValue

Pushable(e, xs) == e = NewListValue(xs) \/ (e = Missing /\ xs = <<>>)
Pushed(e, ys)   == [e EXCEPT !.type = "list", !.list = ys]

(* A push makes a list of a missing key or a longer one of a list.          *)
LEMMA PushedEntry ==
    ASSUME NEW xs, NEW e, Pushable(e, xs), NEW ys
    PROVE  e.list = xs /\ ~(Present(e) /\ e.type # "list") /\ Pushed(e, ys) = NewListValue(ys)
<1> USE DEF Pushed, Pushable
<1>1. CASE e = NewListValue(xs)
  <2>1. e.type = "list" /\ e.list = xs
    BY <1>1, ListEntry
  <2>2. [e EXCEPT !.type = "list", !.list = ys] = NewListValue(ys)
    BY <1>1 DEF Missing, NewListValue
  <2> QED
    BY <2>1, <2>2
<1>2. CASE e = Missing /\ xs = <<>>
  <2>1. e.type = "none" /\ e.list = <<>>
    BY <1>2 DEF Missing
  <2>2. [e EXCEPT !.type = "list", !.list = ys] = NewListValue(ys)
    BY <1>2 DEF NewListValue
  <2> QED
    BY <1>2, <2>1, <2>2 DEF Present
<1> QED
  BY <1>1, <1>2

PushGives(k, e, xs, vals) == /\ RPush(e, 0, k, vals).value = NewListValue(xs \o vals)
                             /\ LPush(e, 0, k, vals).value = NewListValue(Reverse(vals) \o xs)

(* What RPush and LPush leave.                                              *)
LEMMA PushOf ==
    ASSUME NEW k, NEW xs \in Seq(Elem), NEW e, Pushable(e, xs), NEW vals \in Seq(Elem)
    PROVE  PushGives(k, e, xs, vals)
<1>1. PICK ys : ys = xs \o vals
  OBVIOUS
<1>2. PICK zs : zs = Reverse(vals) \o xs
  OBVIOUS
<1>3. e.list = xs /\ ~(Present(e) /\ e.type # "list")
  BY PushedEntry
<1>4. RPush(e, 0, k, vals).value = Pushed(e, ys)
  BY <1>1, <1>3 DEF RPush, Result, Pushed
<1>5. LPush(e, 0, k, vals).value = Pushed(e, zs)
  BY <1>2, <1>3 DEF LPush, Result, Pushed
<1>6. Pushed(e, ys) = NewListValue(ys)
  BY PushedEntry
<1>7. Pushed(e, zs) = NewListValue(zs)
  BY PushedEntry
<1> QED
  BY <1>1, <1>2, <1>4, <1>5, <1>6, <1>7 DEF PushGives

Poppable(e, xs, count, n, rest) ==
    /\ e = NewListValue(xs) /\ xs # <<>> /\ (count # <<>> => count[1] >= 0)
    /\ n = Count(count, Len(xs)) /\ rest = Len(xs) - n

PopGives(k, e, xs, count, n, rest) ==
    /\ LPop(e, 0, 0, k, count).value = NewListValue(Part(xs, n, rest))
    /\ RPop(e, 0, 0, k, count).value = NewListValue(Part(xs, 0, rest))

(* What LPop and RPop leave.                                                *)
LEMMA PopOf ==
    ASSUME NEW k, NEW xs \in Seq(Elem), NEW e, NEW count \in Seq(Int), NEW n \in Nat, NEW rest \in Nat,
           Poppable(e, xs, count, n, rest)
    PROVE  PopGives(k, e, xs, count, n, rest)
<1>1. e.type = "list" /\ e.list = xs /\ Live(e, 0)
  BY ListEntry DEF Poppable
<1>2. xs # <<>> /\ n = Count(count, Len(xs)) /\ rest = Len(xs) - n
  BY DEF Poppable
<1>l. PICK len \in Nat : len = Len(xs)
  OBVIOUS
<1>3. count # <<>> => ~(count[1] < 0)
  <2>1. count # <<>> => count[1] \in Int
    BY ElementOfSeq, EmptySeq
  <2> QED
    BY <2>1 DEF Poppable
<1>4. ~PopRefused(e, 0, count)
  BY <1>1, <1>2, <1>3 DEF PopRefused
<1>5. n + rest = len /\ 0 + rest = rest
  BY <1>2, <1>l
<1>6. PICK ys : ys = SubSeq(xs, n + 1, len)
  OBVIOUS
<1>7. PICK zs : zs = SubSeq(xs, 1, rest)
  OBVIOUS
<1>8. LPop(e, 0, 0, k, count).value = [e EXCEPT !.list = ys]
  BY <1>1, <1>2, <1>4, <1>6, <1>l DEF LPop, Result
<1>9. RPop(e, 0, 0, k, count).value = [e EXCEPT !.list = zs]
  BY <1>1, <1>2, <1>4, <1>7, <1>l DEF RPop, Result
<1>10. ys = Part(xs, n, rest) /\ zs = Part(xs, 0, rest)
  <2>1. ys = SubSeq(xs, n + 1, n + rest)
    BY <1>5, <1>6
  <2>2. zs = SubSeq(xs, 0 + 1, 0 + rest)
    <3>1. 0 + 1 = 1
      OBVIOUS
    <3> QED
      BY <1>5, <1>7, <3>1
  <2> QED
    BY <2>1, <2>2 DEF Part
<1>11. [e EXCEPT !.list = ys] = NewListValue(ys)
  BY OtherList DEF Poppable
<1>12. [e EXCEPT !.list = zs] = NewListValue(zs)
  BY OtherList DEF Poppable
<1> QED
  BY <1>8, <1>9, <1>10, <1>11, <1>12 DEF PopGives

Trimmable(e, xs, w, len, lo, hi) ==
    e = NewListValue(xs) /\ len = Len(xs) /\ lo = Lo(w[1], len) /\ hi = Hi(w[2], len)

TrimGives(k, e, xs, w, len, lo, hi) ==
    LTrim(e, 0, 0, k, w[1], w[2]).value = IF Outside(lo, hi, len) THEN Missing ELSE NewListValue(SubSeq(xs, lo + 1, hi + 1))

(* What LTrim leaves.                                                       *)
LEMMA TrimOf ==
    ASSUME NEW k, NEW xs \in Seq(Elem), NEW w, NEW e, NEW len, NEW lo, NEW hi, Trimmable(e, xs, w, len, lo, hi)
    PROVE  TrimGives(k, e, xs, w, len, lo, hi)
<1>1. e.type = "list" /\ e.list = xs /\ Live(e, 0)
  BY ListEntry DEF Trimmable
<1>2. PICK ys : ys = SubSeq(xs, lo + 1, hi + 1)
  OBVIOUS
<1>3. LTrim(e, 0, 0, k, w[1], w[2]).value = IF Outside(lo, hi, len) THEN Missing ELSE [e EXCEPT !.list = ys]
  BY <1>1, <1>2 DEF LTrim, Result, Outside, Trimmable
<1>4. [e EXCEPT !.list = ys] = NewListValue(ys)
  BY OtherList DEF Trimmable
<1> QED
  BY <1>2, <1>3, <1>4 DEF TrimGives

-----------------------------------------------------------------------------
(* The steps of the list methods.                                           *)

(* A window of a slice.                                                     *)
Window(l, from, len) == Slice(l.block, l.from + from, len)

(* A key that holds a list.                                                 *)
LEMMA ListHere ==
    ASSUME TidyNow, NEW k \in Key, IsList(k), NEW l, l = List(k)
    PROVE  /\ ListAt(ref, val, k) /\ l = val[ref[k]].list /\ l \in Slices /\ Inside(arr, l)
           /\ l.block \in Location \ {New, Null} /\ l.from \in Nat /\ l.len \in Nat
           /\ arr \in [Location -> Seq(Elem)] /\ reply \in [Clients -> Replies]
<1>1. ListAt(ref, val, k) /\ l = val[ref[k]].list
  BY DEF IsList, List, Value, ListAt, NoValue
<1>2. Shapes(ref, val, arr, reply) /\ KeyOK(ref, val, arr, k) /\ Free(ref, val, reply)
  BY DEF TidyNow, Tidy, Intact
<1>3. ref[k] # Null /\ ref[k] \in Location /\ val[ref[k]].type = "list"
  BY <1>1, <1>2 DEF Shapes, ListAt
<1>4. val[ref[k]] \in Values
  BY <1>2, <1>3 DEF Shapes
<1>5. l \in Slices /\ Inside(arr, l) /\ l.block # New
  BY <1>1, <1>2, <1>3, <1>4 DEF Values, KeyOK, Whole, Free
<1> QED
  BY <1>1, <1>2, <1>5, RootAssumption DEF Slices, Inside, Shapes, Location, New, Null

(* It is what the key shows.                                                *)
LEMMA HeldList ==
    ASSUME TidyNow, NEW k \in Key, IsList(k), NEW xs, xs = Elements(List(k))
    PROVE  Held(k) = NewListValue(xs) /\ xs \in Seq(Elem) /\ Len(xs) = List(k).len
<1>1. PICK l : l = List(k)
  OBVIOUS
<1>2. /\ ListAt(ref, val, k) /\ l = val[ref[k]].list /\ l \in Slices /\ Inside(arr, l)
      /\ arr \in [Location -> Seq(Elem)]
  BY <1>1, ListHere
<1>3. Seen(arr, l) \in Seq(Elem) /\ Len(Seen(arr, l)) = l.len /\ Seen(arr, l) = Elements(l)
  BY <1>2, SeenType DEF Elements, Seen
<1>4. Held(k) = NewListValue(Seen(arr, l))
  BY <1>2 DEF Held, ValueOf, Shown, ListAt
<1> QED
  BY <1>1, <1>3, <1>4

(* A window of it shows a part of that.                                     *)
LEMMA WindowSeen ==
    ASSUME TidyNow, NEW k \in Key, IsList(k), NEW l, l = List(k), NEW d \in Nat, NEW n \in Nat, d + n <= l.len
    PROVE  Seen(arr, Window(l, d, n)) = Part(Elements(l), d, n)
<1>1. l \in Slices /\ Inside(arr, l) /\ l.block \in Location /\ arr \in [Location -> Seq(Elem)]
  BY ListHere
<1>2. PICK f \in Nat, e \in Nat, a \in Seq(Elem) : f = l.from /\ e = l.len /\ a = arr[l.block] /\ f + e <= Len(a)
  BY <1>1 DEF Slices, Inside
<1>3. Elements(l) = Part(a, f, e)
  BY <1>2 DEF Elements, Seen, Part
<1>4. PICK h \in Nat : h = f + d
  OBVIOUS
<1>5. Seen(arr, Window(l, d, n)) = Part(a, h, n)
  BY <1>2, <1>4 DEF Seen, Window, Slice, Part
<1>6. Nested(a, f, e, Elements(l), d, n, h)
  <2>1. d + n <= e /\ f + e <= Len(a)
    BY <1>2
  <2> QED
    BY <1>3, <1>4, <2>1 DEF Nested
<1>7. Part(a, h, n) = Part(Elements(l), d, n)
  BY <1>6, WindowOfWindow
<1> QED
  BY <1>5, <1>7

(* No pending slice of a key's array reaches beyond its list, unless cut.   *)
LEMMA NoneBeyond ==
    ASSUME TidyNow, NEW k \in Key, ListAt(ref, val, k), NEW l, l = val[ref[k]].list
    PROVE  NoneOver(reply, l) /\ Cuts(reply, reply)
<1>1. \A c \in Clients : ListOK(ref, val, arr, reply, c)
  BY DEF TidyNow, Tidy, Intact
<1>2. NoneOver(reply, l)
  BY <1>1 DEF ListOK, NoneOver
<1> QED
  BY <1>2 DEF Cuts

(* No other key holds a list in the array of a key's list.                  *)
LEMMA OwnArray ==
    ASSUME NEW r, NEW v, NEW a, NEW p, Intact(r, v, a, p), NEW k \in Key, NEW j \in Key,
           ListAt(r, v, k), ListAt(r, v, j), v[r[k]].list.block = v[r[j]].list.block
    PROVE  j = k
BY DEF Intact, Apart, ListAt

(* A new array shows the elements it was allocated for, whatever its spare  *)
(* room.                                                                    *)
LEMMA RangeArray ==
    ASSUME NEW xs \in Seq(Elem), NEW spare \in Nat, TidyNow, NEW b, b = Allocated(xs, spare)
    PROVE  /\ Grown(arr, b) /\ Len(xs) \in Nat /\ Len(xs) <= Len(b[New]) /\ New \in Location
           /\ Seen(b, Slice(New, 0, Len(xs))) = xs
<1>1. arr \in [Location -> Seq(Elem)] /\ New \in Location
  BY DEF TidyNow, Tidy, Intact, Shapes, Location
<1>p. PICK pad : pad = [i \in 1 .. spare |-> NoStr]
  OBVIOUS
<1>2. pad \in Seq(Elem) /\ Len(pad) = spare
  BY <1>p DEF Elem
<1>3. b = [arr EXCEPT ![New] = xs \o pad]
  BY <1>p DEF Allocated
<1>4. xs \o pad \in Seq(Elem) /\ Len(xs \o pad) = Len(xs) + spare /\ Len(xs) \in Nat
  <2>1. xs \o pad \in Seq(Elem) /\ Len(xs \o pad) = Len(xs) + Len(pad)
    BY <1>2, ConcatProperties
  <2>2. Len(xs) \in Nat
    BY LenProperties
  <2> QED
    BY <1>2, <2>1, <2>2
<1>5. b[New] = xs \o pad
  BY <1>1, <1>3
<1>6. Len(xs) <= Len(b[New])
  BY <1>4, <1>5
<1>7. Seen(b, Slice(New, 0, Len(xs))) = xs
  <2>1. Part(xs \o pad, 0, Len(xs)) = xs
    BY <1>2, WindowWhole
  <2> QED
    BY <1>5, <2>1 DEF Part, Seen, Slice
<1> QED
  BY <1>1, <1>3, <1>4, <1>6, <1>7 DEF Grown

(* A key's list is replaced, and the replies are spared.                    *)
LEMMA SetListTidy ==
    ASSUME TidyNow, NEW k \in Key, ListAt(ref, val, k), NEW l, l = val[ref[k]].list, NEW m, NEW b, NEW q,
           Replaces(arr, b, l, m), Spares(reply, q, l, m), SetList(k, m, b, q)
    PROVE  Tidy(ref', val', arr', reply') /\ Puts(k, NewListValue(Seen(b, m)))
<1>1. PICK v2 : v2 = [val EXCEPT ![ref[k]] = ListValue(m)]
  OBVIOUS
<1>2. Becomes(ref, v2, b, q)
  BY <1>1 DEF SetList
<1>3. Tidy(ref, val, arr, reply)
  BY DEF TidyNow
<1>4. Intact(ref, v2, b, q)
  BY <1>1, <1>3, ListIntact
<1>5. Relisted(k, m, b, v2)
  BY <1>1 DEF Relisted, With
<1>6. ASSUME NEW j \in Key PROVE ValueOf(ref, v2, b, j) = IF j = k THEN NewListValue(Seen(b, m)) ELSE Held(j)
  BY <1>5, ListShows
<1>7. Tidy(ref', val', arr', reply') /\ Shows(ref, v2, b)
  BY <1>2, <1>4, BecomesTidy
<1>8. Puts(k, NewListValue(Seen(b, m)))
  BY <1>6, <1>7 DEF Shows, Puts
<1> QED
  BY <1>7, <1>8

(* A push on a missing key.                                                 *)
LEMMA NewListTidy ==
    ASSUME TidyNow, NEW k \in Key, NEW vals \in Seq(Str), NewList(k, vals)
    PROVE  Tidy(ref', val', arr', reply') /\ Held(k) = Missing /\ Puts(k, NewListValue(vals))
<1>1. PICK b : b = Allocated(vals, 0)
  OBVIOUS
<1>2. PICK m : m = Slice(New, 0, Len(vals))
  OBVIOUS
<1>3. PICK w : w = ListValue(m)
  OBVIOUS
<1>4. NewValue(k, w, b)
  BY <1>1, <1>2, <1>3 DEF NewList
<1>5. vals \in Seq(Elem)
  BY SeqMonotonic DEF Elem
<1>6. /\ Grown(arr, b) /\ Len(vals) \in Nat /\ Len(vals) <= Len(b[New]) /\ New \in Location
      /\ Seen(b, m) = vals
  <2>1. 0 \in Nat
    OBVIOUS
  <2> QED
    BY <1>1, <1>2, <1>5, <2>1, RangeArray
<1>7. m \in Slices /\ m.block = New /\ m.from = 0 /\ m.len = Len(vals)
  BY <1>2, <1>6, SliceFields
<1>8. w.type = "list" /\ w.list = m /\ w \in Values
  BY <1>3, <1>7 DEF ListValue, NoValue, Values, Elem
<1>9. Inside(b, m)
  BY <1>6, <1>7 DEF Inside
<1>10. Held(k) = Missing
  BY DEF NewList, Held, ValueOf, Shown
<1>11. Placed(b, w) /\ w.type # "string" /\ Seen(b, w.list) = vals
  BY <1>6, <1>7, <1>8, <1>9 DEF Placed
<1>12. /\ Tidy(ref', val', arr', reply')
       /\ Puts(k, IF w.type = "string" THEN NewStringValue(w.str) ELSE NewListValue(Seen(b, w.list)))
  BY <1>4, <1>6, <1>8, <1>11, NewValueTidy
<1> QED
  BY <1>10, <1>11, <1>12

(* A list that moves to a new array.                                        *)
LEMMA GrowTidy ==
    ASSUME TidyNow, NEW k \in Key, IsList(k), NEW xs \in Seq(Elem), Grow(k, xs)
    PROVE  Tidy(ref', val', arr', reply') /\ Puts(k, NewListValue(xs))
<1>1. PICK l : l = List(k)
  OBVIOUS
<1>2. PICK spare \in Nat : SetList(k, Slice(New, 0, Len(xs)), Allocated(xs, spare), reply)
  BY HeapAssumption DEF Grow
<1>3. PICK b : b = Allocated(xs, spare)
  OBVIOUS
<1>4. PICK m : m = Slice(New, 0, Len(xs))
  OBVIOUS
<1>5. /\ Grown(arr, b) /\ Len(xs) \in Nat /\ Len(xs) <= Len(b[New]) /\ New \in Location
      /\ Seen(b, m) = xs
  BY <1>2, <1>3, <1>4, RangeArray
<1>6. m \in Slices /\ m.block = New /\ m.from = 0 /\ m.len = Len(xs)
  BY <1>4, <1>5, SliceFields
<1>7. Inside(b, m)
  BY <1>5, <1>6 DEF Inside
<1>8. /\ ListAt(ref, val, k) /\ l = val[ref[k]].list /\ reply \in [Clients -> Replies]
      /\ b \in [Location -> Seq(Elem)] /\ Kept(arr, b, l)
  BY <1>1, <1>5, ListHere DEF Grown, Kept
<1>9. NoneOver(reply, l) /\ Cuts(reply, reply)
  BY <1>8, NoneBeyond
<1>10. NoneOver(reply, m)
  BY <1>6 DEF TidyNow, Tidy, Free, NoneOver
<1>11. Replaces(arr, b, l, m) /\ Spares(reply, reply, l, m)
  BY <1>6, <1>7, <1>8, <1>9, <1>10 DEF Replaces, Spares
<1>12. SetList(k, m, b, reply)
  BY <1>2, <1>3, <1>4
<1>13. Tidy(ref', val', arr', reply') /\ Puts(k, NewListValue(Seen(b, m)))
  BY <1>8, <1>11, <1>12, SetListTidy
<1> QED
  BY <1>5, <1>13

(* append with room: the elements are written behind the list, where no     *)
(* other key and no uncut reply looks.                                      *)
LEMMA AppendTidy ==
    ASSUME TidyNow, NEW k \in Key, IsList(k), NEW vals \in Seq(Str), NEW l, l = List(k),
           Room(l, Len(vals)),
           SetList(k, [l EXCEPT !.len = @ + Len(vals)],
                   [arr EXCEPT ![l.block] = Overwritten(@, End(l), vals)], reply)
    PROVE  Tidy(ref', val', arr', reply') /\ Puts(k, NewListValue(Elements(l) \o vals))
<1>1. /\ ListAt(ref, val, k) /\ l = val[ref[k]].list /\ l \in Slices /\ Inside(arr, l)
      /\ l.block \in Location \ {New, Null} /\ l.from \in Nat /\ l.len \in Nat
      /\ arr \in [Location -> Seq(Elem)] /\ reply \in [Clients -> Replies]
  BY ListHere
<1>2. PICK o : o = Overwritten(arr[l.block], End(l), vals)
  OBVIOUS
<1>3. PICK b : b = [arr EXCEPT ![l.block] = o]
  OBVIOUS
<1>4. PICK n : n = Len(vals)
  OBVIOUS
<1>5. PICK m : m = [l EXCEPT !.len = l.len + n]
  OBVIOUS
<1>6. n \in Nat /\ End(l) = l.from + l.len /\ End(l) \in Nat /\ arr[l.block] \in Seq(Elem)
      /\ End(l) + n <= Len(arr[l.block])
  <2>1. n \in Nat
    BY <1>4
  <2>2. End(l) = l.from + l.len
    BY DEF End
  <2>3. End(l) \in Nat
    BY <1>1, <2>2
  <2>4. arr[l.block] \in Seq(Elem)
    BY <1>1
  <2>5. End(l) + n <= Len(arr[l.block])
    BY <1>4 DEF Room
  <2> QED
    BY <2>1, <2>2, <2>3, <2>4, <2>5
<1>7. o \in Seq(Elem) /\ Len(o) = Len(arr[l.block]) /\ \A i \in 1 .. Len(arr[l.block]) : i <= End(l) => o[i] = arr[l.block][i]
  BY <1>2, <1>4, <1>6, WritesBehind
<1>8. m \in Slices /\ m.block = l.block /\ m.from = l.from /\ m.len = l.len + n
  <2> DEFINE grown == l.len + n
  <2>1. grown \in Nat
    <3>1. l.len \in Nat
      BY <1>1
    <3>2. n \in Nat
      BY <1>6
    <3> QED
      BY <3>1, <3>2
  <2>2. l \in Slices /\ m = [l EXCEPT !.len = grown]
    BY <1>1, <1>5
  <2> HIDE DEF grown
  <2>3. m \in Slices /\ m.block = l.block /\ m.from = l.from /\ m.len = grown
    BY <2>1, <2>2 DEF Slices
  <2> QED
    BY <2>3 DEF grown
<1>9. b \in [Location -> Seq(Elem)] /\ b[l.block] = o /\ \A x \in Location : x # l.block => b[x] = arr[x]
  BY <1>1, <1>3, <1>7
<1>10. Kept(arr, b, l)
  BY <1>7, <1>9 DEF Kept
<1>11. Inside(b, m)
  <2> DEFINE f == l.from
             e == l.len
             g == Len(arr[l.block])
  <2>1. f \in Nat /\ e \in Nat /\ g \in Nat /\ f + e + n <= g
    <3>1. f \in Nat /\ e \in Nat
      BY <1>1
    <3>2. g \in Nat
      BY <1>6
    <3>3. f + e + n <= g
      BY <1>6
    <3> QED
      BY <3>1, <3>2, <3>3
  <2>2. b[m.block] = o /\ Len(o) = g /\ m.from = f /\ m.len = e + n /\ m.block \in Location
    BY <1>1, <1>7, <1>8, <1>9
  <2> HIDE DEF f, e, g
  <2>3. f + (e + n) <= g
    BY <1>6, <2>1
  <2> QED
    BY <2>2, <2>3 DEF Inside
<1>12. NoneOver(reply, l) /\ Cuts(reply, reply)
  BY <1>1, NoneBeyond
<1>13. NoneOver(reply, m)
  <2>1. End(m) = End(l) + n
    <3> DEFINE f == l.from
               e == l.len
    <3>1. f \in Nat /\ e \in Nat /\ m.from = f /\ m.len = e + n
      BY <1>1, <1>8
    <3> HIDE DEF f, e
    <3>2. f + (e + n) = f + e + n
      BY <1>6, <3>1
    <3> QED
      BY <3>1, <3>2 DEF End, f, e
  <2> SUFFICES ASSUME NEW c \in Clients, reply[c].op \in ListOps, ~reply[c].cut, reply[c].list.block = l.block
               PROVE  reply[c].list.from + reply[c].list.len <= End(m)
    BY <1>8 DEF NoneOver
  <2> DEFINE z == reply[c].list.from + reply[c].list.len
             e == End(l)
  <2>2. z <= e /\ z \in Nat
    <3>1. z <= e
      BY <1>12 DEF NoneOver
    <3>2. reply[c].list \in Slices
      BY <1>1 DEF Replies
    <3>3. reply[c].list.from \in Nat /\ reply[c].list.len \in Nat
      BY <3>2 DEF Slices
    <3> QED
      BY <3>1, <3>3
  <2>3. e \in Nat
    BY <1>6
  <2> HIDE DEF z, e
  <2>4. z <= e + n
    BY <1>6, <2>2, <2>3
  <2> QED
    BY <2>1, <2>4 DEF z, e
<1>14. Replaces(arr, b, l, m) /\ Spares(reply, reply, l, m)
  BY <1>1, <1>8, <1>9, <1>10, <1>11, <1>12, <1>13 DEF Replaces, Spares
<1>15. SetList(k, m, b, reply)
  BY <1>2, <1>3, <1>4, <1>5
<1>16. Tidy(ref', val', arr', reply') /\ Puts(k, NewListValue(Seen(b, m)))
  BY <1>1, <1>14, <1>15, SetListTidy
<1>17. Seen(b, m) = Elements(l) \o vals
  <2>1. PICK f \in Nat, e \in Nat, a \in Seq(Elem) : f = l.from /\ e = l.len /\ a = arr[l.block]
    BY <1>1, <1>6
  <2>2. PICK at \in Nat : at = f + e
    BY <2>1
  <2>h. PICK h : h = e + Len(vals)
    OBVIOUS
  <2>3. o = Overwritten(a, at, vals) /\ at + Len(vals) <= Len(a)
    BY <1>2, <1>4, <1>6, <2>1, <2>2
  <2>4. Part(o, f, h) = Part(a, f, e) \o vals
    <3>1. a \in Seq(Elem) /\ f \in Nat /\ e \in Nat /\ vals \in Seq(Str) /\ at \in Nat
      BY <2>1, <2>2
    <3>2. Extends(a, f, e, vals, at, h, o)
      BY <3>1, <2>2, <2>h, <2>3 DEF Extends
    <3> QED
      BY <3>2, WindowAppended
  <2>5. Seen(b, m) = Part(o, f, h)
    BY <1>4, <1>8, <1>9, <2>1, <2>h DEF Seen, Part
  <2>6. Elements(l) = Part(a, f, e)
    BY <2>1 DEF Elements, Seen, Part
  <2> QED
    BY <2>4, <2>5, <2>6
<1> QED
  BY <1>16, <1>17

(* RPush.                                                                   *)
LEMMA RPushTidy ==
    ASSUME TidyNow, NEW k \in Key, NEW vals \in Seq(Str), DoRPush(k, vals)
    PROVE  Tidy(ref', val', arr', reply') /\ Puts(k, RPush(Held(k), 0, k, vals).value)
<1>v. vals \in Seq(Elem)
  BY SeqMonotonic DEF Elem
<1>1. CASE NewList(k, vals)
  <2>1. Tidy(ref', val', arr', reply') /\ Held(k) = Missing /\ Puts(k, NewListValue(vals))
    BY <1>1, NewListTidy
  <2>2. <<>> \in Seq(Elem) /\ <<>> \o vals = vals
    BY <1>v, EmptySeq, ConcatEmptySeq
  <2>3. RPush(Held(k), 0, k, vals).value = NewListValue(<<>> \o vals)
    <3>1. Pushable(Held(k), <<>>)
      BY <2>1 DEF Pushable
    <3> QED
      <4>1. PushGives(k, Held(k), <<>>, vals)
        BY <1>v, <2>2, <3>1, PushOf
      <4> QED
        BY <4>1 DEF PushGives
  <2> QED
    BY <2>1, <2>2, <2>3
<1>2. CASE ~NewList(k, vals)
  <2>1. PICK l : l = List(k)
    OBVIOUS
  <2>2. /\ IsList(k)
        /\ IF Room(l, Len(vals))
           THEN SetList(k, [l EXCEPT !.len = @ + Len(vals)],
                        [arr EXCEPT ![l.block] = Overwritten(@, End(l), vals)], reply)
           ELSE Grow(k, Elements(l) \o vals)
    BY <1>2, <2>1 DEF DoRPush
  <2>3. Elements(l) \in Seq(Elem) /\ Held(k) = NewListValue(Elements(l))
    BY <2>1, <2>2, HeldList
  <2>4. RPush(Held(k), 0, k, vals).value = NewListValue(Elements(l) \o vals)
    <3>1. Pushable(Held(k), Elements(l))
      BY <2>3 DEF Pushable
    <3> QED
      <4>1. PushGives(k, Held(k), Elements(l), vals)
        BY <1>v, <2>3, <3>1, PushOf
      <4> QED
        BY <4>1 DEF PushGives
  <2>5. CASE Room(l, Len(vals))
    <3>1. Tidy(ref', val', arr', reply') /\ Puts(k, NewListValue(Elements(l) \o vals))
      BY <2>1, <2>2, <2>5, AppendTidy
    <3> QED
      BY <2>4, <3>1
  <2>6. CASE ~Room(l, Len(vals))
    <3>1. Elements(l) \o vals \in Seq(Elem)
      BY <1>v, <2>3, ConcatProperties
    <3>2. Tidy(ref', val', arr', reply') /\ Puts(k, NewListValue(Elements(l) \o vals))
      BY <2>2, <2>6, <3>1, GrowTidy
    <3> QED
      BY <2>4, <3>2
  <2> QED
    BY <2>5, <2>6
<1> QED
  BY <1>1, <1>2

(* LPush.                                                                   *)
LEMMA LPushTidy ==
    ASSUME TidyNow, NEW k \in Key, NEW vals \in Seq(Str), DoLPush(k, vals)
    PROVE  Tidy(ref', val', arr', reply') /\ Puts(k, LPush(Held(k), 0, k, vals).value)
<1>v. vals \in Seq(Elem)
  BY SeqMonotonic DEF Elem
<1>1. Reverse(vals) \in Seq(Str) /\ Reverse(vals) \in Seq(Elem)
  <2>1. Reverse(vals) \in Seq(Str)
    BY DEF Reverse
  <2> QED
    BY <2>1, SeqMonotonic DEF Elem
<1>2. CASE NewList(k, Reverse(vals))
  <2>1. Tidy(ref', val', arr', reply') /\ Held(k) = Missing /\ Puts(k, NewListValue(Reverse(vals)))
    BY <1>1, <1>2, NewListTidy
  <2>2. <<>> \in Seq(Elem) /\ Reverse(vals) \o <<>> = Reverse(vals)
    BY <1>1, EmptySeq, ConcatEmptySeq
  <2>3. LPush(Held(k), 0, k, vals).value = NewListValue(Reverse(vals) \o <<>>)
    <3>1. Pushable(Held(k), <<>>)
      BY <2>1 DEF Pushable
    <3> QED
      <4>1. PushGives(k, Held(k), <<>>, vals)
        BY <1>v, <2>2, <3>1, PushOf
      <4> QED
        BY <4>1 DEF PushGives
  <2> QED
    BY <2>1, <2>2, <2>3
<1>3. CASE ~NewList(k, Reverse(vals))
  <2>1. PICK l : l = List(k)
    OBVIOUS
  <2>2. IsList(k) /\ Grow(k, Reverse(vals) \o Elements(l))
    BY <1>3, <2>1 DEF DoLPush
  <2>3. Elements(l) \in Seq(Elem) /\ Held(k) = NewListValue(Elements(l))
    BY <2>1, <2>2, HeldList
  <2>4. Reverse(vals) \o Elements(l) \in Seq(Elem)
    BY <1>1, <2>3, ConcatProperties
  <2>5. Tidy(ref', val', arr', reply') /\ Puts(k, NewListValue(Reverse(vals) \o Elements(l)))
    BY <2>2, <2>4, GrowTidy
  <2>6. LPush(Held(k), 0, k, vals).value = NewListValue(Reverse(vals) \o Elements(l))
    <3>1. Pushable(Held(k), Elements(l))
      BY <2>3 DEF Pushable
    <3> QED
      <4>1. PushGives(k, Held(k), Elements(l), vals)
        BY <1>v, <2>3, <3>1, PushOf
      <4> QED
        BY <4>1 DEF PushGives
  <2> QED
    BY <2>5, <2>6
<1> QED
  BY <1>2, <1>3

(* m is a window of the list l, and what that says of m.                    *)
Cutout(l, from, len, m) ==
    /\ l \in Slices /\ Inside(arr, l) /\ l.block \in Location /\ arr \in [Location -> Seq(Elem)]
    /\ from \in Nat /\ len \in Nat /\ from + len <= l.len /\ m = Window(l, from, len)
SitsIn(l, from, len, m) ==
    /\ m \in Slices /\ Inside(arr, m) /\ m.block = l.block
    /\ m.from + m.len = End(m) /\ m.from = l.from + from /\ m.len = len
    /\ End(m) \in Nat /\ End(l) \in Nat /\ End(m) = l.from + from + len
    /\ End(l) = l.from + l.len /\ End(m) <= End(l)

(* A window of a key's list lies within its array.                          *)
LEMMA WindowFits ==
    ASSUME NEW l, NEW from, NEW len, NEW m, Cutout(l, from, len, m)
    PROVE  SitsIn(l, from, len, m)
<1>a. l \in Slices /\ Inside(arr, l) /\ l.block \in Location /\ arr \in [Location -> Seq(Elem)]
      /\ from \in Nat /\ len \in Nat /\ from + len <= l.len /\ m = Window(l, from, len)
  BY DEF Cutout
<1> DEFINE f == l.from
           e == l.len
           g == Len(arr[l.block])
<1>1. f \in Nat /\ e \in Nat /\ g \in Nat /\ f + e <= g /\ End(l) = f + e
  BY <1>a DEF Slices, Inside, End
<1>2. m.block = l.block /\ m.from = f + from /\ m.len = len /\ End(m) = f + from + len
  BY <1>a DEF Window, Slice, End
<1> HIDE DEF f, e, g
<1>3. f + from \in Nat /\ f + from + len \in Nat /\ f + from + len <= f + e /\ f + from + len <= g /\ f + e \in Nat
  <2>1. from + len <= e
    BY <1>a DEF e
  <2> QED
    BY <1>1, <1>a, <2>1
<1>4. m \in Slices
  BY <1>2, <1>3, <1>a DEF Window, Slice, Slices, f
<1>5. Inside(arr, m)
  BY <1>2, <1>3, <1>a DEF Inside, f, g
<1> QED
  BY <1>1, <1>2, <1>3, <1>4, <1>5 DEF SitsIn, End, f, e

(* Cutting off what lies beyond a window's end spares the other replies.    *)
LEMMA CutBySpares ==
    ASSUME TidyNow, NEW l \in Slices, l.block \in Location \ {New, Null}, NoneOver(reply, l),
           NEW m, m.block = l.block, End(m) \in Nat, End(l) \in Nat, End(m) <= End(l),
           NEW q, q = CutBy(l, End(m))
    PROVE  Spares(reply, q, l, m)
<1>1. \A c \in Clients : reply[c] \in Replies /\ ListOK(ref, val, arr, reply, c)
                         /\ GetOK(ref, val, arr, reply, c) /\ IdleOK(reply, c)
  BY DEF TidyNow, Tidy, Intact, Shapes
<1>2. ASSUME NEW c \in Clients, reply[c].list.block = l.block PROVE reply[c].op \in ListOps
  <2>1. reply[c].list.block # Null /\ NoSlice.block = Null /\ NoReply.list = NoSlice
    BY <1>2 DEF NoSlice, Slice, NoReply
  <2>2. reply[c].op # "none" /\ reply[c].op # "GET"
    BY <1>1, <1>2, <2>1 DEF IdleOK, GetOK
  <2> QED
    BY <1>1, <1>2, <2>2 DEF Replies
<1>3. ASSUME NEW c \in Clients
      PROVE  /\ q[c] \in Replies
             /\ \/ q[c] = reply[c] /\ ~(reply[c].list.block = l.block /\ reply[c].list.from + reply[c].list.len > End(m))
                \/ reply[c].op \in ListOps /\ q[c] = Cut(reply[c]) /\ q[c].cut
  <2>1. q[c] = IF reply[c].list.block = l.block /\ reply[c].list.from + reply[c].list.len > End(m)
               THEN Cut(reply[c]) ELSE reply[c]
    BY <1>3 DEF CutBy
  <2>2. Cut(reply[c]) \in Replies /\ Cut(reply[c]).cut
    BY <1>1, <1>3 DEF Replies, Cut
  <2>3. CASE reply[c].list.block = l.block /\ reply[c].list.from + reply[c].list.len > End(m)
    BY <1>2, <1>3, <2>1, <2>2, <2>3
  <2>4. CASE ~(reply[c].list.block = l.block /\ reply[c].list.from + reply[c].list.len > End(m))
    BY <1>1, <1>3, <2>1, <2>4
  <2> QED
    BY <2>3, <2>4
<1>4. q \in [Clients -> Replies]
  BY <1>3 DEF CutBy
<1>5. Cuts(reply, q)
  BY <1>3 DEF Cuts
<1>6. NoneOver(q, m)
  <2> SUFFICES ASSUME NEW c \in Clients, ~q[c].cut, q[c].list.block = m.block
               PROVE  q[c].list.from + q[c].list.len <= End(m)
    BY DEF NoneOver
  <2>1. q[c] = reply[c] /\ ~(reply[c].list.from + reply[c].list.len > End(m))
    BY <1>3
  <2>2. reply[c].list \in Slices
    BY <1>1 DEF Replies
  <2>3. reply[c].list.from + reply[c].list.len \in Nat
    BY <2>2 DEF Slices
  <2> QED
    BY <2>1, <2>3
<1>7. NoneOver(q, l)
  <2> SUFFICES ASSUME NEW c \in Clients, q[c].op \in ListOps, ~q[c].cut, q[c].list.block = l.block
               PROVE  q[c].list.from + q[c].list.len <= End(l)
    BY DEF NoneOver
  <2>1. q[c] = reply[c]
    BY <1>3
  <2> QED
    BY <2>1 DEF NoneOver
<1> QED
  BY <1>4, <1>5, <1>6, <1>7 DEF Spares

(* A count that is not negative takes between none and all elements.        *)
LEMMA CountTakes ==
    ASSUME NEW len \in Nat, 0 < len, NEW count \in Seq(Int), count # <<>> => count[1] >= 0
    PROVE  Count(count, len) \in Nat /\ Count(count, len) <= len
<1>1. count # <<>> => count[1] \in Int
  BY ElementOfSeq, EmptySeq
<1> QED
  BY <1>1 DEF Count

(* A key's list is cut down, the replies are spared, and a client may be    *)
(* owed a slice of the array that the list does not end before, unless cut. *)
LEMMA PoppedTidy ==
    ASSUME TidyNow, NEW k \in Key, ListAt(ref, val, k), NEW l, l = val[ref[k]].list, NEW m, NEW q,
           Replaces(arr, arr, l, m), m.block = l.block, Spares(reply, q, l, m),
           NEW c \in Clients, NEW op \in ListOps, NEW s \in Slices, Inside(arr, s), s.block = l.block,
           NEW cut \in BOOLEAN, ~cut => s.from + s.len <= End(m),
           NEW p, p = q \/ p = Owes(q, c, op, s, cut), SetList(k, m, arr, p)
    PROVE  Tidy(ref', val', arr', reply') /\ Puts(k, NewListValue(Seen(arr, m)))
<1>1. PICK v2 : v2 = [val EXCEPT ![ref[k]] = ListValue(m)]
  OBVIOUS
<1>2. Becomes(ref, v2, arr, p)
  BY <1>1 DEF SetList
<1>3. Tidy(ref, val, arr, reply)
  BY DEF TidyNow
<1>4. Intact(ref, v2, arr, q)
  BY <1>1, <1>3, ListIntact
<1>5. ref[k] # Null /\ ref[k] \in Location /\ val \in [Location -> Values]
  BY <1>3 DEF Tidy, Intact, Shapes, ListAt
<1>6. ListAt(ref, v2, k) /\ v2[ref[k]].list = m
  <2>1. ListValue(m).type = "list" /\ ListValue(m).list = m
    BY DEF ListValue, NoValue
  <2> QED
    BY <1>1, <1>5, <2>1 DEF ListAt
<1>7. \A j \in Key : ~cut /\ ListAt(ref, v2, j) /\ v2[ref[j]].list.block = s.block
                    => s.from + s.len <= End(v2[ref[j]].list)
  <2> SUFFICES ASSUME NEW j \in Key, ~cut, ListAt(ref, v2, j), v2[ref[j]].list.block = s.block
               PROVE  s.from + s.len <= End(v2[ref[j]].list)
    OBVIOUS
  <2>1. v2[ref[k]].list.block = v2[ref[j]].list.block
    BY <1>6
  <2>2. j = k
    BY <1>4, <1>6, <2>1, OwnArray
  <2> QED
    BY <1>6, <2>2
<1>a. Relisted(k, m, arr, v2)
  BY <1>1 DEF Relisted, With
<1>b. ASSUME NEW j \in Key PROVE ValueOf(ref, v2, arr, j) = IF j = k THEN NewListValue(Seen(arr, m)) ELSE Held(j)
  BY <1>a, ListShows
<1>c. ASSUME Intact(ref, v2, arr, p)
      PROVE  Tidy(ref', val', arr', reply') /\ Puts(k, NewListValue(Seen(arr, m)))
  <2>1. Tidy(ref', val', arr', reply') /\ Shows(ref, v2, arr)
    BY <1>2, <1>c, BecomesTidy
  <2> QED
    BY <1>b, <2>1 DEF Shows, Puts
<1>8. CASE p = q
  BY <1>4, <1>8, <1>c
<1>9. CASE p = Owes(q, c, op, s, cut)
  <2>1. p = [q EXCEPT ![c] = [NoReply EXCEPT !.op = op, !.list = s, !.cut = cut,
                                       !.owed = IF cut THEN {} ELSE {NewListValue(Seen(arr, s))}]]
    BY <1>9 DEF Owes, Elements, Seen
  <2>2. Intact(ref, v2, arr, p)
    BY <1>4, <1>7, <2>1, OwedIntact
  <2> QED
    BY <1>c, <2>2
<1> QED
  BY <1>8, <1>9

(* LPop moves the left end of the window.                                   *)
LEMMA LPopTidy ==
    ASSUME TidyNow, NEW c \in Clients, NEW k \in Key, NEW count \in Counts, DoLPop(c, k, count)
    PROVE  Tidy(ref', val', arr', reply') /\ Puts(k, LPop(Held(k), 0, 0, k, count).value)
<1>1. PICK l : l = List(k)
  OBVIOUS
<1>2. IsList(k) /\ l.len > 0 /\ (count # <<>> => count[1] >= 0)
  BY <1>1 DEF DoLPop, Pops
<1>3. /\ ListAt(ref, val, k) /\ l = val[ref[k]].list /\ l \in Slices /\ Inside(arr, l)
      /\ l.block \in Location \ {New, Null} /\ l.from \in Nat /\ l.len \in Nat
      /\ arr \in [Location -> Seq(Elem)] /\ reply \in [Clients -> Replies]
  BY <1>1, <1>2, ListHere
<1>4. PICK f \in Nat, e \in Nat : f = l.from /\ e = l.len
  BY <1>3
<1>5. PICK n \in Nat : n = Count(count, e) /\ n <= e
  <2>1. Count(count, e) \in Nat /\ Count(count, e) <= e
    BY <1>2, <1>4, CountTakes, HeapAssumption
  <2> QED
    BY <2>1
<1>6. PICK rest \in Nat : rest = e - n
  BY <1>5
<1>7. PICK m : m = Window(l, n, rest)
  OBVIOUS
<1>8. PICK s : s = Window(l, 0, n)
  OBVIOUS
<1>9. PICK p : p = IF count = <<>> THEN reply ELSE Owes(reply, c, "LPOP", s, FALSE)
  OBVIOUS
<1>10. SetList(k, m, arr, p)
  <2>1. SetList(k, Slice(l.block, f + n, e - n), arr,
                IF count = <<>> THEN reply ELSE Owes(reply, c, "LPOP", Slice(l.block, f, n), FALSE))
    BY <1>1, <1>4, <1>5 DEF DoLPop
  <2>2. m = Slice(l.block, f + n, e - n) /\ f + 0 = f
    BY <1>4, <1>6, <1>7 DEF Window
  <2>3. s = Slice(l.block, f, n)
    BY <1>4, <1>8, <2>2 DEF Window
  <2> QED
    BY <1>9, <2>1, <2>2, <2>3
<1>11. n + rest <= e /\ 0 + n <= e /\ f + n + rest = f + e
  BY <1>5, <1>6
<1>a. n + rest <= l.len /\ 0 + n <= l.len
  BY <1>4, <1>11
<1>12. Replaces(arr, arr, l, m) /\ m.block = l.block /\ End(m) = l.from + n + rest
       /\ End(l) = l.from + l.len
  <2>1. /\ m \in Slices /\ Inside(arr, m) /\ m.block = l.block
        /\ End(m) \in Nat /\ End(l) \in Nat /\ End(m) <= End(l)
    <3>1. Cutout(l, n, rest, m)
      BY <1>3, <1>7, <1>a DEF Cutout
    <3>2. SitsIn(l, n, rest, m)
      BY <3>1, WindowFits
    <3> QED
      BY <3>2 DEF SitsIn
  <2>2. End(m) = l.from + n + rest /\ End(l) = l.from + l.len
    BY <1>3, <1>7 DEF End, Window, Slice
  <2> QED
    BY <1>3, <2>1, <2>2 DEF Replaces, Kept
<1>13. End(m) = End(l)
  BY <1>4, <1>11, <1>12
<1>14. Spares(reply, reply, l, m)
  <2>1. NoneOver(reply, l) /\ Cuts(reply, reply)
    BY <1>3, NoneBeyond
  <2>2. NoneOver(reply, m)
    BY <1>12, <1>13, <2>1 DEF NoneOver
  <2> QED
    BY <1>3, <2>1, <2>2 DEF Spares
<1>15. s \in Slices /\ Inside(arr, s) /\ s.block = l.block /\ s.from + s.len = End(s) /\ End(s) <= End(l)
  <2>1. Cutout(l, 0, n, s)
    BY <1>3, <1>8, <1>a DEF Cutout
  <2>2. SitsIn(l, 0, n, s)
    BY <2>1, WindowFits
  <2> QED
    BY <2>2 DEF SitsIn
<1>16. s.from + s.len <= End(m)
  BY <1>13, <1>15
<1>17. p = reply \/ p = Owes(reply, c, "LPOP", s, FALSE)
  BY <1>9
<1>18. "LPOP" \in ListOps /\ FALSE \in BOOLEAN
  BY DEF ListOps
<1>19. Tidy(ref', val', arr', reply') /\ Puts(k, NewListValue(Seen(arr, m)))
  BY <1>3, <1>10, <1>12, <1>14, <1>15, <1>16, <1>17, <1>18, PoppedTidy
<1>20. Seen(arr, m) = Part(Elements(l), n, rest)
  BY <1>1, <1>2, <1>7, <1>a, WindowSeen
<1>21. PICK xs : xs = Elements(l)
  OBVIOUS
<1>22. xs \in Seq(Elem) /\ Len(xs) = e /\ Held(k) = NewListValue(xs) /\ e > 0
  BY <1>1, <1>2, <1>4, <1>21, HeldList
<1>23. LPop(Held(k), 0, 0, k, count).value = NewListValue(Part(xs, n, rest))
  <2>1. Poppable(Held(k), xs, count, n, rest)
    <3>1. xs # <<>>
      BY <1>22
    <3> QED
      BY <1>2, <1>5, <1>6, <1>22, <3>1 DEF Poppable
  <2>2. count \in Seq(Int)
    BY HeapAssumption
  <2>3. PopGives(k, Held(k), xs, count, n, rest)
    BY <1>22, <2>1, <2>2, PopOf
  <2> QED
    BY <2>3 DEF PopGives
<1> QED
  BY <1>19, <1>20, <1>21, <1>23

(* RPop moves the right end, and the replies that show it are cut.          *)
LEMMA RPopTidy ==
    ASSUME TidyNow, NEW c \in Clients, NEW k \in Key, NEW count \in Counts, DoRPop(c, k, count)
    PROVE  Tidy(ref', val', arr', reply') /\ Puts(k, RPop(Held(k), 0, 0, k, count).value)
<1>1. PICK l : l = List(k)
  OBVIOUS
<1>2. IsList(k) /\ l.len > 0 /\ (count # <<>> => count[1] >= 0)
  BY <1>1 DEF DoRPop, Pops
<1>3. /\ ListAt(ref, val, k) /\ l = val[ref[k]].list /\ l \in Slices /\ Inside(arr, l)
      /\ l.block \in Location \ {New, Null} /\ l.from \in Nat /\ l.len \in Nat
      /\ arr \in [Location -> Seq(Elem)] /\ reply \in [Clients -> Replies]
  BY <1>1, <1>2, ListHere
<1>4. PICK f \in Nat, e \in Nat : f = l.from /\ e = l.len
  BY <1>3
<1>5. PICK n \in Nat : n = Count(count, e) /\ n <= e
  <2>1. Count(count, e) \in Nat /\ Count(count, e) <= e
    BY <1>2, <1>4, CountTakes, HeapAssumption
  <2> QED
    BY <2>1
<1>6. PICK rest \in Nat : rest = e - n
  BY <1>5
<1>7. PICK m : m = Window(l, 0, rest)
  OBVIOUS
<1>8. PICK s : s = Window(l, rest, n)
  OBVIOUS
<1>9. 0 + rest <= e /\ rest + n <= e /\ f + 0 = f /\ f + rest = f + e - n /\ f + 0 + rest = f + e - n
  BY <1>5, <1>6
<1>a. 0 + rest <= l.len /\ rest + n <= l.len
  BY <1>4, <1>9
<1>10. /\ Replaces(arr, arr, l, m) /\ m.block = l.block /\ End(m) = l.from + 0 + rest
       /\ End(l) = l.from + l.len /\ End(m) \in Nat /\ End(l) \in Nat /\ End(m) <= End(l)
  <2>1. /\ m \in Slices /\ Inside(arr, m) /\ m.block = l.block
        /\ End(m) \in Nat /\ End(l) \in Nat /\ End(m) <= End(l)
    <3>1. Cutout(l, 0, rest, m)
      BY <1>3, <1>7, <1>a DEF Cutout
    <3>2. SitsIn(l, 0, rest, m)
      BY <3>1, WindowFits
    <3> QED
      BY <3>2 DEF SitsIn
  <2>2. End(m) = l.from + 0 + rest /\ End(l) = l.from + l.len
    BY <1>3, <1>7 DEF End, Window, Slice
  <2> QED
    BY <1>3, <2>1, <2>2 DEF Replaces, Kept
<1>11. End(l) = f + e /\ End(m) = f + e - n
  BY <1>4, <1>9, <1>10
<1>12. PICK q : q = CutBy(l, End(m))
  OBVIOUS
<1>13. PICK p : p = IF count = <<>> THEN q ELSE Owes(q, c, "RPOP", s, TRUE)
  OBVIOUS
<1>14. SetList(k, m, arr, p)
  <2>1. SetList(k, [l EXCEPT !.len = e - n], arr,
                IF count = <<>> THEN CutBy(l, End(l) - n)
                ELSE Owes(CutBy(l, End(l) - n), c, "RPOP", Slice(l.block, End(l) - n, n), TRUE))
    BY <1>1, <1>4, <1>5 DEF DoRPop
  <2>2. l = [block |-> l.block, from |-> f, len |-> e]
    BY <1>3, <1>4 DEF Slices
  <2>3. [l EXCEPT !.len = e - n] = [block |-> l.block, from |-> f, len |-> rest]
    BY <1>6, <2>2
  <2>4. m = [block |-> l.block, from |-> f, len |-> rest]
    BY <1>4, <1>7, <1>9 DEF Window, Slice
  <2>5. q = CutBy(l, End(l) - n)
    BY <1>11, <1>12
  <2>6. s = Slice(l.block, End(l) - n, n)
    BY <1>4, <1>8, <1>9, <1>11 DEF Window
  <2> QED
    BY <1>13, <2>1, <2>3, <2>4, <2>5, <2>6
<1>15. Spares(reply, q, l, m)
  <2>1. NoneOver(reply, l)
    BY <1>3, NoneBeyond
  <2> QED
    BY <1>3, <1>10, <1>12, <2>1, CutBySpares
<1>16. s \in Slices /\ Inside(arr, s) /\ s.block = l.block
  <2>1. Cutout(l, rest, n, s)
    BY <1>3, <1>8, <1>a DEF Cutout
  <2>2. SitsIn(l, rest, n, s)
    BY <2>1, WindowFits
  <2> QED
    BY <2>2 DEF SitsIn
<1>17. p = q \/ p = Owes(q, c, "RPOP", s, TRUE)
  BY <1>13
<1>18. "RPOP" \in ListOps /\ TRUE \in BOOLEAN
  BY DEF ListOps
<1>19. Tidy(ref', val', arr', reply') /\ Puts(k, NewListValue(Seen(arr, m)))
  BY <1>3, <1>10, <1>14, <1>15, <1>16, <1>17, <1>18, PoppedTidy
<1>20. Seen(arr, m) = Part(Elements(l), 0, rest)
  BY <1>1, <1>2, <1>7, <1>a, WindowSeen
<1>21. PICK xs : xs = Elements(l)
  OBVIOUS
<1>22. xs \in Seq(Elem) /\ Len(xs) = e /\ Held(k) = NewListValue(xs) /\ e > 0
  BY <1>1, <1>2, <1>4, <1>21, HeldList
<1>23. RPop(Held(k), 0, 0, k, count).value = NewListValue(Part(xs, 0, rest))
  <2>1. Poppable(Held(k), xs, count, n, rest)
    <3>1. xs # <<>>
      BY <1>22
    <3> QED
      BY <1>2, <1>5, <1>6, <1>22, <3>1 DEF Poppable
  <2>2. count \in Seq(Int)
    BY HeapAssumption
  <2>3. PopGives(k, Held(k), xs, count, n, rest)
    BY <1>22, <2>1, <2>2, PopOf
  <2> QED
    BY <2>3 DEF PopGives
<1> QED
  BY <1>19, <1>20, <1>21, <1>23

(* The normalised window of LTRIM and LRANGE lies within the list.          *)
LEMMA WindowOf ==
    ASSUME NEW len \in Nat, NEW w \in Windows, NEW lo, lo = Lo(w[1], len), NEW hi, hi = Hi(w[2], len),
           ~Outside(lo, hi, len)
    PROVE  lo \in Nat /\ hi \in Int /\ hi - lo + 1 \in Nat /\ lo + (hi - lo + 1) <= len
           /\ lo + (hi - lo + 1) = hi + 1
<1>1. w[1] \in Int /\ w[2] \in Int
  BY HeapAssumption
<1>2. lo \in Nat /\ hi \in Int /\ hi < len
  BY <1>1, WindowRange
<1>3. lo <= hi
  BY <1>2 DEF Outside
<1> QED
  BY <1>2, <1>3

(* LTrim narrows the window or deletes the key.                             *)
LEMMA LTrimTidy ==
    ASSUME TidyNow, NEW k \in Key, NEW w \in Windows, DoLTrim(k, w)
    PROVE  Tidy(ref', val', arr', reply') /\ Puts(k, LTrim(Held(k), 0, 0, k, w[1], w[2]).value)
<1>1. PICK l : l = List(k)
  OBVIOUS
<1>2. PICK lo : lo = Lo(w[1], l.len)
  OBVIOUS
<1>3. PICK hi : hi = Hi(w[2], l.len)
  OBVIOUS
<1>4. /\ IsList(k)
      /\ Outside(lo, hi, l.len) => Becomes([ref EXCEPT ![k] = Null], val, arr, reply)
      /\ ~Outside(lo, hi, l.len) => SetList(k, Slice(l.block, l.from + lo, hi - lo + 1), arr, CutBy(l, l.from + hi + 1))
  BY <1>1, <1>2, <1>3 DEF DoLTrim
<1>a. PICK xs : xs = Elements(l)
  OBVIOUS
<1>b. xs \in Seq(Elem) /\ Len(xs) = l.len /\ Held(k) = NewListValue(xs)
  BY <1>1, <1>4, <1>a, HeldList
<1>c. LTrim(Held(k), 0, 0, k, w[1], w[2]).value
      = IF Outside(lo, hi, l.len) THEN Missing ELSE NewListValue(SubSeq(xs, lo + 1, hi + 1))
  <2>1. Trimmable(Held(k), xs, w, l.len, lo, hi)
    BY <1>2, <1>3, <1>b DEF Trimmable
  <2>2. TrimGives(k, Held(k), xs, w, l.len, lo, hi)
    BY <1>b, <2>1, TrimOf
  <2> QED
    BY <2>2 DEF TrimGives
<1>5. CASE Outside(lo, hi, l.len)
  <2>1. Tidy(ref', val', arr', reply') /\ Puts(k, Missing)
    BY <1>4, <1>5, DroppedTidy
  <2> QED
    BY <1>5, <1>c, <2>1
<1>6. CASE ~Outside(lo, hi, l.len)
  <2>1. /\ ListAt(ref, val, k) /\ l = val[ref[k]].list /\ l \in Slices /\ Inside(arr, l)
        /\ l.block \in Location \ {New, Null} /\ l.from \in Nat /\ l.len \in Nat
        /\ arr \in [Location -> Seq(Elem)] /\ reply \in [Clients -> Replies]
    BY <1>1, <1>4, ListHere
  <2>2. lo \in Nat /\ hi \in Int /\ hi - lo + 1 \in Nat /\ lo + (hi - lo + 1) <= l.len /\ lo + (hi - lo + 1) = hi + 1
    BY <1>2, <1>3, <1>6, <2>1, WindowOf
  <2>3. PICK n \in Nat : n = hi - lo + 1
    BY <2>2
  <2>a. PICK i \in Nat : i = lo
    BY <2>2
  <2>4. PICK m : m = Window(l, i, n)
    OBVIOUS
  <2>5. PICK q : q = CutBy(l, l.from + hi + 1)
    OBVIOUS
  <2>6. SetList(k, m, arr, q)
    BY <1>4, <1>6, <2>3, <2>4, <2>5, <2>a DEF Window
  <2>7. i + n <= l.len
    BY <2>2, <2>3, <2>a
  <2>8. /\ Replaces(arr, arr, l, m) /\ m.block = l.block /\ End(m) = l.from + i + n
        /\ End(m) \in Nat /\ End(l) \in Nat /\ End(m) <= End(l)
    <3>1. /\ m \in Slices /\ Inside(arr, m) /\ m.block = l.block
          /\ End(m) \in Nat /\ End(l) \in Nat /\ End(m) <= End(l)
      <4>1. Cutout(l, i, n, m)
        BY <2>1, <2>4, <2>7 DEF Cutout
      <4>2. SitsIn(l, i, n, m)
        BY <4>1, WindowFits
      <4> QED
        BY <4>2 DEF SitsIn
    <3>2. End(m) = l.from + i + n /\ End(l) = l.from + l.len
      BY <2>1, <2>4 DEF End, Window, Slice
    <3> QED
      BY <2>1, <3>1, <3>2 DEF Replaces, Kept
  <2>9. End(m) = l.from + hi + 1
    <3>1. PICK f \in Nat, h \in Int : f = l.from /\ h = hi
      BY <2>1, <2>2
    <3>2. n = h - i + 1
      BY <2>3, <2>a, <3>1
    <3>3. f + i + n = f + h + 1
      BY <3>2
    <3> QED
      BY <2>8, <3>1, <3>3
  <2>10. Spares(reply, q, l, m)
    <3>1. NoneOver(reply, l)
      BY <2>1, NoneBeyond
    <3>2. q = CutBy(l, End(m))
      BY <2>5, <2>9
    <3> QED
      BY <2>1, <2>8, <3>1, <3>2, CutBySpares
  <2>11. Tidy(ref', val', arr', reply') /\ Puts(k, NewListValue(Seen(arr, m)))
    BY <2>1, <2>6, <2>8, <2>10, SetListTidy
  <2>12. Seen(arr, m) = Part(xs, i, n)
    BY <1>1, <1>4, <1>a, <2>4, <2>7, WindowSeen
  <2>13. i + 1 = lo + 1 /\ i + n = hi + 1
    BY <2>2, <2>3, <2>a
  <2>14. Part(xs, i, n) = SubSeq(xs, lo + 1, hi + 1)
    BY <2>13 DEF Part
  <2> QED
    BY <1>6, <1>c, <2>11, <2>12, <2>14
<1> QED
  BY <1>5, <1>6

(* LRANGE changes no key.                                                   *)
LEMMA LRangeTidy ==
    ASSUME TidyNow, NEW c \in Clients, NEW k \in Key, NEW w \in Windows, DoLRange(c, k, w)
    PROVE  Tidy(ref', val', arr', reply') /\ Stays
<1>1. PICK l : l = List(k)
  OBVIOUS
<1>2. PICK lo : lo = Lo(w[1], l.len)
  OBVIOUS
<1>3. PICK hi : hi = Hi(w[2], l.len)
  OBVIOUS
<1>4. PICK s : s = Slice(l.block, l.from + lo, hi - lo + 1)
  OBVIOUS
<1>5. PICK p : p = Owes(reply, c, "LRANGE", s, FALSE)
  OBVIOUS
<1>6. IsList(k) /\ ~Outside(lo, hi, l.len) /\ Becomes(ref, val, arr, p)
  BY <1>1, <1>2, <1>3, <1>4, <1>5 DEF DoLRange
<1>7. /\ ListAt(ref, val, k) /\ l = val[ref[k]].list /\ l \in Slices /\ Inside(arr, l)
      /\ l.block \in Location \ {New, Null} /\ l.from \in Nat /\ l.len \in Nat
      /\ arr \in [Location -> Seq(Elem)] /\ reply \in [Clients -> Replies]
  BY <1>1, <1>6, ListHere
<1>8. lo \in Nat /\ hi \in Int /\ hi - lo + 1 \in Nat /\ lo + (hi - lo + 1) <= l.len
  BY <1>2, <1>3, <1>6, <1>7, WindowOf
<1>9. s \in Slices /\ Inside(arr, s) /\ s.block = l.block /\ s.from + s.len = End(s) /\ End(s) <= End(l)
  <2>1. PICK n \in Nat, i \in Nat : n = hi - lo + 1 /\ i = lo
    BY <1>8
  <2>2. s = Window(l, i, n) /\ i + n <= l.len
    BY <1>4, <1>8, <2>1 DEF Window
  <2>3. Cutout(l, i, n, s)
    BY <1>7, <2>2 DEF Cutout
  <2>4. SitsIn(l, i, n, s)
    BY <2>3, WindowFits
  <2> QED
    BY <2>4 DEF SitsIn
<1>10. Intact(ref, val, arr, reply)
  BY DEF TidyNow, Tidy
<1>11. ASSUME NEW j \in Key, ListAt(ref, val, j), val[ref[j]].list.block = s.block
       PROVE  s.from + s.len <= End(val[ref[j]].list)
  <2>1. val[ref[k]].list.block = val[ref[j]].list.block
    BY <1>7, <1>9, <1>11
  <2>2. j = k
    BY <1>7, <1>10, <1>11, <2>1, OwnArray
  <2> QED
    BY <1>7, <1>9, <2>2
<1>12. p = [reply EXCEPT ![c] = [NoReply EXCEPT !.op = "LRANGE", !.list = s, !.cut = FALSE,
                                             !.owed = IF FALSE THEN {} ELSE {NewListValue(Seen(arr, s))}]]
  BY <1>5 DEF Owes, Elements, Seen
<1>13. "LRANGE" \in ListOps /\ FALSE \in BOOLEAN
  BY DEF ListOps
<1>14. Intact(ref, val, arr, p)
  BY <1>9, <1>10, <1>11, <1>12, <1>13, OwedIntact
<1> QED
  BY <1>6, <1>14, BecomesTidy DEF Shows, Stays, Held

-----------------------------------------------------------------------------
(* The invariant.                                                           *)

(* The empty heap is tidy.                                                  *)
LEMMA InitTidy == ASSUME Init PROVE Tidy(ref, val, arr, reply)
<1>1. NoSlice \in Slices /\ NoSlice.block = Null /\ New # Null
  BY RootAssumption DEF NoSlice, Slice, Slices, Root, New, Null
<1>2. NoValue \in Values /\ NoValue.list = NoSlice
  BY <1>1 DEF NoValue, Values, Elem
<1>3. NoReply \in Replies /\ NoReply.op = "none" /\ NoReply.cell = Null /\ NoReply.list = NoSlice
  <2>1. <<>> \in Seq(Elem) /\ {} \in SUBSET PlainValues
    BY EmptySeq
  <2> QED
    BY <1>1, <2>1 DEF NoReply, Replies
<1>4. /\ ref = [k \in Key |-> Null] /\ val = [x \in Location |-> NoValue]
      /\ arr = [b \in Location |-> <<>>] /\ reply = [c \in Clients |-> NoReply]
  BY DEF Init
<1>5. Shapes(ref, val, arr, reply)
  <2>1. <<>> \in Seq(Elem)
    BY EmptySeq
  <2> QED
    BY <1>2, <1>3, <1>4, <2>1 DEF Shapes
<1>6. /\ \A k \in Key : ref[k] = Null
      /\ \A x \in Location : val[x] = NoValue
      /\ \A c \in Clients : reply[c] = NoReply
  BY <1>4
<1>7. \A k \in Key : KeyOK(ref, val, arr, k) /\ \A l \in Key : Apart(ref, val, k, l)
  BY <1>6 DEF KeyOK, Whole, Apart
<1>8. \A c \in Clients : GetOK(ref, val, arr, reply, c) /\ ListOK(ref, val, arr, reply, c) /\ IdleOK(reply, c)
                          /\ Paid(val, arr, reply, c)
  BY <1>3, <1>6 DEF GetOK, ListOK, IdleOK, Paid, ListOps
<1>9. Free(ref, val, reply)
  BY <1>1, <1>3, <1>6 DEF Free
<1>10. \A x \in Location : Fits(val, arr, x)
  BY <1>2, <1>6 DEF Fits
<1> QED
  BY <1>5, <1>7, <1>8, <1>9, <1>10 DEF Tidy, Intact

(* Every step leaves a tidy heap.                                           *)
LEMMA NextTidy == ASSUME TidyNow, [Next]_vars PROVE Tidy(ref', val', arr', reply')
<1>1. ASSUME NEW k \in Key, NEW xs \in Pushes, DoRPush(k, xs) \/ DoLPush(k, xs)
      PROVE  Tidy(ref', val', arr', reply')
  <2>1. xs \in Seq(Str)
    BY <1>1, HeapAssumption
  <2> QED
    BY <1>1, <2>1, RPushTidy, LPushTidy
<1>2. ASSUME NEW k \in Key, OnKey(k) PROVE Tidy(ref', val', arr', reply')
  BY <1>2, SetTidy, IncrTidy, DelTidy, RenameTidy, LTrimTidy DEF OnKey
<1>3. ASSUME NEW c \in Clients, Encoding(c) PROVE Tidy(ref', val', arr', reply')
  BY <1>3, AsListTidy, EncodeTidy, RepliedTidy DEF Encoding
<1>4. ASSUME NEW c \in Clients, NEW k \in Key, Replying(c, k) PROVE Tidy(ref', val', arr', reply')
  BY <1>4, GetTidy, LPopTidy, RPopTidy, LRangeTidy DEF Replying
<1>5. ASSUME UNCHANGED vars PROVE Tidy(ref', val', arr', reply')
  <2>1. ref' = ref /\ val' = val /\ arr' = arr /\ reply' = reply
    BY <1>5 DEF vars
  <2> QED
    BY <2>1 DEF TidyNow
<1>6. CASE Push
  BY <1>1, <1>6 DEF Push
<1>7. CASE \E k \in Key : OnKey(k)
  BY <1>2, <1>7
<1>8. CASE \E c \in Clients : Encoding(c) \/ \E k \in Key : Replying(c, k)
  BY <1>3, <1>4, <1>8
<1> QED
  BY <1>5, <1>6, <1>7, <1>8 DEF Next

(* Every reachable heap is tidy.                                            *)
THEOREM AlwaysTidy == Spec => []TidyNow
<1>1. Init => TidyNow
  BY InitTidy DEF TidyNow
<1>2. TidyNow /\ [Next]_vars => TidyNow'
  BY NextTidy DEF TidyNow
<1> QED
  BY <1>1, <1>2, PTL DEF Spec

(* A tidy heap is well typed: no slice leaves its array, and no pointer     *)
(* dangles.                                                                 *)
LEMMA TidyTypes == ASSUME TidyNow PROVE TypeOK
<1>1. /\ Shapes(ref, val, arr, reply)
      /\ \A k \in Key : KeyOK(ref, val, arr, k)
      /\ \A x \in Location : Fits(val, arr, x)
      /\ \A c \in Clients : GetOK(ref, val, arr, reply, c) /\ ListOK(ref, val, arr, reply, c) /\ IdleOK(reply, c)
  BY DEF TidyNow, Tidy, Intact
<1>2. ASSUME NEW l \in Slices, l = NoSlice \/ Inside(arr, l) PROVE Within(l)
  BY <1>2 DEF Within, Inside, Slices
<1>3. ASSUME NEW k \in Key PROVE ref[k] \in Location \cup {Null} /\ (ref[k] # Null => val[ref[k]] # NoValue)
  <2>1. ref[k] \in Location \cup {Null} /\ NoValue.type = "none"
    BY <1>1, <1>3 DEF Shapes, NoValue
  <2>2. ref[k] # Null => val[ref[k]].type # "none"
    BY <1>1, <1>3 DEF KeyOK, Whole
  <2> QED
    BY <2>1, <2>2
<1>4. ASSUME NEW x \in Location PROVE val[x].str \in Str \cup {NoStr} /\ Within(val[x].list)
  <2>1. val[x] \in Values
    BY <1>1, <1>4 DEF Shapes
  <2>2. val[x].str \in Elem /\ val[x].list \in Slices
    BY <2>1 DEF Values
  <2>3. val[x].list = NoSlice \/ Inside(arr, val[x].list)
    BY <1>1, <1>4 DEF Fits
  <2> QED
    BY <1>2, <2>2, <2>3 DEF Elem
<1>5. ASSUME NEW b \in Location, NEW i \in 1 .. Len(arr[b]) PROVE arr[b][i] \in Str \cup {NoStr}
  <2>1. arr[b] \in Seq(Elem)
    BY <1>1, <1>5 DEF Shapes
  <2>2. arr[b][i] \in Elem
    BY <1>5, <2>1, ElementOfSeq
  <2> QED
    BY <2>2 DEF Elem
<1>6. ASSUME NEW c \in Clients PROVE Within(reply[c].list) /\ Len(reply[c].sent) <= reply[c].list.len
  <2>1. reply[c] \in Replies
    BY <1>1, <1>6 DEF Shapes
  <2>2. reply[c].list \in Slices /\ reply[c].op \in {"none", "GET"} \cup ListOps
    BY <2>1 DEF Replies
  <2>3. CASE reply[c].op \in ListOps
    BY <1>1, <1>2, <1>6, <2>2, <2>3 DEF ListOK
  <2>4. CASE reply[c].op \in {"none", "GET"}
    <3>1. reply[c].list = NoSlice /\ reply[c].sent = <<>>
      BY <1>1, <1>6, <2>4 DEF GetOK, IdleOK, NoReply
    <3>2. Len(reply[c].sent) = 0
      BY <3>1, EmptySeq
    <3>3. reply[c].list.len = 0
      BY <3>1 DEF NoSlice, Slice
    <3> QED
      BY <1>2, <2>2, <3>1, <3>2, <3>3
  <2> QED
    BY <2>2, <2>3, <2>4
<1> QED
  BY <1>3, <1>4, <1>5, <1>6 DEF TypeOK

(* Types: whatever the methods do, every slice lies within its array and    *)
(* every pointer leads to a value.                                          *)
THEOREM HeapTyping == Spec => []TypeOK
BY AlwaysTidy, TidyTypes, PTL

(* No sequence of renames, trims, pops and pushes makes two keys share a    *)
(* Value or an array (Store.Rename, and the slices of the list methods).    *)
THEOREM KeysStayApart == Spec => []KeysNeverShare
<1>1. TidyNow => KeysNeverShare
  <2> SUFFICES ASSUME TidyNow, NEW k \in Key, NEW l \in Key, k # l, ref[k] # Null
               PROVE  ref[k] # ref[l] /\ (IsList(k) /\ IsList(l) => List(k).block # List(l).block)
    BY DEF KeysNeverShare
  <2>1. Apart(ref, val, k, l)
    BY DEF TidyNow, Tidy, Intact
  <2>2. IsList(k) => ListAt(ref, val, k) /\ List(k) = val[ref[k]].list
    BY DEF IsList, List, Value, ListAt, NoValue
  <2>3. IsList(l) => ListAt(ref, val, l) /\ List(l) = val[ref[l]].list
    BY DEF IsList, List, Value, ListAt, NoValue
  <2> QED
    BY <2>1, <2>2, <2>3 DEF Apart
<1> QED
  BY <1>1, AlwaysTidy, PTL

(* What is encoded of a pending slice that was not cut off is what it shows *)
(* now.                                                                     *)
LEMMA SentIsSeen ==
    ASSUME TidyNow, NEW c \in Clients, reply[c].op \in ListOps, ~reply[c].cut, NEW s, s = Seen(arr, reply[c].list)
    PROVE  /\ IsPrefix(reply[c].sent, s) /\ Len(s) = reply[c].list.len
           /\ reply[c].owed = {NewListValue(s)}
<1>1. /\ ListOK(ref, val, arr, reply, c) /\ reply[c] \in Replies /\ arr \in [Location -> Seq(Elem)]
  BY DEF TidyNow, Tidy, Intact, Shapes
<1>2. PICK l \in Slices, t \in Seq(Elem) : l = reply[c].list /\ t = reply[c].sent
  BY <1>1 DEF Replies
<1>3. /\ Inside(arr, l) /\ Len(t) <= l.len /\ s = Seen(arr, l) /\ reply[c].owed = {NewListValue(s)}
      /\ \A i \in 1 .. Len(t) : t[i] = arr[l.block][l.from + i]
  BY <1>1, <1>2 DEF ListOK
<1>4. s \in Seq(Elem) /\ Len(s) = l.len
  BY <1>1, <1>3, SeenType
<1>5. PICK f \in Nat, e \in Nat : f = l.from /\ e = l.len
  BY DEF Slices
<1>6. \A i \in 1 .. Len(t) : t[i] = s[i]
  <2>1. s = SubSeq(arr[l.block], f + 1, f + e)
    BY <1>3, <1>5 DEF Seen
  <2>2. \A i \in f + 1 .. f + e : arr[l.block][i] \in Elem
    <3>1. arr[l.block] \in Seq(Elem) /\ f + e <= Len(arr[l.block])
      BY <1>1, <1>3, <1>5 DEF Inside
    <3>2. PICK g \in Nat : g = Len(arr[l.block])
      BY <3>1
    <3>3. \A i \in f + 1 .. f + e : i \in 1 .. g
      BY <3>1, <3>2
    <3> QED
      BY <3>1, <3>2, <3>3, ElementOfSeq
  <2>3. f + e - (f + 1) + 1 = e /\ f + 1 \in Int /\ f + e \in Int
    OBVIOUS
  <2>4. \A i \in 1 .. e : SubSeq(arr[l.block], f + 1, f + e)[i] = arr[l.block][f + 1 + i - 1]
    BY <2>2, <2>3, SubSeqProperties
  <2>5. \A i \in 1 .. e : s[i] = arr[l.block][f + i]
    <3>1. \A i \in 1 .. e : f + 1 + i - 1 = f + i
      OBVIOUS
    <3> QED
      BY <2>1, <2>4, <3>1
  <2>6. PICK n \in Nat : n = Len(t)
    OBVIOUS
  <2>7. \A i \in 1 .. n : i \in 1 .. e
    BY <1>3, <1>5, <2>6
  <2> QED
    BY <1>3, <1>5, <2>5, <2>6, <2>7
<1>7. PICK n \in Nat : n = Len(t)
  OBVIOUS
<1>8. n <= Len(s) /\ \A i \in 1 .. n : t[i] \in Elem /\ s[i] \in Elem /\ t[i] = s[i]
  <2>1. n <= Len(s)
    BY <1>3, <1>4, <1>7
  <2>2. \A i \in 1 .. n : t[i] \in Elem
    BY <1>7, ElementOfSeq
  <2> QED
    BY <1>6, <1>7, <2>1, <2>2
<1>9. /\ SubSeq(t, 1, n) \in Seq(Elem) /\ SubSeq(s, 1, n) \in Seq(Elem)
  BY <1>8, SubSeqProperties
<1>10. Len(SubSeq(t, 1, n)) = n /\ Len(SubSeq(s, 1, n)) = n
  BY <1>8, SubSeqProperties
<1>11. \A i \in 1 .. n : SubSeq(t, 1, n)[i] = SubSeq(s, 1, n)[i]
  <2>1. \A i \in 1 .. n - 1 + 1 : SubSeq(t, 1, n)[i] = t[1 + i - 1] /\ SubSeq(s, 1, n)[i] = s[1 + i - 1]
    BY <1>8, SubSeqProperties
  <2>2. n - 1 + 1 = n /\ \A i \in 1 .. n : 1 + i - 1 = i
    OBVIOUS
  <2> QED
    BY <1>8, <2>1, <2>2
<1>12. SubSeq(t, 1, n) = SubSeq(s, 1, n)
  BY <1>9, <1>10, <1>11, SeqEqual
<1> QED
  BY <1>2, <1>3, <1>4, <1>7, <1>8, <1>12 DEF IsPrefix

(* The list of a list value.                                                *)
LEMMA ListOfValue == ASSUME NEW x PROVE NewListValue(x).type = "list" /\ NewListValue(x).list = x
BY DEF NewListValue, Missing

(* A reply to LRANGE or to a pop with a count that is encoded while others  *)
(* push and pop is what the list held when the method ran, unless the right *)
(* end of the list was cut off meanwhile.                                   *)
THEOREM UncutRepliesAreExact == Spec => []RepliesExactUnlessCut
<1>1. TidyNow => RepliesExactUnlessCut
  <2> SUFFICES ASSUME TidyNow, NEW c \in Clients, reply[c].op \in ListOps, ~reply[c].cut, NEW e \in reply[c].owed
               PROVE  IsPrefix(reply[c].sent, e.list)
    BY DEF RepliesExactUnlessCut, ListOps
  <2>1. PICK s : s = Seen(arr, reply[c].list)
    OBVIOUS
  <2>2. IsPrefix(reply[c].sent, s) /\ e = NewListValue(s)
    BY <2>1, SentIsSeen
  <2> QED
    BY <2>2, ListOfValue
<1> QED
  BY <1>1, AlwaysTidy, PTL

(* GET, which reads its Value, and of a list the elements one by one, after *)
(* Store.mu is released, replies with the value its key has when it is read *)
(* or had at last before it was replaced or deleted, unless RENAME moved    *)
(* the Value or elements being formatted were cut off from the right.       *)
THEOREM GetIsCurrent == Spec => []GetReadsItsKey
<1>1. TidyNow => GetReadsItsKey
  <2> SUFFICES ASSUME TidyNow, NEW c \in Clients, ~reply[c].cut
               PROVE  /\ reply[c].op = "GET" => reply[c].owed = {Shown(val, arr, reply[c].cell)}
                      /\ reply[c].op = "GETLIST" => \E e \in reply[c].owed :
                            e.type = "list" /\ Len(e.list) = reply[c].list.len /\ IsPrefix(reply[c].sent, e.list)
    BY DEF GetReadsItsKey
  <2>1. reply[c].op = "GET" => reply[c].owed = {Shown(val, arr, reply[c].cell)}
    BY DEF TidyNow, Tidy, Paid
  <2>2. ASSUME reply[c].op = "GETLIST"
        PROVE  \E e \in reply[c].owed :
                  e.type = "list" /\ Len(e.list) = reply[c].list.len /\ IsPrefix(reply[c].sent, e.list)
    <3>1. PICK s : s = Seen(arr, reply[c].list)
      OBVIOUS
    <3>2. IsPrefix(reply[c].sent, s) /\ Len(s) = reply[c].list.len /\ reply[c].owed = {NewListValue(s)}
      BY <2>2, <3>1, SentIsSeen DEF ListOps
    <3>3. NewListValue(s) \in reply[c].owed
      BY <3>2
    <3> QED
      BY <3>2, <3>3, ListOfValue
  <2> QED
    BY <2>1, <2>2
<1> QED
  BY <1>1, AlwaysTidy, PTL

-----------------------------------------------------------------------------
(* Keyspace has the methods of StoreOps of its own; the values they leave   *)
(* are those of StoreOps.                                                   *)
LEMMA SameValues == Plain!Missing = Missing /\ Plain!NoOption = NoOption
BY DEF Plain!Missing, Missing, Plain!NoFields, NoFields, Plain!Never, Never, Plain!NoOption, NoOption

(* Set without options.                                                     *)
LEMMA SameSet == ASSUME NEW e, NEW k, NEW v
  PROVE Plain!Set(e, 0, 0, k, v, Plain!NoOption).value = NewStringValue(v)
<1>1. ~Plain!NoOption.nx /\ ~Plain!NoOption.xx /\ ~(Plain!NoOption.ex > 0) /\ ~(Plain!NoOption.px > 0)
  BY DEF Plain!NoOption
<1>2. Plain!Set(e, 0, 0, k, v, Plain!NoOption).value = Plain!NewStringValue(v)
  BY <1>1 DEF Plain!Set, Plain!Result
<1> QED
  BY <1>2, SameValues DEF Plain!NewStringValue, NewStringValue

(* Incr.                                                                    *)
LEMMA SameIncr == ASSUME NEW e, NEW k
  PROVE Plain!Incr(e, 0, k).value = Incr(e, 0, k).value
BY SameValues DEF Plain!Incr, Incr, Plain!AddInt, AddInt, Plain!Result, Result, Plain!Present, Present,
     Plain!Wrap, Wrap, Plain!Atoi, Atoi, Plain!IsNumeral, IsNumeral, Plain!Ints, Ints,
     Plain!NewStringValue, NewStringValue

(* Del.                                                                     *)
LEMMA SameDel == ASSUME NEW e, NEW k
  PROVE Plain!Del(e, 0, k).value = Missing
BY SameValues DEF Plain!Del, Plain!Result

(* The pushes.                                                              *)
LEMMA SamePush == ASSUME NEW e, NEW k, NEW vals
  PROVE /\ Plain!RPush(e, 0, k, vals).value = RPush(e, 0, k, vals).value
        /\ Plain!LPush(e, 0, k, vals).value = LPush(e, 0, k, vals).value
BY DEF Plain!RPush, RPush, Plain!LPush, LPush, Plain!Reverse, Reverse, Plain!Result, Result, Plain!Present, Present

(* The pops.                                                                *)
LEMMA SamePop == ASSUME NEW e, NEW k, NEW n
  PROVE /\ Plain!LPop(e, 0, 0, k, n).value = LPop(e, 0, 0, k, n).value
        /\ Plain!RPop(e, 0, 0, k, n).value = RPop(e, 0, 0, k, n).value
<1>1. Plain!LPop(e, 0, 0, k, n).value = LPop(e, 0, 0, k, n).value
  BY DEF Plain!LPop, LPop, Plain!Result, Result, Plain!Present, Present, Plain!Live, Live, Plain!IsExpired, IsExpired,
     Plain!Never, Never, Plain!PopRefused, PopRefused, Plain!Count, Count
<1>2. Plain!RPop(e, 0, 0, k, n).value = RPop(e, 0, 0, k, n).value
  BY DEF Plain!RPop, RPop, Plain!Result, Result, Plain!Present, Present, Plain!Live, Live, Plain!IsExpired, IsExpired,
     Plain!Never, Never, Plain!PopRefused, PopRefused, Plain!Count, Count
<1> QED
  BY <1>1, <1>2

(* LTrim.                                                                   *)
LEMMA SameTrim == ASSUME NEW e, NEW k, NEW a, NEW b
  PROVE Plain!LTrim(e, 0, 0, k, a, b).value = LTrim(e, 0, 0, k, a, b).value
BY SameValues DEF Plain!LTrim, LTrim, Plain!Result, Result, Plain!Present, Present, Plain!Live, Live,
     Plain!IsExpired, IsExpired, Plain!Never, Never, Plain!Lo, Lo, Plain!Hi, Hi

AfterRename(es, k, l) == [[es EXCEPT ![l] = es[k]] EXCEPT ![k] = Missing]

(* Rename of a key that is there and has no deadline.                       *)
LEMMA SameRename ==
    ASSUME NEW d, NEW es, NEW k, NEW l, DOMAIN d = {0}, d = [x \in DOMAIN d |-> d[x]], d[0] = es,
           es[k].type # "none", es[k].exp = Never
    PROVE  Plain!Rename(d, 0, 0, k, l).data[0] = AfterRename(es, k, l)
<1>2. Plain!Present(d[0][k]) /\ ~Plain!IsExpired(d[0][k], 0)
  BY DEF Plain!Present, Plain!IsExpired, Plain!Never, Never
<1>3. Plain!Rename(d, 0, 0, k, l).data
      = [d EXCEPT ![0] = [[@ EXCEPT ![l] = d[0][k]] EXCEPT ![k] = Plain!Missing]]
  BY <1>2 DEF Plain!Rename, Plain!Outcome
<1>4. Plain!Rename(d, 0, 0, k, l).data[0] = [[es EXCEPT ![l] = es[k]] EXCEPT ![k] = Plain!Missing]
  BY <1>3
<1> QED
  BY <1>4, SameValues DEF AfterRename

-----------------------------------------------------------------------------
(* The keys of Keyspace are what the keys of a tidy heap hold.              *)
LEMMA EntriesNow == Entries = [j \in Key |-> Held(j)]
BY DEF Entries, Held, ValueOf

(* The same after a step.                                                   *)
LEMMA EntriesThen == Entries' = [j \in Key |-> ValueOf(ref', val', arr', j)]
BY DEF Entries, ValueOf, Shown, Seen, Missing, NewStringValue, NewListValue, NoFields

(* A step that gives k the value e is Keyspace's.                           *)
LEMMA PutBecomes ==
    ASSUME TidyNow, Tidy(ref', val', arr', reply'), NEW k \in Key, NEW e, Puts(k, e)
    PROVE  Plain!Becomes(k, e)
<1>1. Entries = [j \in Key |-> Held(j)] /\ Entries' = [j \in Key |-> ValueOf(ref', val', arr', j)]
  BY EntriesNow, EntriesThen
<1>2. \A j \in Key : ValueOf(ref', val', arr', j) = IF j = k THEN e ELSE Held(j)
  BY DEF Puts
<1>3. Entries' = [Entries EXCEPT ![k] = e]
  BY <1>1, <1>2
<1> QED
  BY <1>3 DEF Plain!Becomes

(* A step that gives no key another value is none of Keyspace's.            *)
LEMMA StayStutters ==
    ASSUME TidyNow, Tidy(ref', val', arr', reply'), Stays PROVE Entries' = Entries
<1>1. Entries = [j \in Key |-> Held(j)] /\ Entries' = [j \in Key |-> ValueOf(ref', val', arr', j)]
  BY EntriesNow, EntriesThen
<1>2. \A j \in Key : ValueOf(ref', val', arr', j) = Held(j)
  BY DEF Stays
<1> QED
  BY <1>1, <1>2

(* A step that moves the value of k to l is Keyspace's.                     *)
LEMMA MoveMoves ==
    ASSUME TidyNow, Tidy(ref', val', arr', reply'), NEW k \in Key, NEW l \in Key, Held(k) # Missing, Moves(k, l)
    PROVE  Plain!Moves(k, l)
<1>1. Entries = [j \in Key |-> Held(j)] /\ Entries' = [j \in Key |-> ValueOf(ref', val', arr', j)]
  BY EntriesNow, EntriesThen
<1>2. \A j \in Key : ValueOf(ref', val', arr', j) = IF j = k THEN Missing ELSE IF j = l THEN Held(k) ELSE Held(j)
  BY DEF Moves
<1>3. Entries' = [[Entries EXCEPT ![l] = Entries[k]] EXCEPT ![k] = Missing]
  BY <1>1, <1>2
<1>4. Entries[k].type # "none" /\ Entries[k].exp = Never
  BY <1>1 DEF Held, ValueOf, Shown, Missing, NewStringValue, NewListValue
<1>5. PICK d : d = [db \in {0} |-> Entries]
  OBVIOUS
<1>6. DOMAIN d = {0} /\ d = [x \in DOMAIN d |-> d[x]] /\ d[0] = Entries
  BY <1>5
<1>7. PICK es : es = Entries
  OBVIOUS
<1>8. Plain!Rename(d, 0, 0, k, l).data[0] = AfterRename(es, k, l)
  BY <1>4, <1>6, <1>7, SameRename
<1>9. Entries' = Plain!Rename(d, 0, 0, k, l).data[0]
  BY <1>3, <1>7, <1>8 DEF AfterRename
<1> QED
  BY <1>5, <1>9 DEF Plain!Moves

(* Each push of Heap is one of Keyspace,                                    *)
LEMMA PushMaps ==
    ASSUME TidyNow, Tidy(ref', val', arr', reply'), NEW k \in Key, NEW vals \in Pushes, DoRPush(k, vals) \/ DoLPush(k, vals)
    PROVE  Plain!Next
<1>1. vals \in Seq(Str) /\ Entries[k] = Held(k)
  BY HeapAssumption, EntriesNow
<1>2. CASE DoRPush(k, vals)
  <2>1. Puts(k, Plain!RPush(Entries[k], 0, k, vals).value)
    BY <1>1, <1>2, RPushTidy, SamePush
  <2>2. Plain!Becomes(k, Plain!RPush(Entries[k], 0, k, vals).value)
    BY <2>1, PutBecomes
  <2> QED
    BY <2>2 DEF Plain!Next, Plain!OneKey
<1>3. CASE DoLPush(k, vals)
  <2>1. Puts(k, Plain!LPush(Entries[k], 0, k, vals).value)
    BY <1>1, <1>3, LPushTidy, SamePush
  <2>2. Plain!Becomes(k, Plain!LPush(Entries[k], 0, k, vals).value)
    BY <2>1, PutBecomes
  <2> QED
    BY <2>2 DEF Plain!Next, Plain!OneKey
<1> QED
  BY <1>2, <1>3

(* so is each method that replies at once,                                  *)
LEMMA KeyMaps ==
    ASSUME TidyNow, Tidy(ref', val', arr', reply'), NEW k \in Key, OnKey(k)
    PROVE  Plain!Next
<1>1. Entries[k] = Held(k)
  BY EntriesNow
<1>2. ASSUME NEW v \in Writes, DoSet(k, v) PROVE Plain!OneKey(k)
  <2>1. Puts(k, Plain!Set(Entries[k], 0, 0, k, v, Plain!NoOption).value)
    BY <1>2, SetTidy, SameSet
  <2>2. Plain!Becomes(k, Plain!Set(Entries[k], 0, 0, k, v, Plain!NoOption).value)
    BY <2>1, PutBecomes
  <2> QED
    BY <2>2 DEF Plain!OneKey
<1>3. ASSUME DoIncr(k) PROVE Plain!OneKey(k)
  <2>1. Puts(k, Plain!Incr(Entries[k], 0, k).value)
    BY <1>1, <1>3, IncrTidy, SameIncr
  <2>2. Plain!Becomes(k, Plain!Incr(Entries[k], 0, k).value)
    BY <2>1, PutBecomes
  <2> QED
    BY <2>2 DEF Plain!OneKey
<1>4. ASSUME DoDel(k) PROVE Plain!OneKey(k)
  <2>1. Puts(k, Plain!Del(Entries[k], 0, k).value)
    BY <1>4, DelTidy, SameDel
  <2>2. Plain!Becomes(k, Plain!Del(Entries[k], 0, k).value)
    BY <2>1, PutBecomes
  <2> QED
    BY <2>2 DEF Plain!OneKey
<1>5. ASSUME NEW w \in Windows, DoLTrim(k, w) PROVE Plain!OneKey(k)
  <2>1. Puts(k, Plain!LTrim(Entries[k], 0, 0, k, w[1], w[2]).value)
    BY <1>1, <1>5, LTrimTidy, SameTrim
  <2>2. Plain!Becomes(k, Plain!LTrim(Entries[k], 0, 0, k, w[1], w[2]).value)
    BY <2>1, PutBecomes
  <2> QED
    BY <2>2 DEF Plain!OneKey
<1>6. ASSUME NEW l \in Key, DoRename(k, l) PROVE Plain!Moves(k, l)
  BY <1>6, RenameTidy, MoveMoves
<1> QED
  BY <1>2, <1>3, <1>4, <1>5, <1>6 DEF OnKey, Plain!Next

(* each pop, while the readers change nothing,                              *)
LEMMA ReplyingMaps ==
    ASSUME TidyNow, Tidy(ref', val', arr', reply'), NEW c \in Clients, NEW k \in Key, Replying(c, k)
    PROVE  Plain!Next \/ UNCHANGED Entries
<1>1. Entries[k] = Held(k)
  BY EntriesNow
<1>2. ASSUME NEW n \in Counts, DoLPop(c, k, n) PROVE Plain!OneKey(k)
  <2>1. Puts(k, Plain!LPop(Entries[k], 0, 0, k, n).value)
    BY <1>1, <1>2, LPopTidy, SamePop
  <2>2. Plain!Becomes(k, Plain!LPop(Entries[k], 0, 0, k, n).value)
    BY <2>1, PutBecomes
  <2> QED
    BY <2>2 DEF Plain!OneKey
<1>3. ASSUME NEW n \in Counts, DoRPop(c, k, n) PROVE Plain!OneKey(k)
  <2>1. Puts(k, Plain!RPop(Entries[k], 0, 0, k, n).value)
    BY <1>1, <1>3, RPopTidy, SamePop
  <2>2. Plain!Becomes(k, Plain!RPop(Entries[k], 0, 0, k, n).value)
    BY <2>1, PutBecomes
  <2> QED
    BY <2>2 DEF Plain!OneKey
<1>4. ASSUME DoGet(c, k) \/ \E w \in Windows : DoLRange(c, k, w) PROVE UNCHANGED Entries
  <2>1. Stays
    BY <1>4, GetTidy, LRangeTidy
  <2> QED
    BY <2>1, StayStutters
<1> QED
  BY <1>2, <1>3, <1>4 DEF Replying, Plain!Next

(* and hence every step.                                                    *)
LEMMA NextMaps == TidyNow /\ TidyNow' /\ [Next]_vars => [Plain!Next]_Entries
<1> SUFFICES ASSUME TidyNow, TidyNow', [Next]_vars PROVE Plain!Next \/ UNCHANGED Entries
  OBVIOUS
<1>1. Tidy(ref', val', arr', reply')
  BY DEF TidyNow
<1>2. CASE Push
  BY <1>1, <1>2, PushMaps DEF Push
<1>3. ASSUME NEW k \in Key, OnKey(k) PROVE Plain!Next
  BY <1>1, <1>3, KeyMaps
<1>4. ASSUME NEW c \in Clients, Encoding(c) PROVE UNCHANGED Entries
  <2>1. Stays
    BY <1>4, AsListTidy, EncodeTidy, RepliedTidy DEF Encoding
  <2> QED
    BY <1>1, <2>1, StayStutters
<1>5. ASSUME NEW c \in Clients, NEW k \in Key, Replying(c, k) PROVE Plain!Next \/ UNCHANGED Entries
  BY <1>1, <1>5, ReplyingMaps
<1>6. CASE UNCHANGED vars
  BY <1>6 DEF vars, Entries, Shown, Seen
<1> QED
  BY <1>2, <1>3, <1>4, <1>5, <1>6 DEF Next

(* All keys are missing at first.                                           *)
LEMMA InitMaps == Init => Plain!Init
<1> SUFFICES ASSUME Init PROVE Entries = Plain!Empty
  BY DEF Plain!Init
<1>1. Entries = [k \in Key |-> Held(k)]
  BY InitTidy, EntriesNow DEF TidyNow
<1>2. \A k \in Key : Held(k) = Missing
  BY DEF Init, Held, ValueOf, Shown
<1> QED
  BY <1>1, <1>2, SameValues DEF Plain!Empty

(* The keys behave as independent strings and sequences, whatever memory    *)
(* the values, the slices and the replies under way share (the methods of   *)
(* Store on strings and lists, Rename, and the encoding after the lock).    *)
THEOREM HeapImplementsKeyspace == Spec => ImplementsKeyspace
<1>1. TidyNow /\ TidyNow' /\ [Next]_vars => [Plain!Next]_Entries
  BY NextMaps
<1> QED
  BY <1>1, AlwaysTidy, InitMaps, PTL DEF Spec, ImplementsKeyspace, Plain!Spec
=============================================================================
