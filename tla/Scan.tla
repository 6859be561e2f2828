-------------------------------- MODULE Scan --------------------------------
(***************************************************************************)
(* The readers of one database that walk over it or cut out of a value:    *)
(* SCAN, KEYS, TYPE, STRLEN and GETRANGE, with other clients changing keys *)
(* between the calls of an iteration.  SCAN's cursor is an index into the  *)
(* live keys in the order of Go's map iteration, which is another one at   *)
(* every call.  A string is the sequence of its bytes, a pattern the set   *)
(* of keys it matches.                                                     *)
(***************************************************************************)
EXTENDS Integers, Sequences, FiniteSets, SequencesExt

CONSTANTS
    Key,
    Byte,
    Texts,      \* strings to SET
    Patterns,   \* sets of keys that MATCH may select
    Counts,     \* arguments of COUNT (positive, and cursor + count fits in an int)
    MaxChanges  \* bound on the calls of other clients

ASSUME ScanAssumption ==
    /\ IsFiniteSet(Key) /\ Key \in Patterns /\ Patterns \subseteq SUBSET Key
    /\ Texts \subseteq Seq(Byte)
    /\ Counts \subseteq Nat \ {0} /\ MaxChanges \in Nat

VARIABLES
    data,     \* Store.data of one database
    cursor,   \* what the last SCAN returned
    changes,  \* calls of other clients
    pattern, got, pages, shown, stable
              \* history of the iteration: its MATCH, the keys returned, the
              \* calls (2 for more), the live keys at the last one, whether
              \* they were always the same

iteration == <<pattern, got, pages, shown, stable>>
vars      == <<data, cursor, changes, iteration>>

Absent      == [type |-> "none", text |-> <<>>, expired |-> FALSE]
String(s)   == [type |-> "string", text |-> s, expired |-> FALSE]
List        == [type |-> "list", text |-> <<>>, expired |-> FALSE]

Init ==
    /\ data = [k \in Key |-> Absent] /\ cursor = 0 /\ changes = 0
    /\ pattern = Key /\ got = <<>> /\ pages = 0 /\ shown = {} /\ stable = TRUE

LiveKeys == {k \in Key : data[k].type # "none" /\ ~data[k].expired}

-----------------------------------------------------------------------------
(* Other readers.                                                           *)

(* KEYS and TYPE do not look at the deadline.                               *)
Keys(p) == {k \in p : data[k].type # "none"}
Type(k) == data[k].type

ErrNoSuchKey == "no such key"
ErrWrongType == "not a string"
StrLen(k) == IF k \notin LiveKeys THEN ErrNoSuchKey
             ELSE IF Type(k) # "string" THEN ErrWrongType ELSE Len(data[k].text)

StopExclusive(end, len) ==  \* mutant: a negative stop is not included
    LET e == IF end < 0 THEN len + end - 1 ELSE end IN IF e >= len THEN len - 1 ELSE e
Start(start, len) == LET s == IF start < 0 THEN len + start ELSE start IN IF s < 0 THEN 0 ELSE s
Stop(end, len)    == LET e == IF end < 0 THEN len + end ELSE end IN IF e >= len THEN len - 1 ELSE e

GetRange(s, start, end) ==
    LET lo == Start(start, Len(s))
        hi == Stop(end, Len(s))
    IN  IF lo > hi THEN <<>> ELSE SubSeq(s, lo + 1, hi + 1)

-----------------------------------------------------------------------------
(* SCAN.  An answer is the next cursor and the keys of the page.            *)

Answer(next, keys) == [next |-> next, keys |-> keys]

NextSkips(end, n) == IF end + 1 >= n THEN 0 ELSE end + 1  \* mutant: the cursor is past the next key
NextCursor(end, n) == IF end >= n THEN 0 ELSE end

End(from, count, n) == IF from + count > n THEN n ELSE from + count

PastStays(from) == Answer(from, <<>>)    \* mutant: a cursor past the end is given back
Past(from)      == Answer(0, <<>>)

AllPresent == Keys(Key)    \* mutant: expired keys are not left out
allKeys    == LiveKeys

(* The answers a call may give.  The map order is any order of the live     *)
(* keys, so the keys between from and end are any that many of them, and    *)
(* those of them that match come in any order.                              *)
Pages(from, p, count) ==
    LET n   == Cardinality(allKeys)
        end == End(from, count, n)
    IN  IF from < 0 \/ from >= n THEN {Past(from)}
        ELSE {Answer(NextCursor(end, n), keys) :
                 keys \in UNION {SetToSeqs(page \cap p) : page \in kSubset(end - from, allKeys)}}

(* No more is remembered than one key too many.                             *)
Kept(keys) == SubSeq(keys, 1, Min({Len(keys), Cardinality(Key) + 1}))

(* One call, from the cursor the last one returned; 0 begins anew, with any *)
(* pattern.                                                                 *)
ScanCall(p, count) ==
    /\ p \in IF cursor = 0 THEN Patterns ELSE {pattern}
    /\ \E answer \in Pages(cursor, p, count) :
          /\ cursor' = answer.next
          /\ got' = Kept((IF cursor = 0 THEN <<>> ELSE got) \o answer.keys)
    /\ pattern' = p
    /\ pages' = IF cursor = 0 THEN 1 ELSE 2
    /\ shown' = LiveKeys
    /\ stable' = IF cursor = 0 THEN TRUE ELSE stable /\ shown = LiveKeys
    /\ UNCHANGED <<data, changes>>

Continue == cursor # 0 /\ \E n \in Counts : ScanCall(pattern, n)

(* What other clients and the clock do to a key.                            *)
Change(k, e) ==
    /\ changes < MaxChanges /\ changes' = changes + 1
    /\ data' = [data EXCEPT ![k] = e]
    /\ UNCHANGED <<cursor, iteration>>

Next ==
    \/ \E p \in Patterns, n \in Counts : ScanCall(p, n)
    \/ \E k \in Key :
          \/ \E s \in Texts : Change(k, String(s))
          \/ Change(k, List)
          \/ Change(k, Absent)
          \/ Change(k, [data[k] EXCEPT !.expired = TRUE])

Spec == Init /\ [][Next]_vars

(* A client that began to iterate goes on.                                  *)
FairSpec == Spec /\ WF_vars(Continue)

-----------------------------------------------------------------------------
(* SCAN with a COUNT no smaller than the database is exact: every live key  *)
(* that matches once, no expired key, and the cursor 0.                     *)
OnePageIsExact ==
    pages = 1 /\ cursor = 0 => ToSet(got) = shown \cap pattern /\ Len(got) = Cardinality(shown \cap pattern)

(* If the live keys stay the same, the pages of an iteration together hold  *)
(* as many keys as there are: a key that comes twice, because the order has *)
(* changed between two calls, costs another key its place.                  *)
PagesTile ==
    stable /\ pattern = Key /\ pages > 0 => Len(got) = IF cursor = 0 THEN Cardinality(shown) ELSE cursor

(* GETRANGE gives the bytes whose index lies between the two given ones,    *)
(* where an index below zero counts from the end, however far outside the   *)
(* string they lie (clamping in GetRange).                                  *)
Index(i, len) == IF i < 0 THEN len + i ELSE i
Inside(s, start, end) == {i \in 0 .. Len(s) - 1 : Index(start, Len(s)) <= i /\ i <= Index(end, Len(s))}
ExactRange(s, start, end) ==
    /\ Len(GetRange(s, start, end)) = Cardinality(Inside(s, start, end))
    /\ \A i \in Inside(s, start, end) :
          GetRange(s, start, end)[i - Max({Index(start, Len(s)), 0}) + 1] = s[i + 1]
RangeIsExact == \A k \in Key : Type(k) = "string" =>
    LET far == Len(data[k].text) + 2
    IN  \A start, end \in -far .. far : ExactRange(data[k].text, start, end)

(* An iteration ends, whatever other clients add, delete or let expire: the *)
(* cursor only grows.                                                       *)
IterationEnds == (cursor # 0) ~> (cursor = 0)
=============================================================================
