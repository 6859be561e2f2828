----------------------------- MODULE ScanProofs -----------------------------
(***************************************************************************)
(* Theorems about Scan for every finite set of keys, all texts, patterns   *)
(* and counts: one page is exact, the pages of an iteration over an        *)
(* unchanging database hold as many keys as there are, and GETRANGE gives  *)
(* the bytes between its indexes.                                          *)
(***************************************************************************)
EXTENDS Scan, FiniteSetTheorems, SequenceTheorems, TLAPS

-----------------------------------------------------------------------------
(* Sequences and finite sets.                                               *)

(* An enumeration of a finite set lists each of its elements once.          *)
LEMMA Enumeration ==
    ASSUME NEW S, IsFiniteSet(S), NEW s \in SetToSeqs(S)
    PROVE  s \in Seq(S) /\ Len(s) = Cardinality(S) /\ ToSet(s) = S
<1> DEFINE n == Cardinality(S)
           D == 1 .. n
<1>1. n \in Nat
  BY FS_CardinalityType
<1>2. s \in [D -> S] /\ \A i, j \in D : i # j => s[i] # s[j]
  BY DEF SetToSeqs
<1>3. s \in Seq(S) /\ Len(s) = n /\ DOMAIN s = D
  <2> HIDE DEF n
  <2> QED
    BY <1>1, <1>2
<1>4. IsFiniteSet(D) /\ Cardinality(D) = n
  <2> HIDE DEF n
  <2> QED
    BY <1>1, FS_Interval
<1>5. s \in Injection(D, S)
  <2> HIDE DEF D
  <2> QED
    BY <1>2 DEF Injection, IsInjective
<1>6. s \in Surjection(D, S)
  BY <1>4, <1>5, FS_Injection
<1>7. ToSet(s) = S
  <2> HIDE DEF D
  <2>1. \A x \in S : \E i \in D : s[i] = x
    BY <1>6 DEF Surjection
  <2> QED
    BY <1>2, <1>3, <2>1 DEF ToSet
<1> QED
  BY <1>3, <1>7

(* The live keys are finitely many.                                         *)
LEMMA LiveKeysFinite ==
    /\ IsFiniteSet(Key) /\ IsFiniteSet(LiveKeys) /\ LiveKeys \subseteq Key
    /\ Cardinality(LiveKeys) \in Nat /\ Cardinality(Key) \in Nat
    /\ Cardinality(LiveKeys) <= Cardinality(Key)
<1>1. LiveKeys \in SUBSET Key
  BY DEF LiveKeys
<1> QED
  BY <1>1, ScanAssumption, FS_Subset, FS_CardinalityType

(* The bound on the history cuts nothing off a sequence that is not longer  *)
(* than the database.                                                       *)
LEMMA KeptType ==
    ASSUME NEW s \in Seq(Key)
    PROVE  Kept(s) \in Seq(Key) /\ (Len(s) <= Cardinality(Key) => Kept(s) = s)
<1> DEFINE m == Cardinality(Key) + 1
           M == {Len(s), m}
<1>1. Len(s) \in Nat /\ m \in Nat
  BY LiveKeysFinite
<1>2. Min(M) = IF Len(s) <= m THEN Len(s) ELSE m
  <2> HIDE DEF m
  <2>1. PICK x \in M : \A y \in M : x <= y
    BY <1>1
  <2>2. Min(M) \in M /\ \A y \in M : Min(M) <= y
    BY <2>1 DEF Min
  <2> QED
    BY <1>1, <2>2
<1>3. Min(M) \in Nat /\ Min(M) <= Len(s)
  <2> HIDE DEF m
  <2> QED
    BY <1>1, <1>2
<1>4. SubSeq(s, 1, Min(M)) \in Seq(Key)
  <2> HIDE DEF M
  <2> QED
    BY <1>1, <1>3, SubSeqProperties
<1>5. Len(s) <= Cardinality(Key) => Min(M) = Len(s)
  BY <1>1, <1>2, LiveKeysFinite
<1>6. SubSeq(s, 1, Len(s)) = s
  BY SubSeqFull
<1> QED
  BY <1>4, <1>5, <1>6 DEF Kept

-----------------------------------------------------------------------------
(* One call of SCAN.                                                        *)

(* Behind the last key nothing is left.                                     *)
LEMMA BehindTheEnd ==
    ASSUME NEW from \in Nat, NEW p, NEW count, from >= Cardinality(LiveKeys), NEW answer \in Pages(from, p, count)
    PROVE  answer.next = 0 /\ answer.keys = <<>>
<1>1. answer \in {Answer(0, <<>>)}
  BY DEF Pages, allKeys, Past
<1>2. answer = Answer(0, <<>>)
  BY <1>1
<1> QED
  BY <1>2 DEF Answer

(* The page goes from the cursor up to the next cursor, or to the end, and  *)
(* holds that many keys, of which the matching ones are returned.           *)
LEMMA PageFrom ==
    ASSUME NEW from \in Nat, NEW p, NEW count \in Nat \ {0}, from < Cardinality(LiveKeys),
           NEW answer \in Pages(from, p, count)
    PROVE  \E end \in from + 1 .. Cardinality(LiveKeys) :
              /\ answer.next = IF end = Cardinality(LiveKeys) THEN 0 ELSE end
              /\ \E page \in SUBSET LiveKeys : /\ Cardinality(page) = end - from
                                               /\ answer.keys \in SetToSeqs(page \cap p)
<1> DEFINE n == Cardinality(LiveKeys)
           end == End(from, count, n)
           all == UNION {SetToSeqs(page \cap p) : page \in kSubset(end - from, LiveKeys)}
<1>1. n \in Nat
  BY LiveKeysFinite
<1>2. end \in from + 1 .. n
  BY <1>1 DEF End
<1>3. answer \in {Answer(NextCursor(end, n), keys) : keys \in all}
  <2>1. ~(from < 0 \/ from >= n)
    BY <1>1
  <2>2. Pages(from, p, count) = {Answer(NextCursor(end, n), keys) : keys \in all}
    BY <2>1 DEF Pages, allKeys
  <2> HIDE DEF all, end, n
  <2> QED
    BY <2>2
<1>4. PICK keys \in all : answer = Answer(NextCursor(end, n), keys)
  <2> HIDE DEF all, end, n
  <2> QED
    BY <1>3
<1>5. answer.next = NextCursor(end, n) /\ answer.keys = keys
  <2> HIDE DEF all, end, n
  <2> QED
    BY <1>4 DEF Answer
<1>6. PICK page \in kSubset(end - from, LiveKeys) : keys \in SetToSeqs(page \cap p)
  BY <1>4
<1>7. page \in SUBSET LiveKeys /\ Cardinality(page) = end - from
  BY <1>6 DEF kSubset
<1>8. NextCursor(end, n) = IF end = n THEN 0 ELSE end
  BY <1>1, <1>2 DEF NextCursor
<1> HIDE DEF end, n
<1> QED
  BY <1>2, <1>5, <1>6, <1>7, <1>8 DEF n

-----------------------------------------------------------------------------
(* What an iteration has returned so far.  A cursor other than 0 lies       *)
(* before the end of the live keys the last call saw, as long as they are   *)
(* always the same; this, and the two properties.                           *)
Returned ==
    /\ cursor \in Nat /\ got \in Seq(Key) /\ pages \in 0 .. 2 /\ stable \in BOOLEAN
    /\ pattern \in Patterns
    /\ cursor # 0 => pages # 0
    /\ cursor # 0 /\ stable => cursor < Cardinality(shown)
    /\ OnePageIsExact
    /\ PagesTile

(* The first call of an iteration.                                          *)
LEMMA FirstPage ==
    ASSUME Returned, NEW p \in Patterns, NEW count \in Nat \ {0}, cursor = 0, ScanCall(p, count)
    PROVE  Returned'
<1> DEFINE n == Cardinality(LiveKeys)
<1>1. PICK answer \in Pages(0, p, count) : cursor' = answer.next /\ got' = Kept(<<>> \o answer.keys)
  BY DEF ScanCall
<1>2. pattern' = p /\ pages' = 1 /\ shown' = LiveKeys /\ stable' = TRUE
  BY DEF ScanCall
<1>3. n \in Nat /\ IsFiniteSet(LiveKeys) /\ n <= Cardinality(Key) /\ Cardinality(Key) \in Nat
      /\ LiveKeys \subseteq Key /\ IsFiniteSet(Key)
  BY LiveKeysFinite
<1>4. CASE n = 0
  <2>1. cursor' = 0 /\ answer.keys = <<>>
    BY <1>1, <1>3, <1>4, BehindTheEnd
  <2>2. <<>> \o <<>> = <<>> /\ <<>> \in Seq(Key) /\ Len(<<>>) = 0
    BY EmptySeq, ConcatEmptySeq
  <2>3. got' = <<>>
    <3>1. <<>> \in Seq(Key) /\ Len(<<>>) <= Cardinality(Key)
      BY <1>3, <2>2
    <3>2. Kept(<<>>) = <<>>
      BY <3>1, KeptType
    <3> QED
      BY <1>1, <2>1, <2>2, <3>2
  <2>4. LiveKeys = {}
    BY <1>3, <1>4, FS_EmptySet
  <2>5. ToSet(<<>>) = {}
    BY DEF ToSet
  <2>6. LiveKeys \cap p = {} /\ Cardinality({}) = 0
    BY <2>4, FS_EmptySet
  <2>7. OnePageIsExact'
    BY <1>2, <2>2, <2>3, <2>5, <2>6 DEF OnePageIsExact
  <2>8. PagesTile'
    BY <1>2, <1>4, <2>1, <2>2, <2>3 DEF PagesTile
  <2> QED
    BY <1>2, <2>1, <2>2, <2>3, <2>7, <2>8 DEF Returned
<1>5. CASE n # 0
  <2>1. PICK end \in 0 + 1 .. n :
           /\ answer.next = IF end = n THEN 0 ELSE end
           /\ \E page \in SUBSET LiveKeys : Cardinality(page) = end - 0 /\ answer.keys \in SetToSeqs(page \cap p)
    <3>1. 0 \in Nat /\ 0 < Cardinality(LiveKeys)
      BY <1>3, <1>5
    <3> QED
      BY <1>1, <3>1, PageFrom
  <2>2. PICK page \in SUBSET LiveKeys : Cardinality(page) = end - 0 /\ answer.keys \in SetToSeqs(page \cap p)
    BY <2>1
  <2>3. end \in Nat /\ end # 0 /\ end <= n /\ end - 0 = end
    BY <1>3, <2>1
  <2> DEFINE A == page \cap p
  <2>4. IsFiniteSet(page) /\ IsFiniteSet(A) /\ A \subseteq Key /\ Cardinality(A) <= end
    <3>1. IsFiniteSet(page)
      BY <1>3, FS_Subset
    <3>2. IsFiniteSet(A) /\ Cardinality(A) <= Cardinality(page)
      BY <3>1, FS_Intersection
    <3> QED
      BY <1>3, <2>2, <2>3, <3>1, <3>2
  <2>5. answer.keys \in Seq(A) /\ Len(answer.keys) = Cardinality(A) /\ ToSet(answer.keys) = A
    <3> HIDE DEF A
    <3> QED
      BY <2>2, <2>4, Enumeration DEF A
  <2>6. answer.keys \in Seq(Key) /\ Cardinality(A) \in Nat
    <3> HIDE DEF A
    <3> QED
      BY <2>4, <2>5, FS_CardinalityType
  <2>7. <<>> \o answer.keys = answer.keys
    BY <2>6, ConcatEmptySeq
  <2>8. Len(answer.keys) <= Cardinality(Key)
    BY <1>3, <2>3, <2>4, <2>5, <2>6
  <2>9. got' = answer.keys
    BY <1>1, <2>6, <2>7, <2>8, KeptType
  <2>10. cursor' = IF end = n THEN 0 ELSE end
    BY <1>1, <2>1
  <2>11. OnePageIsExact'
    <3> SUFFICES ASSUME cursor' = 0 PROVE ToSet(got') = shown' \cap pattern' /\ Len(got') = Cardinality(shown' \cap pattern')
      BY DEF OnePageIsExact
    <3>1. end = n
      BY <2>3, <2>10
    <3>2. page = LiveKeys
      BY <1>3, <2>2, <2>3, <3>1, FS_Subset
    <3> QED
      BY <1>2, <2>5, <2>9, <3>2
  <2>12. PagesTile'
    <3> SUFFICES ASSUME pattern' = Key PROVE Len(got') = IF cursor' = 0 THEN Cardinality(shown') ELSE cursor'
      BY DEF PagesTile
    <3>1. A = page
      BY <1>2, <1>3
    <3>2. Len(got') = end
      BY <2>2, <2>3, <2>5, <2>9, <3>1
    <3> QED
      BY <1>2, <2>3, <2>10, <3>2
  <2> QED
    BY <1>2, <1>3, <2>3, <2>6, <2>9, <2>10, <2>11, <2>12 DEF Returned
<1> QED
  BY <1>4, <1>5

(* The later calls.                                                         *)
LEMMA NextPage ==
    ASSUME Returned, NEW p \in Patterns, NEW count \in Nat \ {0}, cursor # 0, ScanCall(p, count)
    PROVE  Returned'
<1> DEFINE n == Cardinality(LiveKeys)
<1>1. PICK answer \in Pages(cursor, p, count) : cursor' = answer.next /\ got' = Kept(got \o answer.keys)
  BY DEF ScanCall
<1>2. p = pattern /\ pattern' = pattern /\ pages' = 2 /\ shown' = LiveKeys /\ stable' = (stable /\ shown = LiveKeys)
  BY DEF ScanCall
<1>3. n \in Nat /\ IsFiniteSet(LiveKeys) /\ n <= Cardinality(Key) /\ Cardinality(Key) \in Nat
      /\ LiveKeys \subseteq Key
  BY LiveKeysFinite
<1>4. cursor \in Nat /\ got \in Seq(Key)
  BY DEF Returned
<1>5. CASE cursor >= n
  <2>1. cursor' = 0 /\ answer.keys = <<>>
    BY <1>1, <1>4, <1>5, BehindTheEnd
  <2>2. got \o <<>> = got
    BY <1>4, ConcatEmptySeq
  <2>3. got' \in Seq(Key)
    BY <1>1, <1>4, <2>1, <2>2, KeptType
  <2>4. stable' = FALSE
    <3>1. ASSUME stable, shown = LiveKeys PROVE FALSE
      <4>1. cursor < Cardinality(shown)
        BY <3>1 DEF Returned
      <4> QED
        BY <1>3, <1>4, <1>5, <3>1, <4>1
    <3> QED
      BY <1>2, <3>1
  <2> QED
    BY <1>2, <2>1, <2>3, <2>4 DEF Returned, OnePageIsExact, PagesTile
<1>6. CASE cursor < n
  <2>1. PICK end \in cursor + 1 .. n :
           /\ answer.next = IF end = n THEN 0 ELSE end
           /\ \E page \in SUBSET LiveKeys : Cardinality(page) = end - cursor /\ answer.keys \in SetToSeqs(page \cap p)
    BY <1>4, <1>6, PageFrom
  <2>2. PICK page \in SUBSET LiveKeys : Cardinality(page) = end - cursor /\ answer.keys \in SetToSeqs(page \cap p)
    BY <2>1
  <2>3. end \in Nat /\ end # 0 /\ end <= n /\ end - cursor \in Nat /\ cursor + (end - cursor) = end
    BY <1>3, <1>4, <2>1
  <2> DEFINE A == page \cap p
  <2>4. IsFiniteSet(page) /\ IsFiniteSet(A) /\ A \subseteq Key
    <3>1. IsFiniteSet(page)
      BY <1>3, FS_Subset
    <3> QED
      BY <1>3, <3>1, FS_Intersection
  <2>5. answer.keys \in Seq(A) /\ Len(answer.keys) = Cardinality(A)
    <3> HIDE DEF A
    <3> QED
      BY <2>2, <2>4, Enumeration DEF A
  <2>6. answer.keys \in Seq(Key)
    <3> HIDE DEF A
    <3> QED
      BY <2>4, <2>5
  <2>7. got \o answer.keys \in Seq(Key) /\ Len(got \o answer.keys) = Len(got) + Len(answer.keys)
    BY <1>4, <2>6, ConcatProperties
  <2>8. got' \in Seq(Key)
    BY <1>1, <2>7, KeptType
  <2>9. cursor' = IF end = n THEN 0 ELSE end
    BY <1>1, <2>1
  <2>10. PagesTile'
    <3> SUFFICES ASSUME stable', pattern' = Key PROVE Len(got') = IF cursor' = 0 THEN Cardinality(shown') ELSE cursor'
      BY DEF PagesTile
    <3>1. A = page
      BY <1>2, <1>3
    <3>2. Len(answer.keys) = end - cursor
      BY <2>2, <2>5, <3>1
    <3>3. Len(got) = cursor
      BY <1>2, <1>4 DEF Returned, PagesTile
    <3>4. Len(got \o answer.keys) = end
      BY <2>3, <2>7, <3>2, <3>3
    <3>5. end <= Cardinality(Key)
      BY <1>3, <2>3
    <3>6. got' = got \o answer.keys
      BY <1>1, <2>7, <3>4, <3>5, KeptType
    <3> QED
      BY <1>2, <2>3, <2>9, <3>4, <3>6
  <2>11. cursor' # 0 => cursor' < Cardinality(shown')
    BY <1>2, <1>3, <2>3, <2>9
  <2> QED
    BY <1>2, <2>3, <2>8, <2>9, <2>10, <2>11 DEF Returned, OnePageIsExact
<1> QED
  BY <1>3, <1>4, <1>5, <1>6

(* No step of any client spoils what an iteration has returned.             *)
LEMMA AlwaysReturned == Spec => []Returned
<1>1. Init => Returned
  <2> SUFFICES ASSUME Init PROVE Returned
    OBVIOUS
  <2>1. <<>> \in Seq(Key)
    BY EmptySeq
  <2> QED
    BY <2>1, ScanAssumption DEF Init, Returned, OnePageIsExact, PagesTile
<1>2. Returned /\ [Next]_vars => Returned'
  <2> SUFFICES ASSUME Returned, [Next]_vars PROVE Returned'
    OBVIOUS
  <2>1. ASSUME NEW p \in Patterns, NEW count \in Counts, ScanCall(p, count) PROVE Returned'
    <3>1. count \in Nat \ {0}
      BY ScanAssumption
    <3> QED
      BY <2>1, <3>1, FirstPage, NextPage
  <2>2. ASSUME UNCHANGED <<cursor, iteration>> PROVE Returned'
    BY <2>2 DEF iteration, Returned, OnePageIsExact, PagesTile
  <2>3. ASSUME NEW k \in Key, NEW e, Change(k, e) PROVE Returned'
    BY <2>2, <2>3 DEF Change
  <2>4. CASE UNCHANGED vars
    BY <2>2, <2>4 DEF vars
  <2> QED
    BY <2>1, <2>3, <2>4 DEF Next
<1> QED
  BY <1>1, <1>2, PTL DEF Spec

(* SCAN with a COUNT no smaller than the database returns every live key    *)
(* that matches once and nothing else, whatever other clients do between    *)
(* the calls.                                                               *)
THEOREM WholePageExact == Spec => []OnePageIsExact
<1>1. Returned => OnePageIsExact
  BY DEF Returned
<1> QED
  BY <1>1, AlwaysReturned, PTL

(* The pages of an iteration over unchanging live keys together hold as     *)
(* many keys as there are, whatever the map order of each call.             *)
THEOREM IterationTiles == Spec => []PagesTile
<1>1. Returned => PagesTile
  BY DEF Returned
<1> QED
  BY <1>1, AlwaysReturned, PTL

-----------------------------------------------------------------------------
(* GETRANGE.                                                                *)

(* Every text is a sequence of bytes.                                       *)
Texted == data \in [Key -> [type : {"none", "string", "list"}, text : Seq(Byte), expired : BOOLEAN]]

(* What other clients write are texts.                                      *)
LEMMA AlwaysTexted == Spec => []Texted
<1>1. Init => Texted
  <2>1. <<>> \in Seq(Byte)
    BY EmptySeq
  <2> QED
    BY <2>1 DEF Init, Texted, Absent
<1>2. Texted /\ [Next]_vars => Texted'
  <2> SUFFICES ASSUME Texted, [Next]_vars PROVE Texted'
    OBVIOUS
  <2> DEFINE E == [type : {"none", "string", "list"}, text : Seq(Byte), expired : BOOLEAN]
  <2>1. ASSUME NEW k \in Key, NEW e \in E, Change(k, e) PROVE Texted'
    BY <2>1 DEF Change, Texted
  <2>2. (\A s \in Texts : String(s) \in E) /\ List \in E /\ Absent \in E
    <3>1. <<>> \in Seq(Byte)
      BY EmptySeq
    <3> QED
      BY <3>1, ScanAssumption DEF String, List, Absent
  <2>3. ASSUME NEW k \in Key PROVE [data[k] EXCEPT !.expired = TRUE] \in E
    BY DEF Texted
  <2>4. ASSUME NEW p, NEW count, ScanCall(p, count) PROVE Texted'
    BY <2>4 DEF ScanCall, Texted
  <2>5. CASE UNCHANGED vars
    BY <2>5 DEF vars, Texted
  <2> HIDE DEF E
  <2> QED
    BY <2>1, <2>2, <2>3, <2>4, <2>5 DEF Next
<1> QED
  BY <1>1, <1>2, PTL DEF Spec

(* The window between two indexes, each clamped on one side only.           *)
LEMMA LowerEnd ==
    ASSUME NEW len \in Nat, NEW start \in Int, NEW a \in Int, a = Index(start, len)
    PROVE  Start(start, len) = (IF a < 0 THEN 0 ELSE a) /\ Max({a, 0}) = IF a < 0 THEN 0 ELSE a
<1>1. PICK x \in {a, 0} : \A y \in {a, 0} : x >= y
  OBVIOUS
<1>2. Max({a, 0}) \in {a, 0} /\ \A y \in {a, 0} : Max({a, 0}) >= y
  BY <1>1 DEF Max
<1>3. Max({a, 0}) = IF a < 0 THEN 0 ELSE a
  BY <1>2
<1>4. Start(start, len) = IF a < 0 THEN 0 ELSE a
  BY DEF Start, Index
<1> QED
  BY <1>3, <1>4

(* The upper end of a range, after clamping.                                *)
LEMMA UpperEnd ==
    ASSUME NEW len \in Nat, NEW end \in Int, NEW b \in Int, b = Index(end, len)
    PROVE  Stop(end, len) = IF b >= len THEN len - 1 ELSE b
BY DEF Stop, Index

(* The length of an interval of naturals.                                   *)
LEMMA Interval ==
    ASSUME NEW lo \in Nat, NEW hi \in Int
    PROVE  Cardinality(lo .. hi) = IF lo > hi THEN 0 ELSE hi - lo + 1
BY FS_Interval

(* The elements cut out of a sequence.                                      *)
LEMMA CutItems ==
    ASSUME NEW s, NEW m \in Int, NEW n \in Int, \A i \in m .. n : s[i] \in Byte, m <= n
    PROVE  Len(SubSeq(s, m, n)) = n - m + 1 /\ \A i \in 1 .. n - m + 1 : SubSeq(s, m, n)[i] = s[m + i - 1]
BY SubSeqProperties

(* GETRANGE of one text.                                                    *)
LEMMA OneRange ==
    ASSUME NEW s \in Seq(Byte), NEW start \in Int, NEW end \in Int
    PROVE  ExactRange(s, start, end)
<1>0. PICK a \in Int, b \in Int : a = Index(start, Len(s)) /\ b = Index(end, Len(s))
  <2>1. Len(s) \in Nat
    OBVIOUS
  <2>2. Index(start, Len(s)) \in Int /\ Index(end, Len(s)) \in Int
    BY <2>1 DEF Index
  <2> QED
    BY <2>2
<1> DEFINE inside == Inside(s, start, end)
           r == GetRange(s, start, end)
<1>1. PICK len \in Nat : len = Len(s)
  OBVIOUS
<1>2. PICK lo \in Nat : lo = IF a < 0 THEN 0 ELSE a
  OBVIOUS
<1>3. PICK hi \in Int : hi = IF b >= len THEN len - 1 ELSE b
  BY <1>1
<1>4. Start(start, Len(s)) = lo /\ Max({a, 0}) = lo
  BY <1>0, <1>1, <1>2, LowerEnd
<1>5. Stop(end, Len(s)) = hi
  BY <1>0, <1>1, <1>3, UpperEnd
<1>6. inside = lo .. hi
  <2>1. inside = {i \in 0 .. len - 1 : a <= i /\ i <= b}
    BY <1>0, <1>1 DEF Inside
  <2>2. ASSUME NEW i \in Int PROVE (i \in 0 .. len - 1 /\ a <= i /\ i <= b) <=> i \in lo .. hi
    BY <1>0, <1>1, <1>2, <1>3, <2>2
  <2>3. inside \subseteq Int /\ lo .. hi \subseteq Int
    BY <2>1
  <2> QED
    BY <1>1, <2>1, <2>2, <2>3
<1> HIDE DEF inside, r
<1>7. hi < len
  BY <1>1, <1>3
<1>8. Cardinality(inside) = IF lo > hi THEN 0 ELSE hi - lo + 1
  BY <1>2, <1>3, <1>6, Interval
<1>9. r = IF lo > hi THEN <<>> ELSE SubSeq(s, lo + 1, hi + 1)
  BY <1>4, <1>5 DEF GetRange, r
<1>10. (\A i \in inside : r[i - lo + 1] = s[i + 1]) /\ Len(r) = Cardinality(inside) => ExactRange(s, start, end)
  BY <1>0, <1>4 DEF ExactRange, inside, r
<1>11. CASE lo > hi
  <2>1. Len(r) = 0
    BY <1>9, <1>11, EmptySeq
  <2>2. inside = {}
    BY <1>2, <1>3, <1>6, <1>11
  <2> QED
    BY <1>8, <1>10, <1>11, <2>1, <2>2
<1>12. CASE ~(lo > hi)
  <2>1. r = SubSeq(s, lo + 1, hi + 1)
    BY <1>9, <1>12
  <2>2. PICK m \in Int : m = lo + 1
    BY <1>2
  <2>3. PICK n \in Int : n = hi + 1
    BY <1>3
  <2>4. \A i \in m .. n : s[i] \in Byte
    <3>1. ASSUME NEW i \in m .. n PROVE i \in 1 .. len
      BY <1>1, <1>2, <1>3, <1>7, <2>2, <2>3, <3>1
    <3> QED
      BY <1>1, <3>1
  <2>5. m <= n
    BY <1>2, <1>3, <1>12, <2>2, <2>3
  <2>6. Len(r) = n - m + 1 /\ \A i \in 1 .. n - m + 1 : r[i] = s[m + i - 1]
    <3>1. r = SubSeq(s, m, n)
      BY <2>1, <2>2, <2>3
    <3> QED
      BY <2>4, <2>5, <3>1, CutItems
  <2>7. Len(r) = hi - lo + 1
    BY <1>2, <1>3, <2>2, <2>3, <2>6
  <2>8. ASSUME NEW i \in lo .. hi PROVE r[i - lo + 1] = s[i + 1]
    <3>0. i \in Int /\ i - lo + 1 \in Int
      BY <1>2, <1>3, <2>8
    <3>1. PICK j \in Int : j = i - lo + 1
      BY <3>0
    <3>2. j \in 1 .. n - m + 1
      BY <1>2, <1>3, <2>2, <2>3, <2>8, <3>0, <3>1
    <3>3. m + j - 1 = i + 1
      BY <1>2, <1>3, <2>2, <2>8, <3>0, <3>1
    <3>4. r[j] = s[m + j - 1]
      BY <2>6, <3>2
    <3> QED
      BY <3>1, <3>3, <3>4
  <2>9. \A i \in inside : r[i - lo + 1] = s[i + 1]
    BY <1>6, <2>8
  <2>10. Len(r) = Cardinality(inside)
    BY <1>8, <1>12, <2>7
  <2> QED
    BY <1>10, <2>9, <2>10
<1> QED
  BY <1>11, <1>12

(* GETRANGE gives the bytes whose index lies between the two given ones,    *)
(* counted from the end when they are negative, and as many as there are.   *)
THEOREM RangesExact == Spec => []RangeIsExact
<1>1. Texted => RangeIsExact
  <2> SUFFICES ASSUME Texted, NEW k \in Key PROVE Type(k) = "string" =>
                   LET far == Len(data[k].text) + 2
                   IN  \A start, end \in -far .. far : ExactRange(data[k].text, start, end)
    BY DEF RangeIsExact
  <2> DEFINE s == data[k].text
             far == Len(s) + 2
  <2>1. s \in Seq(Byte)
    BY DEF Texted
  <2>2. far \in Nat
    BY <2>1
  <2>3. \A start, end \in -far .. far : start \in Int /\ end \in Int
    <3> HIDE DEF far
    <3> QED
      BY <2>2
  <2> HIDE DEF s
  <2>4. \A start, end \in -far .. far : ExactRange(s, start, end)
    <3> HIDE DEF far
    <3> QED
      BY <2>1, <2>3, OneRange
  <2> QED
    BY <2>4 DEF s
<1> QED
  BY <1>1, AlwaysTexted, PTL
=============================================================================
