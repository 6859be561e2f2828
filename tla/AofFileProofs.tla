---------------------------- MODULE AofFileProofs ----------------------------
(***************************************************************************)
(* Theorems about AofFile for all commands, replies and bounds: what the   *)
(* codec writes it reads back, no torn record parses, and so recovery      *)
(* replays the records that are whole.  The recursive functions of Resp2   *)
(* and AofFile are first shown to exist, by induction over the length of   *)
(* the input or the depth of the value.                                    *)
(***************************************************************************)
EXTENDS AofFile, SequenceTheorems, WellFoundedInduction, TLAPS

-----------------------------------------------------------------------------
(* Numbers: induction over sets of them.                                    *)

(* A set of numbers that is not empty has a least one.                      *)
LEMMA LeastElement ==
    ASSUME NEW T, T \subseteq Nat, T # {}
    PROVE  \E x \in T : \A y \in T : x <= y
<1>1. \E x \in T : \A y \in T : ~ (<<y, x>> \in OpToRel(<, Nat))
  BY NatLessThanWellFounded, WFMin
<1>2. PICK x \in T : \A y \in T : ~ (<<y, x>> \in OpToRel(<, Nat))
  BY <1>1
<1>3. ASSUME NEW y \in T PROVE x <= y
  <2>1. ~(<<y, x>> \in OpToRel(<, Nat))
    BY <1>2
  <2>2. <<y, x>> \in Nat \X Nat
    OBVIOUS
  <2>3. ~(y < x)
    BY <2>1, <2>2 DEF OpToRel
  <2> QED BY <2>3
<1> QED BY <1>3

(* Every number is in a set that has each number whose predecessors it has. *)
LEMMA StrongInduction ==
    ASSUME NEW S, ASSUME NEW n \in Nat, \A m \in 0 .. n - 1 : m \in S PROVE n \in S
    PROVE  \A n \in Nat : n \in S
<1> SUFFICES ASSUME NEW k \in Nat, k \notin S PROVE FALSE
  OBVIOUS
<1> DEFINE T == {n \in Nat : n \notin S}
<1>1. PICK x \in T : \A y \in T : x <= y
  <2>1. T \subseteq Nat /\ T # {}
    OBVIOUS
  <2> HIDE DEF T
  <2> QED BY <2>1, LeastElement
<1>2. \A m \in 0 .. x - 1 : m \in S
  BY <1>1
<1> QED BY <1>1, <1>2

(* Every number is in a set that has 0 and, with each number, the next.     *)
LEMMA Induction ==
    ASSUME NEW S, 0 \in S, \A n \in Nat : n \in S => n + 1 \in S
    PROVE  \A n \in Nat : n \in S
<1>1. ASSUME NEW n \in Nat, \A m \in 0 .. n - 1 : m \in S PROVE n \in S
  <2>1. CASE n = 0
    BY <2>1
  <2>2. CASE n # 0
    <3>1. n - 1 \in Nat /\ n - 1 \in 0 .. n - 1 /\ (n - 1) + 1 = n
      BY <2>2
    <3> QED BY <3>1, <1>1
  <2> QED BY <2>1, <2>2
<1> QED BY <1>1, StrongInduction
-----------------------------------------------------------------------------
(* FlattenSeq.                                                              *)

(* The partial results of FlattenSeq, as the function that defines it.      *)
IsFlattening(p, seqs) ==
    p = [i \in 1 .. Len(seqs) |-> IF i = 1 THEN seqs[i] ELSE p[i - 1] \o seqs[i]]

(* That function exists.                                                    *)
LEMMA FlatteningExists ==
    ASSUME NEW S, NEW seqs \in Seq(Seq(S))
    PROVE  \E p : IsFlattening(p, seqs)
<1> DEFINE Q(p, n) == p = [i \in 1 .. n |-> IF i = 1 THEN seqs[i] ELSE p[i - 1] \o seqs[i]]
           T == {n \in Nat : \E p : Q(p, n)}
<1>1. 0 \in T
  <2>1. Q([i \in 1 .. 0 |-> 0], 0)
    OBVIOUS
  <2> QED BY <2>1
<1>2. ASSUME NEW n \in Nat, n \in T PROVE n + 1 \in T
  <2>1. PICK p : Q(p, n)
    BY <1>2
  <2> DEFINE q == [i \in 1 .. n + 1 |-> IF i = 1 THEN seqs[i] ELSE p[i - 1] \o seqs[i]]
  <2>2. \A i \in 1 .. n : q[i] = p[i]
    <3> SUFFICES ASSUME NEW i \in 1 .. n PROVE q[i] = p[i]
      OBVIOUS
    <3>1. q[i] = IF i = 1 THEN seqs[i] ELSE p[i - 1] \o seqs[i]
      OBVIOUS
    <3>2. [j \in 1 .. n |-> IF j = 1 THEN seqs[j] ELSE p[j - 1] \o seqs[j]][i] = IF i = 1 THEN seqs[i]
            ELSE p[i - 1] \o seqs[i]
      OBVIOUS
    <3> QED BY <2>1, <3>1, <3>2
  <2>3. ASSUME NEW i \in 1 .. n + 1
        PROVE  (IF i = 1 THEN seqs[i] ELSE p[i - 1] \o seqs[i]) = (IF i = 1 THEN seqs[i] ELSE q[i - 1] \o seqs[i])
    <3>1. CASE i = 1
      BY <3>1
    <3>2. CASE i # 1
      <4>1. i - 1 \in 1 .. n
        BY <3>2
      <4> HIDE DEF q
      <4> QED BY <4>1, <2>2, <3>2
    <3> QED BY <3>1, <3>2
  <2>4. Q(q, n + 1)
    <3> DEFINE r == [i \in 1 .. n + 1 |-> IF i = 1 THEN seqs[i] ELSE q[i - 1] \o seqs[i]]
    <3>1. q = r
      BY <2>3
    <3> QED BY <3>1
  <2>5. \E r : Q(r, n + 1)
    <3> HIDE DEF Q, q
    <3> QED BY <2>4
  <2> HIDE DEF Q
  <2> QED BY <2>5
<1>3. \A n \in Nat : n \in T
  <2> HIDE DEF T
  <2> QED BY <1>1, <1>2, Induction
<1>4. Len(seqs) \in T
  <2> HIDE DEF T
  <2> QED BY <1>3, LenProperties
<1> QED BY <1>4 DEF IsFlattening

(* What it is at one index.                                                 *)
LEMMA FlatteningStep ==
    ASSUME NEW S, NEW seqs \in Seq(Seq(S)), NEW p, IsFlattening(p, seqs), NEW i \in 1 .. Len(seqs)
    PROVE  p[i] = IF i = 1 THEN seqs[i] ELSE p[i - 1] \o seqs[i]
<1> DEFINE q == [j \in 1 .. Len(seqs) |-> IF j = 1 THEN seqs[j] ELSE p[j - 1] \o seqs[j]]
<1>1. q[i] = IF i = 1 THEN seqs[i] ELSE p[i - 1] \o seqs[i]
  OBVIOUS
<1>2. p = q
  BY DEF IsFlattening
<1> QED BY <1>1, <1>2

(* FlattenSeq gives the last partial result.                                *)
LEMMA FlattenIs ==
    ASSUME NEW S, NEW seqs \in Seq(Seq(S)), seqs # <<>>
    PROVE  \E p : IsFlattening(p, seqs) /\ FlattenSeq(seqs) = p[Len(seqs)]
<1> DEFINE p == CHOOSE q : IsFlattening(q, seqs)
<1>1. IsFlattening(p, seqs)
  BY FlatteningExists
<1>2. FlattenSeq(seqs) = p[Len(seqs)]
  <2>1. Len(seqs) # 0
    BY EmptySeq
  <2> QED BY <2>1 DEF FlattenSeq, IsFlattening
<1> QED BY <1>1, <1>2

(* Nothing flattened is nothing.                                            *)
LEMMA FlattenEmpty == FlattenSeq(<<>>) = <<>>
BY EmptySeq DEF FlattenSeq

(* Sequences over a set flatten to a sequence over it.                      *)
LEMMA FlattenType ==
    ASSUME NEW S, NEW seqs \in Seq(Seq(S))
    PROVE  FlattenSeq(seqs) \in Seq(S)
<1>1. CASE seqs = <<>>
  BY <1>1, FlattenEmpty, EmptySeq
<1>2. CASE seqs # <<>>
  <2>1. PICK p : IsFlattening(p, seqs) /\ FlattenSeq(seqs) = p[Len(seqs)]
    BY <1>2, FlattenIs
  <2>2. Len(seqs) \in Nat /\ Len(seqs) # 0
    BY <1>2, LenProperties, EmptySeq
  <2> DEFINE T == {n \in Nat : n \in 1 .. Len(seqs) => p[n] \in Seq(S)}
  <2>3. 0 \in T
    OBVIOUS
  <2>4. ASSUME NEW n \in Nat, n \in T PROVE n + 1 \in T
    <3> SUFFICES ASSUME n + 1 \in 1 .. Len(seqs) PROVE p[n + 1] \in Seq(S)
      OBVIOUS
    <3>1. p[n + 1] = IF n + 1 = 1 THEN seqs[n + 1] ELSE p[(n + 1) - 1] \o seqs[n + 1]
      BY <2>1, FlatteningStep
    <3>2. seqs[n + 1] \in Seq(S)
      BY ElementOfSeq
    <3>3. n + 1 # 1 => p[n] \in Seq(S)
      BY <2>2, <2>4
    <3>4. (n + 1) - 1 = n
      OBVIOUS
    <3>5. n + 1 # 1 => p[n] \o seqs[n + 1] \in Seq(S)
      BY <3>2, <3>3, ConcatProperties
    <3> QED BY <3>1, <3>2, <3>4, <3>5
  <2>5. \A n \in Nat : n \in T
    <3> HIDE DEF T
    <3> QED BY <2>3, <2>4, Induction
  <2>6. Len(seqs) \in T
    <3> HIDE DEF T
    <3> QED BY <2>2, <2>5
  <2> QED BY <2>1, <2>2, <2>6
<1> QED BY <1>1, <1>2

(* One more sequence is one more part at the end.                           *)
LEMMA FlattenAppend ==
    ASSUME NEW S, NEW seqs \in Seq(Seq(S)), NEW x \in Seq(S)
    PROVE  FlattenSeq(Append(seqs, x)) = FlattenSeq(seqs) \o x
<1> DEFINE more == Append(seqs, x)
<1>1. more \in Seq(Seq(S)) /\ Len(more) = Len(seqs) + 1 /\ Len(seqs) \in Nat /\ more[Len(seqs) + 1] = x
      /\ \A i \in 1 .. Len(seqs) : more[i] = seqs[i]
  BY AppendProperties, LenProperties
<1>2. more # <<>>
  BY <1>1, EmptySeq
<1> HIDE DEF more
<1>3. PICK q : IsFlattening(q, more) /\ FlattenSeq(more) = q[Len(more)]
  BY <1>1, <1>2, FlattenIs
<1>4. CASE seqs = <<>>
  <2>1. Len(seqs) = 0
    BY <1>4, EmptySeq
  <2>2. q[1] = more[1]
    <3>1. 1 \in 1 .. Len(more)
      BY <1>1, <2>1
    <3>2. q[1] = IF 1 = 1 THEN more[1] ELSE q[1 - 1] \o more[1]
      BY <3>1, <1>1, <1>3, FlatteningStep
    <3> QED BY <3>2
  <2>3. FlattenSeq(more) = x
    BY <1>1, <1>3, <2>1, <2>2
  <2> QED BY <2>3, <1>4, FlattenEmpty, ConcatEmptySeq DEF more
<1>5. CASE seqs # <<>>
  <2>1. PICK p : IsFlattening(p, seqs) /\ FlattenSeq(seqs) = p[Len(seqs)]
    BY <1>5, FlattenIs
  <2>2. Len(seqs) # 0
    BY <1>5, EmptySeq
  <2> DEFINE T == {n \in Nat : n \in 1 .. Len(seqs) => p[n] = q[n]}
  <2>3. 0 \in T
    OBVIOUS
  <2>4. ASSUME NEW n \in Nat, n \in T PROVE n + 1 \in T
    <3> SUFFICES ASSUME n + 1 \in 1 .. Len(seqs) PROVE p[n + 1] = q[n + 1]
      OBVIOUS
    <3>1. p[n + 1] = IF n + 1 = 1 THEN seqs[n + 1] ELSE p[(n + 1) - 1] \o seqs[n + 1]
      BY <2>1, FlatteningStep
    <3>2. q[n + 1] = IF n + 1 = 1 THEN more[n + 1] ELSE q[(n + 1) - 1] \o more[n + 1]
      <4>1. n + 1 \in 1 .. Len(more)
        BY <1>1
      <4> QED BY <4>1, <1>1, <1>3, FlatteningStep
    <3>3. more[n + 1] = seqs[n + 1] /\ (n + 1) - 1 = n
      BY <1>1
    <3>4. n + 1 # 1 => p[n] = q[n]
      BY <1>1, <2>4
    <3> QED BY <3>1, <3>2, <3>3, <3>4
  <2>5. \A n \in Nat : n \in T
    <3> HIDE DEF T
    <3> QED BY <2>3, <2>4, Induction
  <2>6. Len(seqs) \in T
    <3> HIDE DEF T
    <3> QED BY <1>1, <2>5
  <2>7. p[Len(seqs)] = q[Len(seqs)]
    BY <1>1, <2>2, <2>6
  <2>8. q[Len(seqs) + 1] = q[(Len(seqs) + 1) - 1] \o x
    <3>1. Len(seqs) + 1 \in 1 .. Len(more) /\ Len(seqs) + 1 # 1
      BY <1>1, <2>2
    <3>2. q[Len(seqs) + 1] = IF Len(seqs) + 1 = 1 THEN more[Len(seqs) + 1]
            ELSE q[(Len(seqs) + 1) - 1] \o more[Len(seqs) + 1]
      BY <3>1, <1>1, <1>3, FlatteningStep
    <3> QED BY <3>1, <3>2, <1>1
  <2>9. (Len(seqs) + 1) - 1 = Len(seqs)
    BY <1>1
  <2>10. FlattenSeq(more) = FlattenSeq(seqs) \o x
    BY <1>1, <1>3, <2>1, <2>7, <2>8, <2>9
  <2> QED BY <2>10 DEF more
<1> QED BY <1>4, <1>5

(* The empty sequence has no length.                                        *)
LEMMA LengthOfEmpty == Len(<<>>) = 0
BY EmptySeq

(* Three sequences may be grouped either way.                               *)
Regroups(a, b, c) == (a \o b) \o c = a \o (b \o c)

(* Those over a set are.                                                    *)
LEMMA Associates ==
    ASSUME NEW S
    PROVE  \A a, b, c \in Seq(S) : Regroups(a, b, c)
<1>1. ASSUME NEW a \in Seq(S), NEW b \in Seq(S), NEW c \in Seq(S)
      PROVE  (a \o b) \o c = a \o (b \o c)
  BY ONLY ConcatAssociative, a \in Seq(S), b \in Seq(S), c \in Seq(S)
<1> QED BY ONLY <1>1, Zenon DEF Regroups

(* What has a length is not the empty sequence.                             *)
LEMMA NotEmpty == \A s : Len(s) # 0 => s # <<>>
BY EmptySeq

(* Only the empty sequence has the length 0.                                *)
LEMMA EmptyIff ==
    ASSUME NEW S, NEW s \in Seq(S)
    PROVE  Len(s) \in Nat /\ (s = <<>> <=> Len(s) = 0) /\ (s # <<>> <=> Len(s) > 0)
<1>1. Len(s) \in Nat /\ (s # <<>> => Len(s) # 0)
  BY LenProperties, EmptySeq
<1>2. s = <<>> => Len(s) = 0
  BY EmptySeq
<1> QED BY <1>1, <1>2

(* A sequence that is not empty is a front and a last element.              *)
LEMMA FrontAndLast ==
    ASSUME NEW S, NEW s \in Seq(S), Len(s) # 0
    PROVE  \E f \in Seq(S), e \in S :
              s = Append(f, e) /\ Len(f) = Len(s) - 1 /\ e = s[Len(s)] /\ f = SubSeq(s, 1, Len(s) - 1)
<1>1. Len(s) \in Nat
  BY LenProperties
<1> DEFINE f == SubSeq(s, 1, Len(s) - 1)
           e == s[Len(s)]
<1>2. \A i \in 1 .. Len(s) - 1 : s[i] \in S
  BY <1>1, ElementOfSeq
<1>3. f \in Seq(S) /\ Len(f) = Len(s) - 1 /\ \A i \in 1 .. Len(s) - 1 : f[i] = s[i]
  <2>1. f \in Seq(S)
    BY <1>1, <1>2, SubSeqProperties
  <2>2. Len(f) = Len(s) - 1
    <3>1. Len(f) = IF 1 <= Len(s) - 1 THEN (Len(s) - 1) - 1 + 1 ELSE 0
      BY <1>1, <1>2, SubSeqProperties
    <3>2. ASSUME NEW l \in Nat, l # 0
          PROVE  (IF 1 <= l - 1 THEN (l - 1) - 1 + 1 ELSE 0) = l - 1
      BY <3>2
    <3>3. (IF 1 <= Len(s) - 1 THEN (Len(s) - 1) - 1 + 1 ELSE 0) = Len(s) - 1
      BY <3>2, <1>1
    <3> QED BY <3>1, <3>3
  <2>3. \A i \in 1 .. (Len(s) - 1) - 1 + 1 : f[i] = s[1 + i - 1]
    BY <1>1, <1>2, SubSeqProperties
  <2>4. \A i \in 1 .. Len(s) - 1 : f[i] = s[i]
    <3> HIDE DEF f
    <3> QED BY <2>3, <1>1
  <2> QED BY <2>1, <2>2, <2>4
<1>4. e \in S
  BY <1>1, ElementOfSeq
<1> HIDE DEF f
<1>5. s = Append(f, e)
  <2>1. Append(f, e) \in Seq(S) /\ Len(Append(f, e)) = Len(s)
    BY <1>1, <1>3, <1>4, AppendProperties
  <2>2. ASSUME NEW i \in 1 .. Len(s) PROVE s[i] = Append(f, e)[i]
    BY <1>1, <1>3, <1>4, <2>2, AppendProperties
  <2> QED BY <2>1, <2>2, SeqEqual
<1>6. f = SubSeq(s, 1, Len(s) - 1)
  BY DEF f
<1> QED BY <1>3, <1>4, <1>5, <1>6

(* The tail of a sequence to which an element is appended.                  *)
LEMMA TailOfAppend ==
    ASSUME NEW S, NEW s \in Seq(S), NEW e \in S, Len(s) # 0
    PROVE  Tail(Append(s, e)) = Append(Tail(s), e) /\ Append(s, e)[1] = s[1]
<1>1. Len(s) \in Nat
  BY LenProperties
<1>2. Append(s, e) \in Seq(S) /\ Len(Append(s, e)) = Len(s) + 1 /\ Append(s, e)[Len(s) + 1] = e
      /\ \A i \in 1 .. Len(s) : Append(s, e)[i] = s[i]
  BY AppendProperties, <1>1
<1>3. Append(s, e) # <<>> /\ s # <<>>
  BY <1>1, <1>2, LengthOfEmpty
<1>4. Tail(s) \in Seq(S) /\ Len(Tail(s)) = Len(s) - 1 /\ \A i \in 1 .. Len(Tail(s)) : Tail(s)[i] = s[i + 1]
  BY <1>3, HeadTailProperties
<1>5. Tail(Append(s, e)) \in Seq(S) /\ Len(Tail(Append(s, e))) = Len(Append(s, e)) - 1
      /\ \A i \in 1 .. Len(Tail(Append(s, e))) : Tail(Append(s, e))[i] = Append(s, e)[i + 1]
  BY <1>2, <1>3, HeadTailProperties
<1>6. Append(Tail(s), e) \in Seq(S) /\ Len(Append(Tail(s), e)) = Len(Tail(s)) + 1
      /\ Append(Tail(s), e)[Len(Tail(s)) + 1] = e
      /\ \A i \in 1 .. Len(Tail(s)) : Append(Tail(s), e)[i] = Tail(s)[i]
  BY <1>4, AppendProperties
<1>7. Len(Tail(Append(s, e))) = Len(Append(Tail(s), e))
  BY <1>1, <1>2, <1>4, <1>5, <1>6
<1>8. ASSUME NEW i \in 1 .. Len(Tail(Append(s, e)))
      PROVE  Tail(Append(s, e))[i] = Append(Tail(s), e)[i]
  <2>1. i \in 1 .. Len(s) /\ Tail(Append(s, e))[i] = Append(s, e)[i + 1]
    BY <1>1, <1>2, <1>5, <1>8
  <2>2. CASE i = Len(s)
    BY <1>1, <1>2, <1>4, <1>6, <2>1, <2>2
  <2>3. CASE i # Len(s)
    <3>1. i \in 1 .. Len(s) - 1 /\ i + 1 \in 1 .. Len(s)
      BY <1>1, <2>1, <2>3
    <3>2. Append(s, e)[i + 1] = s[i + 1]
      BY <3>1, <1>2
    <3>3. Append(Tail(s), e)[i] = s[i + 1]
      BY <3>1, <1>4, <1>6
    <3> QED BY <2>1, <3>2, <3>3
  <2> QED BY <2>2, <2>3
<1>9. Tail(Append(s, e)) = Append(Tail(s), e)
  BY <1>5, <1>6, <1>7, <1>8, SeqEqual
<1>10. Append(s, e)[1] = s[1]
  BY <1>1, <1>2
<1> QED BY <1>9, <1>10

(* The first sequence is the first part of what is flattened.               *)
LEMMA FlattenTail ==
    ASSUME NEW S, NEW seqs \in Seq(Seq(S)), Len(seqs) # 0
    PROVE  FlattenSeq(seqs) = seqs[1] \o FlattenSeq(Tail(seqs))
<1> DEFINE Claim(s) == FlattenSeq(s) = s[1] \o FlattenSeq(Tail(s))
           T == {n \in Nat : \A s \in Seq(Seq(S)) : Len(s) = n + 1 => Claim(s)}
<1>1. ASSUME NEW s \in Seq(Seq(S)), Len(s) = 1 PROVE Claim(s)
  <2>1. s # <<>> /\ Len(s) # 0
    <3>1. Len(s) # 0
      BY <1>1
    <3> QED BY <3>1, NotEmpty, Zenon
  <2>2. PICK f \in Seq(Seq(S)), e \in Seq(S) :
            s = Append(f, e) /\ Len(f) = Len(s) - 1 /\ e = s[Len(s)] /\ f = SubSeq(s, 1, Len(s) - 1)
    BY <2>1, FrontAndLast
  <2>3. f = <<>>
    BY <1>1, <2>2, EmptyIff
  <2>4. FlattenSeq(s) = e
    <3>1. FlattenSeq(s) = FlattenSeq(f) \o e
      BY <2>2, FlattenAppend
    <3>2. <<>> \o e = e
      BY ConcatEmptySeq
    <3> QED BY <3>1, <3>2, <2>3, FlattenEmpty
  <2>5. Tail(s) \in Seq(Seq(S)) /\ Len(Tail(s)) = 0
    BY <1>1, <2>1, HeadTailProperties
  <2>6. Tail(s) = <<>>
    BY <2>5, EmptySeq
  <2> QED BY <1>1, <2>2, <2>4, <2>6, FlattenEmpty, ConcatEmptySeq
<1>2. 0 \in T
  BY <1>1
<1>3. ASSUME NEW n \in Nat, n \in T PROVE n + 1 \in T
  <2> SUFFICES ASSUME NEW s \in Seq(Seq(S)), Len(s) = (n + 1) + 1 PROVE Claim(s)
    OBVIOUS
  <2>1. Len(s) # 0
    OBVIOUS
  <2>2. PICK f \in Seq(Seq(S)), e \in Seq(S) :
            s = Append(f, e) /\ Len(f) = Len(s) - 1 /\ e = s[Len(s)] /\ f = SubSeq(s, 1, Len(s) - 1)
    BY <2>1, FrontAndLast
  <2>3. Len(f) = n + 1 /\ f # <<>> /\ Len(f) # 0
    <3>1. Len(f) = n + 1
      BY <2>2
    <3> QED BY <3>1, LengthOfEmpty
  <2>4. Claim(f)
    BY <1>3, <2>3
  <2>5. Tail(s) = Append(Tail(f), e) /\ s[1] = f[1]
    BY <2>2, <2>3, TailOfAppend
  <2>6. Tail(f) \in Seq(Seq(S)) /\ f[1] \in Seq(S)
    BY <2>3, HeadTailProperties, ElementOfSeq
  <2>7. FlattenSeq(Tail(f)) \in Seq(S)
    BY <2>6, FlattenType
  <2>8. FlattenSeq(s) = FlattenSeq(f) \o e
    BY <2>2, FlattenAppend
  <2>9. FlattenSeq(Tail(s)) = FlattenSeq(Tail(f)) \o e
    BY <2>5, <2>6, FlattenAppend
  <2>10. (f[1] \o FlattenSeq(Tail(f))) \o e = f[1] \o (FlattenSeq(Tail(f)) \o e)
    <3>1. PICK h \in Seq(S), t \in Seq(S) : h = f[1] /\ t = FlattenSeq(Tail(f))
      BY ONLY <2>6, <2>7, Zenon
    <3>2. Regroups(h, t, e)
      BY Associates
    <3> QED BY ONLY <3>1, <3>2, Zenon DEF Regroups
  <2> QED BY <2>4, <2>5, <2>8, <2>9, <2>10
<1>4. \A n \in Nat : n \in T
  <2> HIDE DEF T
  <2> QED BY <1>2, <1>3, Induction
<1>5. Len(seqs) \in Nat
  BY LenProperties
<1>6. Len(seqs) - 1 \in Nat /\ Len(seqs) = (Len(seqs) - 1) + 1
  BY <1>5
<1>7. Len(seqs) - 1 \in T
  <2> HIDE DEF T
  <2> QED BY <1>4, <1>6
<1> QED BY <1>6, <1>7
-----------------------------------------------------------------------------
(* Numbers in decimal.                                                      *)

(* The last decimal digit of a number, and the number without it.           *)
LEMMA Division ==
    ASSUME NEW n \in Nat, n >= 10
    PROVE  n \div 10 \in 0 .. n - 1 /\ n \div 10 >= 1 /\ n % 10 \in 0 .. 9 /\ 10 * (n \div 10) + (n % 10) = n
OBVIOUS

(* Decimal, with the function it refers to as a parameter.                  *)
DecimalStep(p, n) == IF n < 10 THEN <<Zero + n>> ELSE p[n \div 10] \o <<Zero + (n % 10)>>

(* The numbers up to n in decimal.                                          *)
DecimalsTo(p, n)  == p = [i \in 0 .. n |-> DecimalStep(p, i)]

(* The decimal of a number depends on the smaller ones only.                *)
LEMMA DecimalStepAgrees ==
    ASSUME NEW p, NEW q, NEW n \in Nat, \A i \in 0 .. n - 1 : p[i] = q[i]
    PROVE  DecimalStep(p, n) = DecimalStep(q, n)
<1>1. CASE n < 10
  BY <1>1 DEF DecimalStep
<1>2. CASE n >= 10
  <2>1. n \div 10 \in 0 .. n - 1 /\ ~(n < 10)
    BY <1>2, Division
  <2>2. p[n \div 10] = q[n \div 10]
    BY <2>1
  <2> QED BY <2>1, <2>2 DEF DecimalStep
<1> QED BY <1>1, <1>2

(* What such a function is at one number.                                   *)
LEMMA DecimalsToAt ==
    ASSUME NEW p, NEW n, DecimalsTo(p, n), NEW i \in 0 .. n
    PROVE  p[i] = DecimalStep(p, i)
<1> DEFINE q == [j \in 0 .. n |-> DecimalStep(p, j)]
<1>1. q[i] = DecimalStep(p, i)
  OBVIOUS
<1>2. p = q
  BY DEF DecimalsTo
<1> QED BY <1>1, <1>2

(* It exists for every n.                                                   *)
LEMMA DecimalsToExists ==
    \A n \in Nat : \E p : DecimalsTo(p, n)
<1> DEFINE T == {n \in Nat : \E p : DecimalsTo(p, n)}
<1>1. ASSUME NEW n \in Nat, NEW p, \A i \in 0 .. n - 1 : p[i] = DecimalStep(p, i)
      PROVE  \E q : DecimalsTo(q, n)
  <2> DEFINE q == [i \in 0 .. n |-> DecimalStep(p, i)]
  <2>1. \A i \in 0 .. n - 1 : q[i] = p[i]
    BY <1>1
  <2>2. ASSUME NEW i \in 0 .. n PROVE DecimalStep(p, i) = DecimalStep(q, i)
    <3>1. \A j \in 0 .. i - 1 : p[j] = q[j]
      <4> HIDE DEF q
      <4> QED BY <2>1
    <3> HIDE DEF q
    <3> QED BY <3>1, DecimalStepAgrees
  <2>3. q = [i \in 0 .. n |-> DecimalStep(q, i)]
    <3> DEFINE r == [i \in 0 .. n |-> DecimalStep(q, i)]
    <3>1. q = r
      BY <2>2
    <3> QED BY <3>1
  <2>4. DecimalsTo(q, n)
    <3> HIDE DEF q
    <3> QED BY <2>3 DEF DecimalsTo
  <2> QED BY <2>4
<1>2. 0 \in T
  <2>1. \A i \in 0 .. 0 - 1 : <<>>[i] = DecimalStep(<<>>, i)
    OBVIOUS
  <2> QED BY <1>1, <2>1
<1>3. ASSUME NEW n \in Nat, n \in T PROVE n + 1 \in T
  <2>1. PICK p : DecimalsTo(p, n)
    BY <1>3
  <2>2. \A i \in 0 .. (n + 1) - 1 : p[i] = DecimalStep(p, i)
    BY <2>1, DecimalsToAt
  <2>3. \E q : DecimalsTo(q, n + 1)
    BY <1>1, <2>2
  <2> QED BY <2>3
<1>4. \A n \in Nat : n \in T
  <2> HIDE DEF T
  <2> QED BY <1>2, <1>3, Induction
<1> QED BY <1>4

(* Two of them agree where both are defined.                                *)
LEMMA DecimalsToAgree ==
    ASSUME NEW m \in Nat, NEW n \in Nat, NEW p, NEW q, DecimalsTo(p, m), DecimalsTo(q, n),
           NEW k \in Nat, k <= m, k <= n
    PROVE  p[k] = q[k]
<1> DEFINE T == {i \in Nat : i <= m /\ i <= n => p[i] = q[i]}
<1>1. ASSUME NEW i \in Nat, \A j \in 0 .. i - 1 : j \in T PROVE i \in T
  <2> SUFFICES ASSUME i <= m, i <= n PROVE p[i] = q[i]
    OBVIOUS
  <2>1. \A j \in 0 .. i - 1 : p[j] = q[j]
    BY <1>1
  <2>2. p[i] = DecimalStep(p, i) /\ q[i] = DecimalStep(q, i)
    BY DecimalsToAt
  <2> QED BY <2>1, <2>2, DecimalStepAgrees
<1>2. \A i \in Nat : i \in T
  <2> HIDE DEF T
  <2> QED BY <1>1, StrongInduction
<1> QED BY <1>2

(* Decimal is the function its recursive definition describes.              *)
LEMMA DecimalUnfolds ==
    \A n \in Nat : Decimal[n] = IF n < 10 THEN <<Zero + n>> ELSE Decimal[n \div 10] \o <<Zero + (n % 10)>>
<1> DEFINE To(n) == CHOOSE p : DecimalsTo(p, n)
           f == [n \in Nat |-> To(n)[n]]
<1>1. \A n \in Nat : DecimalsTo(To(n), n)
  BY DecimalsToExists
<1>2. ASSUME NEW n \in Nat PROVE f[n] = DecimalStep(f, n)
  <2>1. f[n] = DecimalStep(To(n), n)
    BY <1>1, DecimalsToAt
  <2>2. ASSUME NEW i \in 0 .. n - 1 PROVE f[i] = To(n)[i]
    <3>1. i \in Nat /\ i <= n /\ i <= i
      OBVIOUS
    <3>2. DecimalsTo(To(i), i) /\ DecimalsTo(To(n), n)
      BY <1>1, <3>1
    <3>3. f[i] = To(i)[i]
      BY <3>1
    <3> HIDE DEF f, To
    <3> QED BY <3>1, <3>2, <3>3, DecimalsToAgree
  <2> HIDE DEF f, To
  <2> QED BY <2>1, <2>2, DecimalStepAgrees
<1>3. f = [n \in Nat |-> DecimalStep(f, n)]
  <2> DEFINE g == [n \in Nat |-> DecimalStep(f, n)]
  <2>1. f = g
    BY <1>2
  <2> QED BY <2>1
<1>4. \E g : g = [n \in Nat |-> IF n < 10 THEN <<Zero + n>> ELSE g[n \div 10] \o <<Zero + (n % 10)>>]
  <2> HIDE DEF f
  <2> QED BY <1>3 DEF DecimalStep
<1>5. Decimal = [n \in Nat |-> IF n < 10 THEN <<Zero + n>> ELSE Decimal[n \div 10] \o <<Zero + (n % 10)>>]
  BY <1>4 DEF Decimal
<1> DEFINE g == [n \in Nat |-> IF n < 10 THEN <<Zero + n>> ELSE Decimal[n \div 10] \o <<Zero + (n % 10)>>]
<1>6. \A n \in Nat : g[n] = IF n < 10 THEN <<Zero + n>> ELSE Decimal[n \div 10] \o <<Zero + (n % 10)>>
  OBVIOUS
<1>7. Decimal = g
  BY <1>5
<1> HIDE DEF g
<1> QED BY <1>6, <1>7

(* What the first i digits of s are worth, from what i - 1 are.             *)
ValueStep(p, s, i) == IF i = 0 THEN 0 ELSE 10 * p[i - 1] + (s[i] - Zero)

(* What the first digits of s are worth, up to n of them.                   *)
ValuesTo(p, s, n)  == p = [i \in 0 .. n |-> ValueStep(p, s, i)]

(* What it is for one number of digits.                                     *)
LEMMA ValuesToAt ==
    ASSUME NEW s, NEW p, NEW n, ValuesTo(p, s, n), NEW i \in 0 .. n
    PROVE  p[i] = ValueStep(p, s, i)
<1> DEFINE q == [j \in 0 .. n |-> ValueStep(p, s, j)]
<1>1. q[i] = ValueStep(p, s, i)
  OBVIOUS
<1>2. p = q
  BY DEF ValuesTo
<1> QED BY <1>1, <1>2

(* It exists for every n.                                                   *)
LEMMA ValuesToExists ==
    ASSUME NEW s
    PROVE  \A n \in Nat : \E p : ValuesTo(p, s, n)
<1> DEFINE T == {n \in Nat : \E p : ValuesTo(p, s, n)}
<1>1. ASSUME NEW n \in Nat, NEW p, \A i \in 0 .. n - 1 : p[i] = ValueStep(p, s, i)
      PROVE  \E q : ValuesTo(q, s, n)
  <2> DEFINE q == [i \in 0 .. n |-> ValueStep(p, s, i)]
  <2>1. \A i \in 0 .. n - 1 : q[i] = p[i]
    BY <1>1
  <2>2. ASSUME NEW i \in 0 .. n PROVE ValueStep(p, s, i) = ValueStep(q, s, i)
    <3>1. i # 0 => p[i - 1] = q[i - 1]
      <4> HIDE DEF q
      <4> QED BY <2>1
    <3> HIDE DEF q
    <3> QED BY <3>1 DEF ValueStep
  <2>3. q = [i \in 0 .. n |-> ValueStep(q, s, i)]
    <3> DEFINE r == [i \in 0 .. n |-> ValueStep(q, s, i)]
    <3>1. q = r
      BY <2>2
    <3> QED BY <3>1
  <2>4. ValuesTo(q, s, n)
    <3> HIDE DEF q
    <3> QED BY <2>3 DEF ValuesTo
  <2> QED BY <2>4
<1>2. 0 \in T
  <2>1. \A i \in 0 .. 0 - 1 : <<>>[i] = ValueStep(<<>>, s, i)
    OBVIOUS
  <2> QED BY <1>1, <2>1
<1>3. ASSUME NEW n \in Nat, n \in T PROVE n + 1 \in T
  <2>1. PICK p : ValuesTo(p, s, n)
    BY <1>3
  <2>2. \A i \in 0 .. (n + 1) - 1 : p[i] = ValueStep(p, s, i)
    BY <2>1, ValuesToAt
  <2>3. \E q : ValuesTo(q, s, n + 1)
    BY <1>1, <2>2
  <2> QED BY <2>3
<1>4. \A n \in Nat : n \in T
  <2> HIDE DEF T
  <2> QED BY <1>2, <1>3, Induction
<1> QED BY <1>4

(* NumberOf gives what all the digits are worth.                            *)
LEMMA NumberOfIs ==
    ASSUME NEW s, Len(s) \in Nat
    PROVE  \E p : ValuesTo(p, s, Len(s)) /\ NumberOf(s) = p[Len(s)]
<1> DEFINE p == CHOOSE q : ValuesTo(q, s, Len(s))
<1>1. ValuesTo(p, s, Len(s))
  BY ValuesToExists
<1>2. NumberOf(s) = p[Len(s)]
  BY DEF NumberOf, ValuesTo, ValueStep
<1> QED BY <1>1, <1>2

(* No digits are worth 0.                                                   *)
LEMMA NumberOfEmpty == NumberOf(<<>>) = 0
<1>1. Len(<<>>) \in Nat /\ Len(<<>>) = 0
  BY LengthOfEmpty
<1>2. PICK p : ValuesTo(p, <<>>, Len(<<>>)) /\ NumberOf(<<>>) = p[Len(<<>>)]
  BY <1>1, NumberOfIs
<1>3. ValuesTo(p, <<>>, 0) /\ NumberOf(<<>>) = p[0]
  BY <1>1, <1>2
<1>4. p[0] = ValueStep(p, <<>>, 0)
  BY <1>3, ValuesToAt
<1> QED BY <1>3, <1>4 DEF ValueStep

(* One more digit.                                                          *)
LEMMA NumberOfAppend ==
    ASSUME NEW S, NEW s \in Seq(S), NEW d \in S
    PROVE  NumberOf(Append(s, d)) = 10 * NumberOf(s) + (d - Zero)
<1> DEFINE t == Append(s, d)
<1>1. Len(s) \in Nat /\ Len(t) = Len(s) + 1 /\ t[Len(s) + 1] = d /\ \A i \in 1 .. Len(s) : t[i] = s[i]
  BY LenProperties, AppendProperties
<1> HIDE DEF t
<1>2. PICK p : ValuesTo(p, s, Len(s)) /\ NumberOf(s) = p[Len(s)]
  BY <1>1, NumberOfIs
<1>3. PICK q : ValuesTo(q, t, Len(t)) /\ NumberOf(t) = q[Len(t)]
  BY <1>1, NumberOfIs
<1> DEFINE T == {i \in Nat : i <= Len(s) => p[i] = q[i]}
<1>4. 0 \in T
  <2>1. p[0] = ValueStep(p, s, 0) /\ q[0] = ValueStep(q, t, 0)
    BY <1>1, <1>2, <1>3, ValuesToAt
  <2> QED BY <2>1 DEF ValueStep
<1>5. ASSUME NEW i \in Nat, i \in T PROVE i + 1 \in T
  <2> SUFFICES ASSUME i + 1 <= Len(s) PROVE p[i + 1] = q[i + 1]
    OBVIOUS
  <2>1. p[i] = q[i] /\ t[i + 1] = s[i + 1]
    BY <1>1, <1>5
  <2>2. i + 1 \in 0 .. Len(s) /\ i + 1 \in 0 .. Len(t)
    BY <1>1
  <2>3. p[i + 1] = ValueStep(p, s, i + 1) /\ q[i + 1] = ValueStep(q, t, i + 1)
    BY <1>2, <1>3, <2>2, ValuesToAt
  <2>4. (i + 1) - 1 = i /\ i + 1 # 0
    OBVIOUS
  <2>5. ValueStep(p, s, i + 1) = 10 * p[i] + (s[i + 1] - Zero)
        /\ ValueStep(q, t, i + 1) = 10 * q[i] + (t[i + 1] - Zero)
    BY <2>4 DEF ValueStep
  <2> QED BY <2>1, <2>3, <2>5
<1>6. \A i \in Nat : i \in T
  <2> HIDE DEF T
  <2> QED BY <1>4, <1>5, Induction
<1>7. p[Len(s)] = q[Len(s)]
  BY <1>1, <1>6
<1>8. q[Len(s) + 1] = ValueStep(q, t, Len(s) + 1)
  BY <1>1, <1>3, ValuesToAt
<1>9. (Len(s) + 1) - 1 = Len(s) /\ Len(s) + 1 # 0
  BY <1>1
<1>10. ValueStep(q, t, Len(s) + 1) = 10 * q[Len(s)] + (d - Zero)
  BY <1>1, <1>9 DEF ValueStep
<1>11. NumberOf(t) = 10 * NumberOf(s) + (d - Zero)
  BY <1>1, <1>2, <1>3, <1>7, <1>8, <1>10
<1> QED BY <1>11 DEF t

(* To append an element is to append a sequence of one.                     *)
LEMMA Snoc1 ==
    ASSUME NEW S, NEW s \in Seq(S), NEW d \in S
    PROVE  s \o <<d>> = Append(s, d)
<1>1. <<d>> \in Seq(S) /\ Len(<<d>>) = 1 /\ <<d>>[1] = d
  OBVIOUS
<1>2. s \o <<d>> \in Seq(S) /\ Len(s \o <<d>>) = Len(s) + 1
      /\ \A i \in 1 .. Len(s) + 1 : (s \o <<d>>)[i] = IF i <= Len(s) THEN s[i] ELSE <<d>>[i - Len(s)]
  BY <1>1, ConcatProperties
<1>3. Append(s, d) \in Seq(S) /\ Len(Append(s, d)) = Len(s) + 1 /\ Append(s, d)[Len(s) + 1] = d
      /\ \A i \in 1 .. Len(s) : Append(s, d)[i] = s[i]
  BY AppendProperties
<1>4. Len(s) \in Nat
  BY LenProperties
<1>5. ASSUME NEW i \in 1 .. Len(s) + 1 PROVE (s \o <<d>>)[i] = Append(s, d)[i]
  <2>1. CASE i <= Len(s)
    BY <1>2, <1>3, <1>4, <2>1
  <2>2. CASE i = Len(s) + 1
    BY <1>1, <1>2, <1>3, <1>4, <2>2
  <2> QED BY <1>4, <2>1, <2>2
<1> QED BY <1>2, <1>3, <1>5, SeqEqual

(* A number in decimal is digits, without a leading zero, that are worth    *)
(* it.                                                                      *)
LEMMA DecimalIsNumber ==
    ASSUME NEW n \in Nat
    PROVE  /\ Decimal[n] \in Seq(Digit)
           /\ Len(Decimal[n]) # 0
           /\ NumberOf(Decimal[n]) = n
           /\ n # 0 => Decimal[n][1] # Zero
<1> DEFINE Good(k) == /\ Decimal[k] \in Seq(Digit)
                      /\ Len(Decimal[k]) # 0
                      /\ NumberOf(Decimal[k]) = k
                      /\ k # 0 => Decimal[k][1] # Zero
           T == {k \in Nat : Good(k)}
<1>1. ASSUME NEW k \in Nat, \A m \in 0 .. k - 1 : m \in T PROVE k \in T
  <2>1. CASE k < 10
    <3>1. Decimal[k] = <<Zero + k>>
      BY <2>1, DecimalUnfolds
    <3>2. Zero + k \in Digit
      BY <2>1 DEF Digit, Zero
    <3>3. <<Zero + k>> = Append(<<>>, Zero + k) /\ <<>> \in Seq(Digit)
      OBVIOUS
    <3>4. NumberOf(<<Zero + k>>) = 10 * NumberOf(<<>>) + ((Zero + k) - Zero)
      BY <3>2, <3>3, NumberOfAppend
    <3>5. NumberOf(<<Zero + k>>) = k
      BY <3>4, NumberOfEmpty DEF Zero
    <3>6. <<Zero + k>> \in Seq(Digit) /\ Len(<<Zero + k>>) # 0 /\ <<Zero + k>>[1] = Zero + k
      BY <3>2
    <3>7. k # 0 => Zero + k # Zero
      BY DEF Zero
    <3>8. Good(k)
      BY <3>1, <3>5, <3>6, <3>7
    <3> QED BY <3>8
  <2>2. CASE k >= 10
    <3>1. k \div 10 \in 0 .. k - 1 /\ k \div 10 >= 1 /\ k % 10 \in 0 .. 9 /\ 10 * (k \div 10) + (k % 10) = k
          /\ ~(k < 10)
      BY <2>2, Division
    <3>2. PICK h \in Nat : h = k \div 10
      BY <3>1
    <3>3. PICK d \in Digit : d = Zero + (k % 10)
      BY <3>1 DEF Digit, Zero
    <3>4. PICK s : s = Decimal[h]
      OBVIOUS
    <3>5. h \in T
      BY <1>1, <3>1, <3>2
    <3>6. s \in Seq(Digit) /\ Len(s) # 0 /\ NumberOf(s) = h /\ s[1] # Zero
      BY <3>1, <3>2, <3>4, <3>5
    <3>7. Decimal[k] = s \o <<d>>
      BY <3>1, <3>2, <3>3, <3>4, DecimalUnfolds
    <3>8. Decimal[k] = Append(s, d)
      BY <3>6, <3>7, Snoc1
    <3>9. NumberOf(Append(s, d)) = 10 * NumberOf(s) + (d - Zero)
      BY <3>6, NumberOfAppend
    <3>10. d - Zero = k % 10
      BY <3>1, <3>3 DEF Zero
    <3>11. NumberOf(Append(s, d)) = k
      BY <3>1, <3>2, <3>6, <3>9, <3>10
    <3>12. Append(s, d) \in Seq(Digit) /\ Len(Append(s, d)) = Len(s) + 1 /\ Len(s) \in Nat
           /\ \A i \in 1 .. Len(s) : Append(s, d)[i] = s[i]
      BY <3>6, AppendProperties, LenProperties
    <3>13. Append(s, d)[1] # Zero
      BY <3>6, <3>12
    <3>14. Good(k)
      BY <3>8, <3>11, <3>12, <3>13
    <3> QED BY <3>14
  <2> QED BY <2>1, <2>2
<1>2. \A k \in Nat : k \in T
  <2> HIDE DEF T
  <2> QED BY <1>1, StrongInduction
<1> QED BY <1>2

(* Digits are worth a number, and at least 1 if the first is no zero.       *)
LEMMA NumberOfDigits ==
    ASSUME NEW digits \in Seq(Digit)
    PROVE  NumberOf(digits) \in Nat /\ (Len(digits) # 0 /\ digits[1] # Zero => NumberOf(digits) >= 1)
<1> DEFINE Good(s) == NumberOf(s) \in Nat /\ (Len(s) # 0 /\ s[1] # Zero => NumberOf(s) >= 1)
           T == {n \in Nat : \A s \in Seq(Digit) : Len(s) = n => Good(s)}
<1>1. 0 \in T
  <2> SUFFICES ASSUME NEW s \in Seq(Digit), Len(s) = 0 PROVE Good(s)
    OBVIOUS
  <2>1. s = <<>>
    BY EmptySeq
  <2> QED BY <2>1, NumberOfEmpty
<1>2. ASSUME NEW n \in Nat, n \in T PROVE n + 1 \in T
  <2> SUFFICES ASSUME NEW s \in Seq(Digit), Len(s) = n + 1 PROVE Good(s)
    OBVIOUS
  <2>1. PICK f \in Seq(Digit), d \in Digit :
            s = Append(f, d) /\ Len(f) = Len(s) - 1 /\ d = s[Len(s)] /\ f = SubSeq(s, 1, Len(s) - 1)
    <3>1. Len(s) # 0
      OBVIOUS
    <3> QED BY <3>1, FrontAndLast
  <2>2. Len(f) = n
    BY <2>1
  <2>3. Good(f)
    BY <1>2, <2>2
  <2>4. NumberOf(s) = 10 * NumberOf(f) + (d - Zero)
    BY <2>1, NumberOfAppend
  <2>5. d - Zero \in 0 .. 9 /\ (d # Zero => d - Zero >= 1)
    BY DEF Digit, Zero
  <2>6. NumberOf(s) \in Nat
    BY <2>3, <2>4, <2>5
  <2>7. ASSUME s[1] # Zero PROVE NumberOf(s) >= 1
    <3>1. CASE n = 0
      <4>1. s[1] = d
        BY <2>1, <3>1
      <4> QED BY <4>1, <2>3, <2>4, <2>5, <2>7
    <3>2. CASE n # 0
      <4>1. s[1] = f[1]
        BY <2>1, <2>2, <3>2, AppendProperties
      <4>2. NumberOf(f) >= 1
        BY <2>2, <2>3, <2>7, <3>2, <4>1
      <4> QED BY <2>3, <2>4, <2>5, <4>2
    <3> QED BY <3>1, <3>2
  <2> QED BY <2>6, <2>7
<1>3. \A n \in Nat : n \in T
  <2> HIDE DEF T
  <2> QED BY <1>1, <1>2, Induction
<1>4. Len(digits) \in Nat
  BY LenProperties
<1>5. Len(digits) \in T
  <2> HIDE DEF T
  <2> QED BY <1>3, <1>4
<1> QED BY <1>5
-----------------------------------------------------------------------------
(* Pieces of the input.                                                     *)

(* Span counts what it should.                                              *)
LEMMA SpanIs ==
    ASSUME NEW T, NEW in \in Seq(T), NEW S
    PROVE  /\ Span(in, S) \in 0 .. Len(in)
           /\ \A i \in 1 .. Span(in, S) : in[i] \in S
           /\ Span(in, S) < Len(in) => in[Span(in, S) + 1] \notin S
<1> DEFINE Others == {i \in 1 .. Len(in) : in[i] \notin S}
           Ends(n) == (\A i \in 1 .. n : in[i] \in S) /\ (n < Len(in) => in[n + 1] \notin S)
<1>1. Len(in) \in Nat
  BY LenProperties
<1>2. \E n \in 0 .. Len(in) : Ends(n)
  <2>1. CASE Others = {}
    <3>1. Ends(Len(in)) /\ Len(in) \in 0 .. Len(in)
      BY <1>1, <2>1
    <3> QED BY <3>1
  <2>2. CASE Others # {}
    <3>1. Others \subseteq Nat
      BY <1>1
    <3>2. PICK m \in Others : \A i \in Others : m <= i
      <4> HIDE DEF Others
      <4> QED BY <2>2, <3>1, LeastElement
    <3>3. m \in 1 .. Len(in) /\ in[m] \notin S
      OBVIOUS
    <3>4. m - 1 \in 0 .. Len(in) /\ (m - 1) + 1 = m
      BY <1>1, <3>3
    <3>5. \A i \in 1 .. m - 1 : in[i] \in S
      BY <1>1, <3>2, <3>3
    <3>6. Ends(m - 1)
      BY <3>3, <3>4, <3>5
    <3> QED BY <3>4, <3>6
  <2> QED BY <2>1, <2>2
<1>3. Span(in, S) \in 0 .. Len(in) /\ Ends(Span(in, S))
  BY <1>2 DEF Span
<1> QED BY <1>3

(* No other number is the Span.                                             *)
LEMMA SpanIsOnly ==
    ASSUME NEW T, NEW in \in Seq(T), NEW S, NEW n \in 0 .. Len(in),
           \A i \in 1 .. n : in[i] \in S, n < Len(in) => in[n + 1] \notin S
    PROVE  Span(in, S) = n
<1>1. PICK m : m = Span(in, S)
  OBVIOUS
<1>2. m \in 0 .. Len(in) /\ (\A i \in 1 .. m : in[i] \in S) /\ (m < Len(in) => in[m + 1] \notin S)
  BY <1>1, SpanIs
<1>3. Len(in) \in Nat
  BY LenProperties
<1>4. ~(m < n)
  BY <1>2, <1>3
<1>5. ~(n < m)
  BY <1>2, <1>3
<1> QED BY <1>1, <1>2, <1>3, <1>4, <1>5

(* What From leaves of a sequence.                                          *)
LEMMA FromIs ==
    ASSUME NEW T, NEW in \in Seq(T), NEW i \in Nat, i # 0
    PROVE  /\ From(in, i) \in Seq(T)
           /\ i <= Len(in) => Len(From(in, i)) = Len(in) - i + 1
           /\ i > Len(in) => From(in, i) = <<>>
           /\ \A j \in 1 .. Len(in) - i + 1 : From(in, i)[j] = in[i + j - 1]
<1>1. Len(in) \in Nat
  BY LenProperties
<1>2. \A j \in i .. Len(in) : in[j] \in T
  BY <1>1, ElementOfSeq
<1>3. From(in, i) \in Seq(T)
  BY <1>1, <1>2, SubSeqProperties DEF From
<1>4. i <= Len(in) => Len(From(in, i)) = Len(in) - i + 1
  BY <1>1, <1>2, SubSeqProperties DEF From
<1>5. \A j \in 1 .. Len(in) - i + 1 : From(in, i)[j] = in[i + j - 1]
  BY <1>1, <1>2, SubSeqProperties DEF From
<1>6. i > Len(in) => From(in, i) = <<>>
  BY <1>1, SubSeqEmpty DEF From
<1> QED BY <1>3, <1>4, <1>5, <1>6

(* Two sequences put together are found again.                              *)
LEMMA SplitConcat ==
    ASSUME NEW T, NEW a \in Seq(T), NEW b \in Seq(T)
    PROVE  SubSeq(a \o b, 1, Len(a)) = a /\ From(a \o b, Len(a) + 1) = b
<1>1. Len(a) \in Nat /\ Len(b) \in Nat
  BY LenProperties
<1>2. a \o b \in Seq(T) /\ Len(a \o b) = Len(a) + Len(b)
      /\ \A i \in 1 .. Len(a) + Len(b) : (a \o b)[i] = IF i <= Len(a) THEN a[i] ELSE b[i - Len(a)]
  BY ConcatProperties
<1>3. PICK c : c = a \o b
  OBVIOUS
<1>4. c \in Seq(T) /\ Len(c) = Len(a) + Len(b)
      /\ \A i \in 1 .. Len(a) + Len(b) : c[i] = IF i <= Len(a) THEN a[i] ELSE b[i - Len(a)]
  BY <1>2, <1>3
<1>5. SubSeq(c, 1, Len(a)) = a
  <2>1. \A i \in 1 .. Len(a) : c[i] \in T
    BY <1>1, <1>4, ElementOfSeq
  <2>2. PICK s : s = SubSeq(c, 1, Len(a))
    OBVIOUS
  <2>3. s \in Seq(T) /\ Len(s) = (IF 1 <= Len(a) THEN Len(a) - 1 + 1 ELSE 0)
        /\ \A i \in 1 .. Len(a) - 1 + 1 : s[i] = c[1 + i - 1]
    BY <1>1, <2>1, <2>2, SubSeqProperties
  <2>4. Len(s) = Len(a)
    BY <1>1, <2>3
  <2>5. ASSUME NEW i \in 1 .. Len(s) PROVE s[i] = a[i]
    <3>1. i \in 1 .. Len(a) /\ i \in 1 .. Len(a) - 1 + 1 /\ i \in 1 .. Len(a) + Len(b) /\ 1 + i - 1 = i
      BY <1>1, <2>4
    <3> QED BY <1>4, <2>3, <3>1
  <2>6. s = a
    BY <2>3, <2>4, <2>5, SeqEqual
  <2> QED BY <2>2, <2>6
<1>6. From(c, Len(a) + 1) = b
  <2>1. PICK s : s = From(c, Len(a) + 1)
    OBVIOUS
  <2>2. Len(a) + 1 \in Nat /\ Len(a) + 1 # 0
    BY <1>1
  <2>3. s \in Seq(T)
        /\ (Len(a) + 1 <= Len(c) => Len(s) = Len(c) - (Len(a) + 1) + 1)
        /\ (Len(a) + 1 > Len(c) => s = <<>>)
        /\ \A j \in 1 .. Len(c) - (Len(a) + 1) + 1 : s[j] = c[(Len(a) + 1) + j - 1]
    BY <1>4, <2>1, <2>2, FromIs
  <2>4. Len(s) = Len(b)
    <3>1. CASE Len(b) = 0
      <4>1. s = <<>>
        BY <1>1, <1>4, <2>3, <3>1
      <4> QED BY <4>1, <3>1, LengthOfEmpty
    <3>2. CASE Len(b) # 0
      BY <1>1, <1>4, <2>3, <3>2
    <3> QED BY <3>1, <3>2
  <2>5. ASSUME NEW j \in 1 .. Len(s) PROVE s[j] = b[j]
    <3>1. j \in 1 .. Len(c) - (Len(a) + 1) + 1 /\ (Len(a) + 1) + j - 1 = Len(a) + j
      BY <1>1, <1>4, <2>4
    <3>2. s[j] = c[Len(a) + j]
      BY <2>3, <3>1
    <3>3. Len(a) + j \in 1 .. Len(a) + Len(b) /\ ~(Len(a) + j <= Len(a)) /\ (Len(a) + j) - Len(a) = j
      BY <1>1, <2>4
    <3> QED BY <1>4, <3>2, <3>3
  <2>6. s = b
    BY <2>3, <2>4, <2>5, SeqEqual
  <2> QED BY <2>1, <2>6
<1> QED BY <1>3, <1>5, <1>6

(* From the first byte on there is everything.                              *)
LEMMA FromFirst ==
    ASSUME NEW T, NEW in \in Seq(T)
    PROVE  From(in, 1) = in
<1>1. Len(in) \in Nat
  BY LenProperties
<1> QED BY SubSeqFull DEF From

(* To skip spaces leaves a part of the input.                               *)
LEMMA SkipSpacesType ==
    ASSUME NEW T, NEW in \in Seq(T)
    PROVE  SkipSpaces(in) \in Seq(T) /\ Len(SkipSpaces(in)) <= Len(in)
<1>1. PICK n : n = Span(in, Blank)
  OBVIOUS
<1>2. n \in 0 .. Len(in) /\ Len(in) \in Nat
  BY <1>1, SpanIs, LenProperties
<1>3. n + 1 \in Nat /\ n + 1 # 0
  BY <1>2
<1>4. PICK s : s = From(in, n + 1)
  OBVIOUS
<1>5. s \in Seq(T) /\ (n + 1 <= Len(in) => Len(s) = Len(in) - (n + 1) + 1) /\ (n + 1 > Len(in) => s = <<>>)
  BY <1>3, <1>4, FromIs
<1>6. Len(s) <= Len(in)
  <2>1. CASE n + 1 <= Len(in)
    BY <1>2, <1>5, <2>1
  <2>2. CASE n + 1 > Len(in)
    BY <1>2, <1>5, <2>2, LengthOfEmpty
  <2> QED BY <1>2, <2>1, <2>2
<1> QED BY <1>1, <1>4, <1>5, <1>6 DEF SkipSpaces

(* Nothing is skipped before a byte that is no space.                       *)
LEMMA NothingToSkip ==
    ASSUME NEW T, NEW in \in Seq(T), Len(in) # 0 => in[1] \notin Blank
    PROVE  SkipSpaces(in) = in
<1>1. Len(in) \in Nat
  BY LenProperties
<1>2. 0 \in 0 .. Len(in) /\ (\A i \in 1 .. 0 : in[i] \in Blank) /\ (0 < Len(in) => in[0 + 1] \notin Blank)
  BY <1>1
<1>3. Span(in, Blank) = 0
  BY <1>2, SpanIsOnly
<1>4. SkipSpaces(in) = From(in, 1)
  BY <1>3 DEF SkipSpaces
<1> QED BY <1>4, FromFirst

(* A line's end reads as a newline once its space is skipped.               *)
LEMMA EndOfLine ==
    ASSUME NEW rest \in Seq(Byte)
    PROVE  /\ EOL \o rest \in Seq(Byte)
           /\ SkipSpaces(EOL \o rest) = <<LF>> \o rest
           /\ <<LF>> \o rest # <<>>
           /\ (<<LF>> \o rest)[1] = LF
           /\ From(<<LF>> \o rest, 2) = rest
           /\ Len(EOL \o rest) # 0
           /\ (EOL \o rest)[1] = CR
<1>1. <<LF>> \in Seq(Byte) /\ <<CR>> \in Seq(Byte) /\ EOL \in Seq(Byte) /\ Len(<<LF>>) = 1
      /\ Len(<<CR>>) = 1 /\ Len(EOL) = 2
  BY DEF LF, CR, EOL, Byte
<1>2. Len(rest) \in Nat
  BY LenProperties
<1>3. PICK t : t = <<LF>> \o rest
  OBVIOUS
<1>4. t \in Seq(Byte) /\ Len(t) = 1 + Len(rest)
      /\ \A i \in 1 .. 1 + Len(rest) : t[i] = IF i <= 1 THEN <<LF>>[i] ELSE rest[i - 1]
  BY <1>1, <1>3, ConcatProperties
<1>5. t[1] = LF
  BY <1>2, <1>4
<1>6. From(t, 2) = rest
  <2>1. From(<<LF>> \o rest, Len(<<LF>>) + 1) = rest
    BY <1>1, SplitConcat
  <2> QED BY <1>1, <1>3, <2>1
<1>7. PICK in : in = EOL \o rest
  OBVIOUS
<1>8. in = <<CR>> \o t
  <2>1. EOL = <<CR>> \o <<LF>>
    BY DEF EOL
  <2>2. (<<CR>> \o <<LF>>) \o rest = <<CR>> \o (<<LF>> \o rest)
    <3>1. Regroups(<<CR>>, <<LF>>, rest)
      BY <1>1, Associates
    <3> QED BY <3>1, Zenon DEF Regroups
  <2> QED BY <1>3, <1>7, <2>1, <2>2
<1>9. in \in Seq(Byte) /\ Len(in) = 1 + Len(t)
      /\ \A i \in 1 .. 1 + Len(t) : in[i] = IF i <= 1 THEN <<CR>>[i] ELSE t[i - 1]
  BY <1>1, <1>4, <1>8, ConcatProperties
<1>10. in[1] = CR /\ in[2] = LF
  BY <1>2, <1>4, <1>5, <1>9
<1>11. CR \in Blank /\ LF \notin Blank
  BY DEF CR, LF, Blank
<1>12. Span(in, Blank) = 1
  <2>1. 1 \in 0 .. Len(in)
    BY <1>2, <1>4, <1>9
  <2>2. \A i \in 1 .. 1 : in[i] \in Blank
    BY <1>10, <1>11
  <2>3. in[1 + 1] \notin Blank
    BY <1>10, <1>11
  <2> QED BY <1>9, <2>1, <2>2, <2>3, SpanIsOnly
<1>13. SkipSpaces(in) = t
  <2>1. From(<<CR>> \o t, Len(<<CR>>) + 1) = t
    BY <1>1, <1>4, SplitConcat
  <2> QED BY <1>1, <1>8, <1>12, <2>1 DEF SkipSpaces
<1>14. t # <<>>
  BY <1>2, <1>4, NotEmpty
<1>15. Len(in) # 0
  BY <1>2, <1>4, <1>9
<1> QED BY <1>3, <1>5, <1>6, <1>7, <1>9, <1>10, <1>13, <1>14, <1>15

(* What follows a number's digits: nothing, a part of a line's end, or a    *)
(* whole one.                                                               *)
LineEnds(t, rest) == (t \in {<<>>, <<CR>>} /\ rest = <<>>) \/ t = EOL \o rest

(* Whichever it is, the rest is what the reader goes on with.               *)
LEMMA LineEnd ==
    ASSUME NEW rest \in Seq(Byte), NEW t, LineEnds(t, rest)
    PROVE  /\ t \in Seq(Byte)
           /\ Len(t) # 0 => t[1] \notin Digit
           /\ SkipSpaces(t) = <<>> \/ (SkipSpaces(t) # <<>> /\ SkipSpaces(t)[1] = LF)
           /\ From(SkipSpaces(t), 2) = rest
<1>1. CR \notin Digit /\ CR \in Byte /\ CR \in Blank
  BY DEF CR, Digit, Zero, Byte, Blank
<1>2. <<>> \in Seq(Byte) /\ Len(<<>>) = 0 /\ From(<<>>, 2) = <<>> /\ From(<<>>, 1) = <<>>
  <2>1. <<>> \in Seq(Byte) /\ Len(<<>>) = 0
    BY EmptySeq
  <2>2. 2 \in Nat /\ 2 # 0 /\ 2 > 0 /\ 1 \in Nat /\ 1 # 0 /\ 1 > 0
    OBVIOUS
  <2> QED BY <2>1, <2>2, FromIs
<1>3. CASE t = <<>> /\ rest = <<>>
  <2>1. SkipSpaces(t) = <<>>
    BY <1>2, <1>3, NothingToSkip
  <2> QED BY <1>2, <1>3, <2>1
<1>4. CASE t = <<CR>> /\ rest = <<>>
  <2>1. t \in Seq(Byte) /\ Len(t) = 1 /\ t[1] = CR
    BY <1>1, <1>4
  <2>2. Span(t, Blank) = 1
    <3>1. 1 \in 0 .. Len(t) /\ (\A i \in 1 .. 1 : t[i] \in Blank) /\ ~(1 < Len(t))
      BY <1>1, <2>1
    <3> QED BY <2>1, <3>1, SpanIsOnly
  <2>3. SkipSpaces(t) = From(t, 2)
    BY <2>2 DEF SkipSpaces
  <2>4. From(t, 2) = <<>>
    <3>1. 2 \in Nat /\ 2 # 0 /\ 2 > Len(t)
      BY <2>1
    <3> QED BY <2>1, <3>1, FromIs
  <2> QED BY <1>1, <1>2, <1>4, <2>1, <2>3, <2>4
<1>5. CASE t = EOL \o rest
  BY <1>1, <1>5, EndOfLine
<1> QED BY <1>3, <1>4, <1>5 DEF LineEnds
-----------------------------------------------------------------------------
(* Numbers that are read.                                                   *)

(* The digits end where the line does.                                      *)
LEMMA DigitsThenEnd ==
    ASSUME NEW d \in Seq(Digit), Len(d) # 0, NEW rest \in Seq(Byte), NEW t, LineEnds(t, rest)
    PROVE  /\ d \o t \in Seq(Byte) /\ Len(d \o t) # 0
           /\ (d \o t)[1] \in Digit
           /\ Span(d \o t, Digit) = Len(d)
           /\ SubSeq(d \o t, 1, Len(d)) = d
           /\ From(d \o t, Len(d) + 1) = t
<1>1. t \in Seq(Byte) /\ (Len(t) # 0 => t[1] \notin Digit)
  BY LineEnd
<1>2. d \in Seq(Byte) /\ Len(d) \in Nat /\ Len(t) \in Nat
  <2>1. Digit \subseteq Byte
    BY DEF Digit, Byte, Zero
  <2> QED BY <1>1, <2>1, SeqMonotonic, LenProperties
<1>3. PICK in : in = d \o t
  OBVIOUS
<1>4. in \in Seq(Byte) /\ Len(in) = Len(d) + Len(t)
      /\ \A i \in 1 .. Len(d) + Len(t) : in[i] = IF i <= Len(d) THEN d[i] ELSE t[i - Len(d)]
  BY <1>1, <1>2, <1>3, ConcatProperties
<1>5. \A i \in 1 .. Len(d) : in[i] \in Digit
  <2>1. \A i \in 1 .. Len(d) : d[i] \in Digit
    BY ElementOfSeq
  <2> QED BY <1>2, <1>4, <2>1
<1>6. Span(in, Digit) = Len(d)
  <2>1. Len(d) \in 0 .. Len(in)
    BY <1>2, <1>4
  <2>2. ASSUME Len(d) < Len(in) PROVE in[Len(d) + 1] \notin Digit
    <3>1. Len(in) = Len(d) + Len(t)
      BY ONLY <1>4
    <3>2. Len(d) + 1 \in 1 .. Len(d) + Len(t) /\ ~(Len(d) + 1 <= Len(d)) /\ (Len(d) + 1) - Len(d) = 1 /\ Len(t) # 0
      BY ONLY <1>2, <2>2, <3>1
    <3>3. in[Len(d) + 1] = t[1]
      BY ONLY <1>4, <3>2
    <3> QED BY <1>1, <3>2, <3>3
  <2> QED BY <1>4, <1>5, <2>1, <2>2, SpanIsOnly
<1>7. SubSeq(in, 1, Len(d)) = d /\ From(in, Len(d) + 1) = t
  BY <1>1, <1>2, <1>3, SplitConcat
<1>8. in[1] \in Digit /\ Len(in) # 0
  BY <1>2, <1>4, <1>5
<1> QED BY <1>3, <1>4, <1>6, <1>7, <1>8

(* ReadNumber of digits and a line end.                                     *)
LEMMA ReadDigits ==
    ASSUME NEW d \in Seq(Digit), Len(d) # 0, NEW rest \in Seq(Byte), NEW t, LineEnds(t, rest)
    PROVE  ReadNumber(d \o t) = Read(NumberOf(d), rest)
<1>1. PICK in : in = d \o t
  OBVIOUS
<1>2. in \in Seq(Byte) /\ Len(in) # 0 /\ in[1] \in Digit /\ Span(in, Digit) = Len(d)
      /\ SubSeq(in, 1, Len(d)) = d /\ From(in, Len(d) + 1) = t
  BY <1>1, DigitsThenEnd
<1>3. in[1] \notin Blank /\ in[1] \notin {Plus, Minus}
  <2>1. \A x \in Digit : x \notin Blank /\ x \notin {Plus, Minus}
    BY DEF Digit, Zero, Blank, CR, Plus, Minus
  <2> QED BY <1>2, <2>1
<1>4. SkipSpaces(in) = in
  BY <1>2, <1>3, NothingToSkip
<1>5. SkipSpaces(t) = <<>> \/ (SkipSpaces(t) # <<>> /\ SkipSpaces(t)[1] = LF)
  BY LineEnd
<1>6. From(SkipSpaces(t), 2) = rest
  BY LineEnd
<1>7. ReadNumber(in) = Read(NumberOf(d), rest)
  BY <1>2, <1>3, <1>4, <1>5, <1>6 DEF ReadNumber
<1> QED BY <1>1, <1>7

(* ReadNumber of a minus, digits and a line end.                            *)
LEMMA ReadMinusDigits ==
    ASSUME NEW d \in Seq(Digit), Len(d) # 0, NEW rest \in Seq(Byte), NEW t, LineEnds(t, rest)
    PROVE  ReadNumber(<<Minus>> \o (d \o t)) = Read(-NumberOf(d), rest)
<1>1. PICK digits : digits = d \o t
  OBVIOUS
<1>2. digits \in Seq(Byte) /\ Len(digits) # 0 /\ Span(digits, Digit) = Len(d)
      /\ SubSeq(digits, 1, Len(d)) = d /\ From(digits, Len(d) + 1) = t
  BY <1>1, DigitsThenEnd
<1>3. <<Minus>> \in Seq(Byte) /\ Len(<<Minus>>) = 1 /\ <<Minus>>[1] = Minus
  BY DEF Minus, Byte
<1>4. PICK in : in = <<Minus>> \o digits
  OBVIOUS
<1>5. in \in Seq(Byte) /\ Len(in) = 1 + Len(digits) /\ in[1] = Minus
  <2>1. Len(digits) \in Nat
    BY <1>2, LenProperties
  <2> QED BY <1>2, <1>3, <1>4, <2>1, ConcatProperties
<1>6. From(in, 2) = digits
  <2>1. From(<<Minus>> \o digits, Len(<<Minus>>) + 1) = digits
    BY <1>2, <1>3, SplitConcat
  <2> QED BY <1>3, <1>4, <2>1
<1>7. in[1] \notin Blank /\ in[1] \in {Plus, Minus}
  BY <1>5 DEF Blank, CR, Plus, Minus
<1>8. SkipSpaces(in) = in
  BY <1>5, <1>7, NothingToSkip
<1>9. in # <<>>
  <2>1. Len(digits) \in Nat
    BY <1>2, LenProperties
  <2>2. Len(in) # 0
    BY <1>5, <2>1
  <2> QED BY <2>2, NotEmpty
<1>10. SkipSpaces(t) = <<>> \/ (SkipSpaces(t) # <<>> /\ SkipSpaces(t)[1] = LF)
  BY LineEnd
<1>11. From(SkipSpaces(t), 2) = rest
  BY LineEnd
<1>12. ReadNumber(in) = Read(-NumberOf(d), rest)
  BY <1>2, <1>5, <1>6, <1>7, <1>8, <1>9, <1>10, <1>11 DEF ReadNumber
<1> QED BY <1>1, <1>4, <1>12

(* A number is written as bytes.                                            *)
LEMMA NumberType ==
    ASSUME NEW n \in Int
    PROVE  Number(n) \in Seq(Byte) /\ Len(Number(n)) # 0
<1>1. Digit \subseteq Byte
  BY DEF Digit, Byte, Zero
<1>2. CASE n < 0
  <2>1. PICK d : d = Decimal[-n]
    OBVIOUS
  <2>2. d \in Seq(Digit) /\ Len(d) \in Nat
    BY <1>2, <2>1, DecimalIsNumber, LenProperties
  <2>3. d \in Seq(Byte)
    BY <1>1, <2>2, SeqMonotonic
  <2>4. <<Minus>> \in Seq(Byte) /\ Len(<<Minus>>) = 1
    BY DEF Minus, Byte
  <2>5. <<Minus>> \o d \in Seq(Byte) /\ Len(<<Minus>> \o d) = 1 + Len(d)
    BY <2>3, <2>4, ConcatProperties
  <2> QED BY <1>2, <2>1, <2>2, <2>5 DEF Number
<1>3. CASE n >= 0
  <2>1. PICK d : d = Decimal[n]
    OBVIOUS
  <2>2. d \in Seq(Digit) /\ Len(d) # 0
    BY <1>3, <2>1, DecimalIsNumber
  <2>3. d \in Seq(Byte)
    BY <1>1, <2>2, SeqMonotonic
  <2> QED BY <1>3, <2>1, <2>2, <2>3 DEF Number
<1> QED BY <1>2, <1>3

(* A number that is written is the number read, and the rest is left.       *)
LEMMA NumberReadBack ==
    ASSUME NEW n \in Int, NEW rest \in Seq(Byte), NEW t, LineEnds(t, rest)
    PROVE  ReadNumber(Number(n) \o t) = Read(n, rest)
<1>1. Digit \subseteq Byte
  BY DEF Digit, Byte, Zero
<1>2. t \in Seq(Byte)
  BY LineEnd
<1>3. CASE n < 0
  <2>1. PICK d : d = Decimal[-n]
    OBVIOUS
  <2>2. d \in Seq(Digit) /\ Len(d) # 0 /\ NumberOf(d) = -n
    BY <1>3, <2>1, DecimalIsNumber
  <2>3. d \in Seq(Byte)
    BY <1>1, <2>2, SeqMonotonic
  <2>4. <<Minus>> \in Seq(Byte)
    BY DEF Minus, Byte
  <2>5. (<<Minus>> \o d) \o t = <<Minus>> \o (d \o t)
    <3>1. Regroups(<<Minus>>, d, t)
      BY <1>2, <2>3, <2>4, Associates
    <3> QED BY <3>1, Zenon DEF Regroups
  <2>6. ReadNumber(<<Minus>> \o (d \o t)) = Read(-NumberOf(d), rest)
    BY <2>2, ReadMinusDigits
  <2>7. -NumberOf(d) = n
    BY <2>2
  <2> QED BY <1>3, <2>1, <2>5, <2>6, <2>7 DEF Number
<1>4. CASE n >= 0
  <2>1. PICK d : d = Decimal[n]
    OBVIOUS
  <2>2. d \in Seq(Digit) /\ Len(d) # 0 /\ NumberOf(d) = n
    BY <1>4, <2>1, DecimalIsNumber
  <2>3. ReadNumber(d \o t) = Read(NumberOf(d), rest)
    BY <2>2, ReadDigits
  <2> QED BY <1>4, <2>1, <2>2, <2>3 DEF Number
<1> QED BY <1>3, <1>4
-----------------------------------------------------------------------------
(* Every reader fails, or leaves a part of its input.                       *)

(* An answer leaves a part of the input.                                    *)
Leaves(r, in) == r.ok => r.rest \in Seq(Byte) /\ Len(r.rest) <= Len(in)

(* From gives a sequence no longer than the whole.                          *)
LEMMA FromType ==
    ASSUME NEW T, NEW in \in Seq(T), NEW i \in Nat, i # 0
    PROVE  From(in, i) \in Seq(T) /\ Len(From(in, i)) <= Len(in)
<1>1. PICK s : s = From(in, i)
  OBVIOUS
<1>2. s \in Seq(T) /\ (i <= Len(in) => Len(s) = Len(in) - i + 1) /\ (i > Len(in) => s = <<>>)
  BY <1>1, FromIs
<1>3. Len(in) \in Nat
  BY LenProperties
<1>4. Len(s) <= Len(in)
  <2>1. CASE i <= Len(in)
    BY <1>2, <1>3, <2>1
  <2>2. CASE i > Len(in)
    BY <1>2, <1>3, <2>2, LengthOfEmpty
  <2> QED BY <1>3, <2>1, <2>2
<1> QED BY <1>1, <1>2, <1>4

(* The fields of an answer.                                                 *)
LEMMA ReadOk ==
    ASSUME NEW v, NEW rest
    PROVE  Read(v, rest).ok /\ Read(v, rest).value = v /\ Read(v, rest).rest = rest /\ ~Failed.ok
BY DEF Read, Failed

(* The first n elements of a sequence.                                      *)
LEMMA BeginningType ==
    ASSUME NEW T, NEW in \in Seq(T), NEW n \in 0 .. Len(in)
    PROVE  SubSeq(in, 1, n) \in Seq(T) /\ Len(SubSeq(in, 1, n)) = n
           /\ \A i \in 1 .. n : SubSeq(in, 1, n)[i] = in[i]
<1>1. Len(in) \in Nat
  BY LenProperties
<1>2. \A i \in 1 .. n : in[i] \in T
  BY <1>1, ElementOfSeq
<1>3. PICK s : s = SubSeq(in, 1, n)
  OBVIOUS
<1>4. s \in Seq(T) /\ Len(s) = (IF 1 <= n THEN n - 1 + 1 ELSE 0) /\ \A i \in 1 .. n - 1 + 1 : s[i] = in[1 + i - 1]
  BY <1>1, <1>2, <1>3, SubSeqProperties
<1>5. Len(s) = n
  BY <1>1, <1>4
<1>6. ASSUME NEW i \in 1 .. n PROVE s[i] = in[i]
  <2>1. i \in 1 .. n - 1 + 1 /\ 1 + i - 1 = i
    BY <1>1
  <2> QED BY <1>4, <2>1
<1> QED BY <1>3, <1>4, <1>5, <1>6

(* ReadNumber fails, or reads a number and leaves a part of the input.      *)
LEMMA ReadNumberType ==
    ASSUME NEW in \in Seq(Byte)
    PROVE  /\ ReadNumber(in) = Failed \/ \E n \in Int, rest \in Seq(Byte) : ReadNumber(in) = Read(n, rest)
           /\ Leaves(ReadNumber(in), in)
<1>1. PICK text : text = SkipSpaces(in)
  OBVIOUS
<1>2. text \in Seq(Byte) /\ Len(text) <= Len(in) /\ Len(text) \in Nat /\ Len(in) \in Nat
  BY <1>1, SkipSpacesType, LenProperties
<1>3. PICK signed \in BOOLEAN : signed = (text # <<>> /\ text[1] \in {Plus, Minus})
  OBVIOUS
<1>4. PICK digits : digits = IF signed THEN From(text, 2) ELSE text
  OBVIOUS
<1>5. digits \in Seq(Byte) /\ Len(digits) <= Len(in) /\ Len(digits) \in Nat
  <2>1. From(text, 2) \in Seq(Byte) /\ Len(From(text, 2)) <= Len(text)
    BY <1>2, FromType
  <2>2. digits \in Seq(Byte) /\ Len(digits) <= Len(text)
    BY <1>2, <1>4, <2>1
  <2> QED BY <1>2, <2>2, LenProperties
<1>6. PICK n : n = Span(digits, Digit)
  OBVIOUS
<1>7. n \in 0 .. Len(digits) /\ \A i \in 1 .. n : digits[i] \in Digit
  BY <1>5, <1>6, SpanIs
<1>8. PICK d : d = SubSeq(digits, 1, n)
  OBVIOUS
<1>9. d \in Seq(Byte) /\ Len(d) = n /\ \A i \in 1 .. n : d[i] = digits[i]
  BY <1>5, <1>7, <1>8, BeginningType
<1>10. d \in Seq(Digit)
  <2>1. \A i \in 1 .. n : digits[i] \in Digit
    BY <1>7
  <2> QED BY <1>5, <1>7, <1>8, <2>1, SubSeqProperties
<1>11. NumberOf(d) \in Nat
  BY <1>10, NumberOfDigits
<1>12. PICK rest : rest = SkipSpaces(From(digits, n + 1))
  OBVIOUS
<1>13. rest \in Seq(Byte) /\ Len(rest) <= Len(in) /\ Len(rest) \in Nat
  <2>1. n + 1 \in Nat /\ n + 1 # 0
    BY <1>5, <1>7
  <2>2. PICK more : more = From(digits, n + 1)
    OBVIOUS
  <2>3. more \in Seq(Byte) /\ Len(more) <= Len(digits)
    BY <1>5, <2>1, <2>2, FromType
  <2>4. rest \in Seq(Byte) /\ Len(rest) <= Len(more)
    BY <1>12, <2>2, <2>3, SkipSpacesType
  <2>5. Len(rest) \in Nat /\ Len(more) \in Nat
    BY <2>3, <2>4, LenProperties
  <2> QED BY <1>2, <1>5, <2>3, <2>4, <2>5
<1>14. PICK last : last = From(rest, 2)
  OBVIOUS
<1>15. last \in Seq(Byte) /\ Len(last) <= Len(in)
  <2>1. last \in Seq(Byte) /\ Len(last) <= Len(rest)
    BY <1>13, <1>14, FromType
  <2>2. Len(last) \in Nat
    BY <2>1, LenProperties
  <2> QED BY <1>2, <1>13, <2>1, <2>2
<1>16. PICK number \in Int : number = IF signed /\ text[1] = Minus THEN -NumberOf(d) ELSE NumberOf(d)
  BY <1>11
<1>17. ReadNumber(in) = IF n = 0 \/ (rest # <<>> /\ rest[1] # LF) THEN Failed ELSE Read(number, last)
  BY <1>1, <1>3, <1>4, <1>6, <1>8, <1>12, <1>14, <1>16 DEF ReadNumber
<1>18. CASE ReadNumber(in) = Failed
  BY <1>18, ReadOk DEF Leaves
<1>19. CASE ReadNumber(in) = Read(number, last)
  <2>1. Leaves(ReadNumber(in), in)
    BY <1>15, <1>19, ReadOk DEF Leaves
  <2> QED BY <1>15, <1>19, <2>1
<1> QED BY <1>17, <1>18, <1>19

(* ReadLine fails, or reads bytes and leaves a part of the input.           *)
LEMMA ReadLineType ==
    ASSUME NEW in \in Seq(Byte)
    PROVE  /\ ReadLine(in) = Failed \/ \E s \in Seq(Byte), rest \in Seq(Byte) : ReadLine(in) = Read(s, rest)
           /\ Leaves(ReadLine(in), in)
<1>1. PICK n : n = Span(in, Byte \ {LF})
  OBVIOUS
<1>2. n \in 0 .. Len(in) /\ Len(in) \in Nat
  BY <1>1, SpanIs, LenProperties
<1>3. CASE n \in {0, Len(in)}
  <2>1. ReadLine(in) = Failed
    BY <1>1, <1>3 DEF ReadLine
  <2> QED BY <2>1, ReadOk DEF Leaves
<1>4. CASE n \notin {0, Len(in)}
  <2>1. PICK s : s = SubSeq(in, 1, n - 1)
    OBVIOUS
  <2>2. PICK rest : rest = From(in, n + 2)
    OBVIOUS
  <2>3. n - 1 \in 0 .. Len(in) /\ n + 2 \in Nat /\ n + 2 # 0
    BY <1>2, <1>4
  <2>4. s \in Seq(Byte)
    BY <2>1, <2>3, BeginningType
  <2>5. rest \in Seq(Byte) /\ Len(rest) <= Len(in)
    BY <2>2, <2>3, FromType
  <2>6. ReadLine(in) = Read(s, rest)
    BY <1>1, <1>4, <2>1, <2>2 DEF ReadLine
  <2>7. Leaves(ReadLine(in), in)
    BY <2>5, <2>6, ReadOk DEF Leaves
  <2> QED BY <2>4, <2>5, <2>6, <2>7
<1> QED BY <1>3, <1>4

(* A failure, or a value and at most n bytes that are left.                 *)
Answer(r, n) == r = Failed \/ \E v, rest : r = Read(v, rest) /\ rest \in Seq(Byte) /\ Len(rest) <= n

(* The inputs of fewer than n bytes.                                        *)
Short(n)       == {t \in Seq(Byte) : Len(t) < n}

(* g and h are the same on those inputs.                                    *)
Agree(g, h, n) == \A t \in Short(n) : g[t] = h[t]

(* On those inputs g never leaves more than it was given.                   *)
Tame(g, n)     == \A t \in Short(n) : \A c \in Nat : Answer(g[t][c], Len(t))

(* Items, with the function it refers to as a parameter, written out.       *)
ItemsStep(g, in) ==
    [count \in Nat |->
        IF count = 0 THEN Read(<<>>, in)
        ELSE LET first == ParseWith(g, in)
             IN  IF ~first.ok THEN Failed
                 ELSE LET others == g[first.rest][count - 1]
                      IN  IF others.ok THEN Read(<<first.value>> \o others.value, others.rest) ELSE Failed]

(* To read a value is an answer.                                            *)
LEMMA AnswerRead ==
    ASSUME NEW v, NEW n \in Nat, NEW rest \in Seq(Byte), Len(rest) <= n
    PROVE  Answer(Read(v, rest), n)
BY DEF Answer

(* To fail is an answer.                                                    *)
LEMMA AnswerFailed ==
    ASSUME NEW n
    PROVE  Answer(Failed, n)
BY DEF Answer

(* An answer that is no failure has a value and a rest.                     *)
LEMMA AnswerOk ==
    ASSUME NEW r, NEW n, Answer(r, n), r.ok
    PROVE  r = Read(r.value, r.rest) /\ r.rest \in Seq(Byte) /\ Len(r.rest) <= n
<1>1. r # Failed
  BY ReadOk
<1>2. PICK v, rest : r = Read(v, rest) /\ rest \in Seq(Byte) /\ Len(rest) <= n
  BY <1>1 DEF Answer
<1>3. r.value = v /\ r.rest = rest
  BY <1>2, ReadOk
<1> QED BY <1>2, <1>3

(* An answer that leaves at most m bytes leaves at most n, if m is no more. *)
LEMMA AnswerMore ==
    ASSUME NEW r, NEW m \in Int, NEW n \in Int, Answer(r, m), m <= n
    PROVE  Answer(r, n)
<1>1. CASE r = Failed
  BY <1>1, AnswerFailed
<1>2. CASE r # Failed
  <2>1. PICK v, rest : r = Read(v, rest) /\ rest \in Seq(Byte) /\ Len(rest) <= m
    BY <1>2 DEF Answer
  <2>2. Len(rest) \in Nat
    BY <2>1, LenProperties
  <2>3. Len(rest) <= n
    BY <2>1, <2>2
  <2> QED BY <2>1, <2>3 DEF Answer
<1> QED BY <1>1, <1>2

(* parseSimpleString and parseError answer.                                 *)
LEMMA ParseLineAnswer ==
    ASSUME NEW in \in Seq(Byte), NEW type
    PROVE  Answer(ParseLine(type, in), Len(in))
<1>1. PICK line : line = ReadLine(in)
  OBVIOUS
<1>2. line.ok => line.rest \in Seq(Byte) /\ Len(line.rest) <= Len(in)
  BY <1>1, ReadLineType DEF Leaves
<1>3. Len(in) \in Nat
  BY LenProperties
<1>4. CASE line.ok
  <2>1. ParseLine(type, in) = Read(RESPValue(type, FALSE, line.value, <<>>), line.rest)
    BY <1>1, <1>4 DEF ParseLine
  <2> QED BY <1>2, <1>3, <1>4, <2>1, AnswerRead
<1>5. CASE ~line.ok
  <2>1. ParseLine(type, in) = Failed
    BY <1>1, <1>5 DEF ParseLine
  <2> QED BY <2>1, AnswerFailed
<1> QED BY <1>4, <1>5

(* parseInteger answers.                                                    *)
LEMMA ParseIntegerAnswer ==
    ASSUME NEW in \in Seq(Byte)
    PROVE  Answer(ParseInteger(in), Len(in))
<1>1. PICK n : n = ReadNumber(in)
  OBVIOUS
<1>2. n.ok => n.rest \in Seq(Byte) /\ Len(n.rest) <= Len(in)
  BY <1>1, ReadNumberType DEF Leaves
<1>3. Len(in) \in Nat
  BY LenProperties
<1>4. CASE n.ok
  <2>1. ParseInteger(in) = Read(Integer(n.value), n.rest)
    BY <1>1, <1>4 DEF ParseInteger
  <2> QED BY <1>2, <1>3, <1>4, <2>1, AnswerRead
<1>5. CASE ~n.ok
  <2>1. ParseInteger(in) = Failed
    BY <1>1, <1>5 DEF ParseInteger
  <2> QED BY <2>1, AnswerFailed
<1> QED BY <1>4, <1>5

(* The fields of a number that is read.                                     *)
LEMMA ReadNumberOk ==
    ASSUME NEW in \in Seq(Byte), NEW n, n = ReadNumber(in), n.ok
    PROVE  n.value \in Int /\ n.rest \in Seq(Byte) /\ Len(n.rest) <= Len(in)
<1>1. n # Failed
  BY ReadOk
<1>2. PICK v \in Int, rest \in Seq(Byte) : n = Read(v, rest)
  BY <1>1, ReadNumberType
<1>3. n.value = v
  BY <1>2, ReadOk
<1>4. n.rest \in Seq(Byte) /\ Len(n.rest) <= Len(in)
  BY ReadNumberType DEF Leaves
<1> QED BY <1>3, <1>4

(* parseBulkString answers.                                                 *)
LEMMA ParseBulkAnswer ==
    ASSUME NEW in \in Seq(Byte)
    PROVE  Answer(ParseBulkString(in), Len(in))
<1>1. PICK n : n = ReadNumber(in)
  OBVIOUS
<1>2. Len(in) \in Nat
  BY LenProperties
<1>3. n.ok => n.value \in Int /\ n.rest \in Seq(Byte) /\ Len(n.rest) <= Len(in)
  BY <1>1, ReadNumberOk
<1>4. CASE n.ok /\ n.value = -1
  <2>1. ParseBulkString(in) = Read(NullBulkString, n.rest)
    BY <1>1, <1>4 DEF ParseBulkString
  <2> QED BY <1>2, <1>3, <1>4, <2>1, AnswerRead
<1>5. CASE n.ok /\ n.value # -1 /\ ~(n.value < -1 \/ Len(n.rest) < n.value + 2)
  <2>1. PICK more : more = From(n.rest, n.value + 3)
    OBVIOUS
  <2>2. ParseBulkString(in) = Read(BulkString(SubSeq(n.rest, 1, n.value)), more)
    BY <1>1, <1>5, <2>1 DEF ParseBulkString
  <2>3. n.value + 3 \in Nat /\ n.value + 3 # 0
    BY <1>3, <1>5
  <2>4. more \in Seq(Byte) /\ Len(more) <= Len(n.rest)
    BY <1>3, <1>5, <2>1, <2>3, FromType
  <2>5. Len(more) \in Nat /\ Len(n.rest) \in Nat
    BY <1>3, <1>5, <2>4, LenProperties
  <2>6. Len(more) <= Len(in)
    BY <1>2, <1>3, <1>5, <2>4, <2>5
  <2> QED BY <1>2, <2>2, <2>4, <2>6, AnswerRead
<1>6. CASE ~n.ok \/ (n.value # -1 /\ (n.value < -1 \/ Len(n.rest) < n.value + 2))
  <2>1. ParseBulkString(in) = Failed
    BY <1>1, <1>6 DEF ParseBulkString
  <2> QED BY <2>1, AnswerFailed
<1> QED BY <1>4, <1>5, <1>6

(* parseArray asks for the items of inputs no longer than its own.          *)
LEMMA ParseArraySame ==
    ASSUME NEW in \in Seq(Byte), NEW g, NEW h, NEW m \in Nat, Len(in) < m, Agree(g, h, m)
    PROVE  ParseArray(in, g) = ParseArray(in, h)
<1>1. PICK n : n = ReadNumber(in)
  OBVIOUS
<1>2. CASE n.ok /\ n.value # -1 /\ ~(n.value < -1)
  <2>1. n.rest \in Seq(Byte) /\ Len(n.rest) <= Len(in)
    BY <1>1, <1>2, ReadNumberOk
  <2>2. Len(n.rest) \in Nat /\ Len(in) \in Nat
    BY <2>1, LenProperties
  <2>3. Len(n.rest) < m
    BY <2>1, <2>2
  <2>4. g[n.rest] = h[n.rest]
    BY <2>1, <2>3 DEF Agree, Short
  <2> QED BY <1>1, <1>2, <2>4 DEF ParseArray
<1>3. CASE ~(n.ok /\ n.value # -1 /\ ~(n.value < -1))
  BY <1>1, <1>3 DEF ParseArray
<1> QED BY <1>2, <1>3

(* parseArray answers when its items do.                                    *)
LEMMA ParseArrayAnswer ==
    ASSUME NEW in \in Seq(Byte), NEW g, NEW m \in Nat, Len(in) < m, Tame(g, m)
    PROVE  Answer(ParseArray(in, g), Len(in))
<1>1. PICK n : n = ReadNumber(in)
  OBVIOUS
<1>2. Len(in) \in Nat
  BY LenProperties
<1>3. n.ok => n.value \in Int /\ n.rest \in Seq(Byte) /\ Len(n.rest) <= Len(in)
  BY <1>1, ReadNumberOk
<1>4. CASE n.ok /\ n.value = -1
  <2>1. ParseArray(in, g) = Read(NullArray, n.rest)
    BY <1>1, <1>4 DEF ParseArray
  <2> QED BY <1>2, <1>3, <1>4, <2>1, AnswerRead
<1>5. CASE n.ok /\ n.value # -1 /\ ~(n.value < -1)
  <2>1. PICK r : r = g[n.rest][n.value]
    OBVIOUS
  <2>2. Len(n.rest) \in Nat
    BY <1>3, <1>5, LenProperties
  <2>3. Len(n.rest) < m /\ n.value \in Nat
    BY <1>2, <1>3, <1>5, <2>2
  <2>4. Answer(r, Len(n.rest))
    BY <1>3, <1>5, <2>1, <2>3 DEF Tame, Short
  <2>5. CASE r.ok
    <3>1. ParseArray(in, g) = Read(Array(r.value), r.rest)
      BY <1>1, <1>5, <2>1, <2>5 DEF ParseArray
    <3>2. r.rest \in Seq(Byte) /\ Len(r.rest) <= Len(n.rest)
      BY <2>4, <2>5, AnswerOk
    <3>3. Len(r.rest) \in Nat
      BY <3>2, LenProperties
    <3>4. Len(r.rest) <= Len(in)
      BY <1>2, <1>3, <1>5, <2>2, <3>2, <3>3
    <3> QED BY <1>2, <3>1, <3>2, <3>4, AnswerRead
  <2>6. CASE ~r.ok
    <3>1. ParseArray(in, g) = Failed
      BY <1>1, <1>5, <2>1, <2>6 DEF ParseArray
    <3> QED BY <3>1, AnswerFailed
  <2> QED BY <2>5, <2>6
<1>6. CASE ~n.ok \/ (n.value # -1 /\ n.value < -1)
  <2>1. ParseArray(in, g) = Failed
    BY <1>1, <1>6 DEF ParseArray
  <2> QED BY <2>1, AnswerFailed
<1> QED BY <1>4, <1>5, <1>6

(* What is behind the first byte.                                           *)
LEMMA Rest ==
    ASSUME NEW in \in Seq(Byte), Len(in) # 0
    PROVE  From(in, 2) \in Seq(Byte) /\ Len(From(in, 2)) = Len(in) - 1 /\ Len(in) - 1 \in Nat /\ in[1] \in Byte
<1>1. Len(in) \in Nat
  BY LenProperties
<1>2. CASE Len(in) = 1
  <2>1. 2 > Len(in) /\ Len(in) - 1 = 0
    BY <1>2
  <2>2. From(in, 2) = <<>>
    BY <2>1, FromIs
  <2>3. From(in, 2) \in Seq(Byte)
    BY FromType
  <2> QED BY <1>2, <2>1, <2>2, <2>3, LengthOfEmpty, ElementOfSeq
<1>3. CASE Len(in) > 1
  <2>1. 2 <= Len(in) /\ Len(in) - 2 + 1 = Len(in) - 1
    BY <1>1, <1>3
  <2>2. From(in, 2) \in Seq(Byte)
    BY FromType
  <2>4. \A i \in Nat : i # 0 /\ i <= Len(in) => Len(From(in, i)) = Len(in) - i + 1
    BY FromIs
  <2>5. Len(From(in, 2)) = Len(in) - 2 + 1
    <3>1. PICK i \in Nat : i = 2
      OBVIOUS
    <3>2. i # 0 /\ i <= Len(in)
      BY <2>1, <3>1
    <3>3. Len(From(in, i)) = Len(in) - i + 1
      BY <2>4, <3>2
    <3> QED BY <3>1, <3>3
  <2>3. 1 \in 1 .. Len(in) /\ Len(in) - 1 \in Nat
    BY <1>1, <1>3
  <2> QED BY <2>1, <2>2, <2>3, <2>5, ElementOfSeq
<1>4. Len(in) = 1 \/ Len(in) > 1
  BY <1>1
<1> QED BY <1>2, <1>3, <1>4

(* Parse asks for the items of inputs that are shorter than its own.        *)
LEMMA ParseSame ==
    ASSUME NEW in \in Seq(Byte), NEW g, NEW h, Agree(g, h, Len(in))
    PROVE  ParseWith(g, in) = ParseWith(h, in)
<1>1. CASE in = <<>>
  BY <1>1 DEF ParseWith
<1>2. CASE in # <<>>
  <2>1. Len(in) # 0 /\ Len(in) \in Nat
    BY <1>2, EmptyIff
  <2>2. PICK rest : rest = From(in, 2)
    OBVIOUS
  <2>3. rest \in Seq(Byte) /\ Len(rest) = Len(in) - 1
    BY <2>1, <2>2, Rest
  <2>4. Len(rest) < Len(in)
    BY <2>1, <2>3
  <2>5. ParseArray(rest, g) = ParseArray(rest, h)
    BY <2>1, <2>3, <2>4, ParseArraySame
  <2> QED BY <2>2, <2>5 DEF ParseWith
<1> QED BY <1>1, <1>2

(* Parse takes at least one byte.                                           *)
LEMMA ParseAnswer ==
    ASSUME NEW in \in Seq(Byte), NEW g, Tame(g, Len(in))
    PROVE  Answer(ParseWith(g, in), Len(in) - 1)
<1>1. CASE in = <<>>
  <2>1. ParseWith(g, in) = Failed
    BY <1>1 DEF ParseWith
  <2> QED BY <2>1, AnswerFailed
<1>2. CASE in # <<>>
  <2>1. Len(in) # 0 /\ Len(in) \in Nat
    BY <1>2, EmptyIff
  <2>2. PICK rest : rest = From(in, 2)
    OBVIOUS
  <2>3. rest \in Seq(Byte) /\ Len(rest) = Len(in) - 1
    BY <2>1, <2>2, Rest
  <2>4. Len(rest) < Len(in)
    BY <2>1, <2>3
  <2>5. Answer(ParseArray(rest, g), Len(rest))
    BY <2>1, <2>3, <2>4, ParseArrayAnswer
  <2>6. Answer(ParseLine(in[1], rest), Len(rest)) /\ Answer(ParseInteger(rest), Len(rest))
        /\ Answer(ParseBulkString(rest), Len(rest)) /\ Answer(Failed, Len(rest))
    BY <2>3, ParseLineAnswer, ParseIntegerAnswer, ParseBulkAnswer, AnswerFailed
  <2>7. ParseWith(g, in) \in {ParseArray(rest, g), ParseLine(in[1], rest), ParseInteger(rest), ParseBulkString(rest), Failed}
    BY <1>2, <2>2 DEF ParseWith
  <2>8. Answer(ParseWith(g, in), Len(rest))
    BY <2>5, <2>6, <2>7
  <2> QED BY <2>3, <2>8
<1> QED BY <1>1, <1>2

(* Items of an input depend on those of shorter inputs only.                *)
LEMMA ItemsStepSame ==
    ASSUME NEW in \in Seq(Byte), NEW g, NEW h, Tame(g, Len(in)), Agree(g, h, Len(in))
    PROVE  ItemsStep(g, in) = ItemsStep(h, in)
<1>1. PICK first : first = ParseWith(g, in)
  OBVIOUS
<1>2. first = ParseWith(h, in)
  BY <1>1, ParseSame
<1>3. Answer(first, Len(in) - 1)
  BY <1>1, ParseAnswer
<1>4. first.ok => g[first.rest] = h[first.rest]
  <2> SUFFICES ASSUME first.ok PROVE g[first.rest] = h[first.rest]
    OBVIOUS
  <2>1. first.rest \in Seq(Byte) /\ Len(first.rest) <= Len(in) - 1
    BY <1>3, AnswerOk
  <2>2. Len(first.rest) \in Nat /\ Len(in) \in Nat
    BY <2>1, LenProperties
  <2>3. Len(first.rest) < Len(in)
    BY <2>1, <2>2
  <2> QED BY <2>1, <2>3 DEF Agree, Short
<1> QED BY <1>1, <1>2, <1>4 DEF ItemsStep

(* Items take no byte twice.                                                *)
LEMMA ItemsStepAnswer ==
    ASSUME NEW in \in Seq(Byte), NEW g, Tame(g, Len(in)), NEW count \in Nat
    PROVE  Answer(ItemsStep(g, in)[count], Len(in))
<1>1. PICK first : first = ParseWith(g, in)
  OBVIOUS
<1>2. Answer(first, Len(in) - 1)
  BY <1>1, ParseAnswer
<1>3. PICK others : others = g[first.rest][count - 1]
  OBVIOUS
<1>4. ItemsStep(g, in)[count] =
        IF count = 0 THEN Read(<<>>, in)
        ELSE IF ~first.ok THEN Failed
        ELSE IF others.ok THEN Read(<<first.value>> \o others.value, others.rest) ELSE Failed
  BY <1>1, <1>3 DEF ItemsStep
<1>5. Len(in) \in Nat
  BY LenProperties
<1>6. CASE count = 0
  <2>1. ItemsStep(g, in)[count] = Read(<<>>, in)
    BY <1>4, <1>6
  <2>2. Len(in) <= Len(in)
    BY <1>5
  <2> QED BY <1>5, <2>1, <2>2, AnswerRead
<1>7. CASE count # 0 /\ first.ok /\ others.ok
  <2>1. ItemsStep(g, in)[count] = Read(<<first.value>> \o others.value, others.rest)
    BY <1>4, <1>7
  <2>2. first.rest \in Seq(Byte) /\ Len(first.rest) <= Len(in) - 1
    BY <1>2, <1>7, AnswerOk
  <2>3. Len(first.rest) \in Nat
    BY <2>2, LenProperties
  <2>4. Len(first.rest) < Len(in) /\ count - 1 \in Nat
    BY <1>5, <1>7, <2>2, <2>3
  <2>5. Answer(others, Len(first.rest))
    BY <1>3, <2>2, <2>4 DEF Tame, Short
  <2>6. others.rest \in Seq(Byte) /\ Len(others.rest) <= Len(first.rest)
    BY <1>7, <2>5, AnswerOk
  <2>7. Len(others.rest) \in Nat
    BY <2>6, LenProperties
  <2>8. Len(others.rest) <= Len(in)
    BY <1>5, <2>3, <2>4, <2>6, <2>7
  <2> QED BY <1>5, <2>1, <2>6, <2>8, AnswerRead
<1>8. CASE count # 0 /\ ~(first.ok /\ others.ok)
  <2>1. ItemsStep(g, in)[count] = Failed
    BY <1>4, <1>8
  <2> QED BY <2>1, AnswerFailed
<1> QED BY <1>6, <1>7, <1>8
-----------------------------------------------------------------------------
(* Items and Parse: the recursion takes a byte each time.                   *)

(* The items of the inputs shorter than n, as a function.                   *)
ItemsTo(g, n) == g = [t \in Short(n) |-> ItemsStep(g, t)]

(* g is as the definition of Items demands, on those inputs.                *)
Solves(g, n)  == \A t \in Short(n) : g[t] = ItemsStep(g, t)

(* Such a function is as the definition demands.                            *)
LEMMA ItemsToSolves ==
    ASSUME NEW g, NEW n, ItemsTo(g, n)
    PROVE  Solves(g, n)
<1> DEFINE q == [t \in Short(n) |-> ItemsStep(g, t)]
<1>1. \A t \in Short(n) : q[t] = ItemsStep(g, t)
  OBVIOUS
<1>2. g = q
  BY DEF ItemsTo
<1> HIDE DEF q
<1> QED BY <1>1, <1>2 DEF Solves

(* What a short input is.                                                   *)
LEMMA ShortType ==
    ASSUME NEW n \in Nat, NEW t \in Short(n)
    PROVE  t \in Seq(Byte) /\ Len(t) \in Nat /\ Len(t) < n
<1>1. t \in Seq(Byte) /\ Len(t) < n
  BY DEF Short
<1>2. Len(t) \in Nat
  BY <1>1, LenProperties
<1> QED BY <1>1, <1>2

(* An input shorter than m is shorter than n, if m is no more.              *)
LEMMA ShortMore ==
    ASSUME NEW m \in Nat, NEW n \in Nat, m <= n
    PROVE  Short(m) \subseteq Short(n)
<1> SUFFICES ASSUME NEW t \in Short(m) PROVE t \in Short(n)
  OBVIOUS
<1>1. t \in Seq(Byte) /\ Len(t) \in Nat /\ Len(t) < m
  BY ShortType
<1>2. Len(t) < n
  BY <1>1
<1> QED BY <1>1, <1>2 DEF Short

(* No input is shorter than nothing.                                        *)
LEMMA NothingShorter == Short(0) = {}
<1> SUFFICES ASSUME NEW t \in Short(0) PROVE FALSE
  OBVIOUS
<1>1. Len(t) \in Nat /\ Len(t) < 0
  BY ShortType
<1> QED BY <1>1

(* Solves, for fewer inputs.                                                *)
LEMMA SolvesLess ==
    ASSUME NEW m \in Nat, NEW n \in Nat, m <= n, NEW g, Solves(g, n)
    PROVE  Solves(g, m)
BY ShortMore DEF Solves

(* Tame, for fewer inputs.                                                  *)
LEMMA TameLess ==
    ASSUME NEW m \in Nat, NEW n \in Nat, m <= n, NEW g, Tame(g, n)
    PROVE  Tame(g, m)
BY ShortMore DEF Tame

(* Agree, for fewer inputs.                                                 *)
LEMMA AgreeLess ==
    ASSUME NEW m \in Nat, NEW n \in Nat, m <= n, NEW g, NEW h, Agree(g, h, n)
    PROVE  Agree(g, h, m)
BY ShortMore DEF Agree

(* What the definition of Items demands never leaves more than it was       *)
(* given.                                                                   *)
LEMMA SolvesTame ==
    ASSUME NEW n \in Nat, NEW g, Solves(g, n)
    PROVE  Tame(g, n)
<1> DEFINE T == {k \in Nat : k <= n => Tame(g, k)}
<1>1. 0 \in T
  BY NothingShorter DEF Tame
<1>2. ASSUME NEW k \in Nat, k \in T PROVE k + 1 \in T
  <2> SUFFICES ASSUME k + 1 <= n PROVE Tame(g, k + 1)
    OBVIOUS
  <2>1. k <= n
    OBVIOUS
  <2>2. Tame(g, k)
    BY <1>2, <2>1
  <2>3. ASSUME NEW t \in Short(k + 1), NEW c \in Nat PROVE Answer(g[t][c], Len(t))
    <3>1. t \in Seq(Byte) /\ Len(t) \in Nat /\ Len(t) < k + 1
      BY ShortType
    <3>2. Len(t) <= k
      BY <3>1
    <3>3. Tame(g, Len(t))
      BY <2>2, <3>1, <3>2, TameLess
    <3>4. t \in Short(n)
      BY ShortMore
    <3>5. g[t] = ItemsStep(g, t)
      BY <3>4 DEF Solves
    <3>6. Answer(ItemsStep(g, t)[c], Len(t))
      BY <3>1, <3>3, ItemsStepAnswer
    <3> QED BY <3>5, <3>6
  <2> QED BY <2>3 DEF Tame
<1>3. \A k \in Nat : k \in T
  <2> HIDE DEF T
  <2> QED BY <1>1, <1>2, Induction
<1> QED BY <1>3

(* The definition of Items demands one function only.                       *)
LEMMA SolutionsAgree ==
    ASSUME NEW n \in Nat, NEW g, NEW h, Solves(g, n), Solves(h, n)
    PROVE  Agree(g, h, n)
<1> DEFINE T == {k \in Nat : k <= n => Agree(g, h, k)}
<1>1. 0 \in T
  BY NothingShorter DEF Agree
<1>2. ASSUME NEW k \in Nat, k \in T PROVE k + 1 \in T
  <2> SUFFICES ASSUME k + 1 <= n PROVE Agree(g, h, k + 1)
    OBVIOUS
  <2>1. k <= n
    OBVIOUS
  <2>2. Agree(g, h, k)
    BY <1>2, <2>1
  <2>3. ASSUME NEW t \in Short(k + 1) PROVE g[t] = h[t]
    <3>1. t \in Seq(Byte) /\ Len(t) \in Nat /\ Len(t) < k + 1
      BY ShortType
    <3>2. Len(t) <= k /\ Len(t) <= n
      BY <3>1
    <3>3. Agree(g, h, Len(t))
      BY <2>2, <3>1, <3>2, AgreeLess
    <3>4. Tame(g, Len(t))
      BY <3>1, <3>2, SolvesTame, TameLess
    <3>5. t \in Short(n)
      BY ShortMore
    <3>6. g[t] = ItemsStep(g, t) /\ h[t] = ItemsStep(h, t)
      BY <3>5 DEF Solves
    <3>7. ItemsStep(g, t) = ItemsStep(h, t)
      BY <3>1, <3>3, <3>4, ItemsStepSame
    <3> QED BY <3>6, <3>7
  <2> QED BY <2>3 DEF Agree
<1>3. \A k \in Nat : k \in T
  <2> HIDE DEF T
  <2> QED BY <1>1, <1>2, Induction
<1> QED BY <1>3

(* It can be extended to inputs one byte longer.                            *)
LEMMA ItemsToNext ==
    ASSUME NEW n \in Nat, NEW g, Solves(g, n)
    PROVE  \E h : ItemsTo(h, n + 1)
<1> DEFINE h == [t \in Short(n + 1) |-> ItemsStep(g, t)]
<1>1. \A t \in Short(n + 1) : h[t] = ItemsStep(g, t)
  OBVIOUS
<1>2. Short(n) \subseteq Short(n + 1)
  <2>1. n <= n + 1 /\ n + 1 \in Nat
    OBVIOUS
  <2> QED BY <2>1, ShortMore
<1>3. Agree(g, h, n)
  <2> HIDE DEF h
  <2> QED BY <1>1, <1>2 DEF Agree, Solves
<1>4. ASSUME NEW t \in Short(n + 1) PROVE ItemsStep(g, t) = ItemsStep(h, t)
  <2> HIDE DEF h
  <2>1. t \in Seq(Byte) /\ Len(t) \in Nat /\ Len(t) < n + 1
    BY ShortType
  <2>2. Len(t) <= n
    BY <2>1
  <2>3. Agree(g, h, Len(t)) /\ Tame(g, Len(t))
    BY <1>3, <2>1, <2>2, AgreeLess, SolvesTame, TameLess
  <2> QED BY <2>1, <2>3, ItemsStepSame
<1>5. h = [t \in Short(n + 1) |-> ItemsStep(h, t)]
  <2> DEFINE r == [t \in Short(n + 1) |-> ItemsStep(h, t)]
  <2>1. h = r
    BY <1>4
  <2> QED BY <2>1
<1>6. ItemsTo(h, n + 1)
  <2> HIDE DEF h
  <2> QED BY <1>5 DEF ItemsTo
<1> QED BY <1>6

(* It exists for every length.                                              *)
LEMMA ItemsToExists ==
    \A n \in Nat : \E g : ItemsTo(g, n)
<1> DEFINE T == {n \in Nat : \E g : ItemsTo(g, n)}
<1>1. 0 \in T
  <2>1. <<>> = [t \in Short(0) |-> ItemsStep(<<>>, t)]
    BY NothingShorter
  <2>2. ItemsTo(<<>>, 0)
    BY <2>1 DEF ItemsTo
  <2> QED BY <2>2
<1>2. ASSUME NEW n \in Nat, n \in T PROVE n + 1 \in T
  <2>1. PICK g : ItemsTo(g, n)
    BY <1>2
  <2>2. \E h : ItemsTo(h, n + 1)
    BY <2>1, ItemsToSolves, ItemsToNext
  <2> QED BY <2>2
<1>3. \A n \in Nat : n \in T
  <2> HIDE DEF T
  <2> QED BY <1>1, <1>2, Induction
<1> QED BY <1>3

(* Items is the function its recursive definition describes.                *)
LEMMA ItemsUnfold ==
    \A in \in Seq(Byte) : Items[in] = ItemsStep(Items, in)
<1> DEFINE To(n) == CHOOSE g : ItemsTo(g, n)
           f == [t \in Seq(Byte) |-> To(Len(t) + 1)[t]]
<1>1. \A n \in Nat : Solves(To(n), n)
  <2>1. \A n \in Nat : ItemsTo(To(n), n)
    BY ItemsToExists
  <2> HIDE DEF To
  <2> QED BY <2>1, ItemsToSolves
<1>2. \A t \in Seq(Byte) : f[t] = To(Len(t) + 1)[t]
  OBVIOUS
<1>3. ASSUME NEW n \in Nat PROVE Agree(To(n), f, n)
  <2> HIDE DEF To, f
  <2>1. ASSUME NEW t \in Short(n) PROVE To(n)[t] = f[t]
    <3>1. t \in Seq(Byte) /\ Len(t) \in Nat /\ Len(t) < n
      BY ShortType
    <3>2. PICK k \in Nat : k = Len(t) + 1
      BY <3>1
    <3>3. k <= n /\ Len(t) < k
      BY <3>1, <3>2
    <3>4. Solves(To(k), k) /\ Solves(To(n), n)
      BY <1>1
    <3>5. Agree(To(k), To(n), k)
      BY <3>3, <3>4, SolvesLess, SolutionsAgree
    <3>6. t \in Short(k)
      BY <3>1, <3>3 DEF Short
    <3>7. To(k)[t] = To(n)[t]
      BY <3>5, <3>6 DEF Agree
    <3> QED BY <1>2, <3>1, <3>2, <3>7
  <2> QED BY <2>1 DEF Agree
<1>4. ASSUME NEW t \in Seq(Byte) PROVE f[t] = ItemsStep(f, t)
  <2> HIDE DEF To, f
  <2>1. Len(t) \in Nat
    BY LenProperties
  <2>2. PICK k \in Nat : k = Len(t) + 1
    BY <2>1
  <2>3. Len(t) <= k /\ Len(t) < k
    BY <2>1, <2>2
  <2>4. t \in Short(k)
    BY <2>3 DEF Short
  <2>5. f[t] = ItemsStep(To(k), t)
    BY <1>1, <1>2, <2>2, <2>4 DEF Solves
  <2>6. Tame(To(k), Len(t)) /\ Agree(To(k), f, Len(t))
    BY <1>1, <1>3, <2>1, <2>3, SolvesTame, TameLess, AgreeLess
  <2>7. ItemsStep(To(k), t) = ItemsStep(f, t)
    BY <2>6, ItemsStepSame
  <2> QED BY <2>5, <2>7
<1>5. f = [t \in Seq(Byte) |-> ItemsStep(f, t)]
  <2> DEFINE g == [t \in Seq(Byte) |-> ItemsStep(f, t)]
  <2>1. f = g
    BY <1>4
  <2> QED BY <2>1
<1>6. \E g : g = [t \in Seq(Byte) |-> ItemsStep(g, t)]
  <2> HIDE DEF f
  <2> QED BY <1>5
<1>7. Items = [t \in Seq(Byte) |-> ItemsStep(Items, t)]
  BY <1>6 DEF Items, ItemAnd, ItemsStep
<1> DEFINE g == [t \in Seq(Byte) |-> ItemsStep(Items, t)]
<1>8. \A t \in Seq(Byte) : g[t] = ItemsStep(Items, t)
  OBVIOUS
<1>9. Items = g
  BY <1>7
<1> HIDE DEF g
<1> QED BY <1>8, <1>9

(* Items never leave more than they were given.                             *)
LEMMA ItemsTame ==
    ASSUME NEW n \in Nat
    PROVE  Tame(Items, n)
<1>1. Solves(Items, n)
  BY ItemsUnfold DEF Solves, Short
<1> QED BY <1>1, SolvesTame

(* Parse answers, and takes at least one byte.                              *)
LEMMA ParseReads ==
    ASSUME NEW in \in Seq(Byte)
    PROVE  Answer(Parse(in), Len(in) - 1)
<1>1. Len(in) \in Nat
  BY LenProperties
<1>2. Tame(Items, Len(in))
  BY <1>1, ItemsTame
<1> QED BY <1>2, ParseAnswer DEF Parse

(* So the loop of RebuildStoreFromAOF moves on.                             *)
LEMMA ParseMove ==
    ASSUME NEW in \in Seq(Byte), Parse(in).ok
    PROVE  /\ Parse(in).rest \in Seq(Byte)
           /\ Len(Parse(in).rest) \in Nat
           /\ Len(Parse(in).rest) < Len(in)
<1>1. PICK r : r = Parse(in)
  OBVIOUS
<1>2. r.rest \in Seq(Byte) /\ Len(r.rest) <= Len(in) - 1
  BY <1>1, ParseReads, AnswerOk
<1>3. Len(r.rest) \in Nat /\ Len(in) \in Nat
  BY <1>2, LenProperties
<1>4. Len(r.rest) < Len(in)
  BY <1>2, <1>3
<1> QED BY <1>1, <1>2, <1>3, <1>4
-----------------------------------------------------------------------------
(* What is parsed.                                                          *)

(* The values that Parse returns.                                           *)
Parsed == {Parse(t).value : t \in {t \in Seq(Byte) : Parse(t).ok}}

(* What a value has to be for a command to be made of it.                   *)
Usable(v) ==
    /\ v.type \in {Dollar, Plus} => v.data \in Seq(Byte)
    /\ v.type = Star => v.items \in Seq(Parsed)

(* No items at all.                                                         *)
LEMMA ItemsNone ==
    ASSUME NEW in \in Seq(Byte)
    PROVE  Items[in][0] = Read(<<>>, in)
<1>1. 0 \in Nat
  OBVIOUS
<1> QED BY <1>1, ItemsUnfold DEF ItemsStep

(* One item and the others.                                                 *)
LEMMA ItemsMore ==
    ASSUME NEW in \in Seq(Byte), NEW c \in Nat
    PROVE  Items[in][c + 1] =
              IF ~Parse(in).ok THEN Failed
              ELSE IF Items[Parse(in).rest][c].ok
                   THEN Read(<<Parse(in).value>> \o Items[Parse(in).rest][c].value, Items[Parse(in).rest][c].rest)
                   ELSE Failed
<1>1. PICK d \in Nat : d = c + 1
  OBVIOUS
<1>2. d # 0 /\ d - 1 = c
  BY <1>1
<1>3. Items[in] = ItemsStep(Items, in)
  BY ItemsUnfold
<1>4. ItemsStep(Items, in)[d] =
              IF ~Parse(in).ok THEN Failed
              ELSE IF Items[Parse(in).rest][d - 1].ok
                   THEN Read(<<Parse(in).value>> \o Items[Parse(in).rest][d - 1].value, Items[Parse(in).rest][d - 1].rest)
                   ELSE Failed
  BY <1>2 DEF ItemsStep, Parse
<1> QED BY <1>1, <1>2, <1>3, <1>4

(* Items are values that Parse returns.                                     *)
LEMMA ItemsType ==
    \A c \in Nat : \A in \in Seq(Byte) : Items[in][c].ok => Items[in][c].value \in Seq(Parsed)
<1> DEFINE T == {c \in Nat : \A in \in Seq(Byte) : Items[in][c].ok => Items[in][c].value \in Seq(Parsed)}
<1>1. 0 \in T
  <2>1. ASSUME NEW in \in Seq(Byte) PROVE Items[in][0].value \in Seq(Parsed)
    <3>1. Items[in][0].value = <<>>
      BY ItemsNone, ReadOk
    <3> QED BY <3>1
  <2> QED BY <2>1
<1>2. ASSUME NEW c \in Nat, c \in T PROVE c + 1 \in T
  <2>1. ASSUME NEW in \in Seq(Byte), Items[in][c + 1].ok PROVE Items[in][c + 1].value \in Seq(Parsed)
    <3>1. PICK first : first = Parse(in)
      OBVIOUS
    <3>2. PICK others : others = Items[first.rest][c]
      OBVIOUS
    <3>3. Items[in][c + 1] = IF ~first.ok THEN Failed ELSE IF others.ok
            THEN Read(<<first.value>> \o others.value, others.rest) ELSE Failed
      BY <3>1, <3>2, ItemsMore
    <3>4. first.ok /\ others.ok
      BY <2>1, <3>3, ReadOk
    <3>5. Items[in][c + 1].value = <<first.value>> \o others.value
      <4>1. Items[in][c + 1] = Read(<<first.value>> \o others.value, others.rest)
        BY <3>3, <3>4
      <4>2. PICK vs : vs = <<first.value>> \o others.value
        OBVIOUS
      <4>3. Items[in][c + 1] = Read(vs, others.rest)
        BY <4>1, <4>2
      <4>4. Items[in][c + 1].value = vs
        BY <4>3, ReadOk
      <4> QED BY <4>2, <4>4
    <3>6. first.value \in Parsed
      BY <3>1, <3>4 DEF Parsed
    <3>7. first.rest \in Seq(Byte)
      BY <3>1, <3>4, ParseMove
    <3>8. others.value \in Seq(Parsed)
      BY <1>2, <3>2, <3>4, <3>7
    <3>9. <<first.value>> \in Seq(Parsed)
      BY <3>6
    <3> QED BY <3>5, <3>8, <3>9, ConcatProperties
  <2> QED BY <2>1
<1>3. \A c \in Nat : c \in T
  <2> HIDE DEF T
  <2> QED BY <1>1, <1>2, Induction
<1> QED BY <1>3

(* Usable, of a simple string or an error.                                  *)
LEMMA LineUsable ==
    ASSUME NEW in \in Seq(Byte), NEW type \in {Plus, Minus}, ParseLine(type, in).ok
    PROVE  Usable(ParseLine(type, in).value)
<1>1. PICK line : line = ReadLine(in)
  OBVIOUS
<1>2. line.ok
  BY <1>1, ReadOk DEF ParseLine
<1>3. line # Failed
  BY <1>2, ReadOk
<1>4. line.value \in Seq(Byte)
  <2>1. PICK s \in Seq(Byte), rest \in Seq(Byte) : line = Read(s, rest)
    BY <1>1, <1>3, ReadLineType
  <2> QED BY <2>1, ReadOk
<1>5. ParseLine(type, in).value = RESPValue(type, FALSE, line.value, <<>>)
  BY <1>1, <1>2, ReadOk DEF ParseLine
<1>6. Usable(RESPValue(type, FALSE, line.value, <<>>))
  BY <1>4 DEF Usable, RESPValue, Plus, Minus, Star, Dollar
<1> QED BY <1>5, <1>6

(* Usable, of an integer.                                                   *)
LEMMA IntegerUsable ==
    ASSUME NEW in \in Seq(Byte), ParseInteger(in).ok
    PROVE  Usable(ParseInteger(in).value)
<1>1. PICK n : n = ReadNumber(in)
  OBVIOUS
<1>2. ParseInteger(in).value = Integer(n.value)
  BY <1>1, ReadOk DEF ParseInteger
<1>3. Usable(Integer(n.value))
  BY DEF Usable, Integer, RESPValue, Colon, Star, Dollar, Plus
<1> QED BY <1>2, <1>3

(* Usable, of a bulk string.                                                *)
LEMMA BulkUsable ==
    ASSUME NEW in \in Seq(Byte), ParseBulkString(in).ok
    PROVE  Usable(ParseBulkString(in).value)
<1>1. PICK n : n = ReadNumber(in)
  OBVIOUS
<1>2. n.ok
  BY <1>1, ReadOk DEF ParseBulkString
<1>3. n.value \in Int /\ n.rest \in Seq(Byte)
  BY <1>1, <1>2, ReadNumberOk
<1>4. CASE n.value = -1
  <2>1. ParseBulkString(in).value = NullBulkString
    BY <1>1, <1>2, <1>4, ReadOk DEF ParseBulkString
  <2>2. Usable(NullBulkString)
    BY DEF Usable, NullBulkString, RESPValue, Star, Dollar
  <2> QED BY <2>1, <2>2
<1>5. CASE n.value # -1
  <2>1. ~(n.value < -1 \/ Len(n.rest) < n.value + 2)
    BY <1>1, <1>2, <1>5, ReadOk DEF ParseBulkString
  <2>2. PICK s : s = SubSeq(n.rest, 1, n.value)
    OBVIOUS
  <2>3. ParseBulkString(in).value = BulkString(s)
    BY <1>1, <1>2, <1>5, <2>1, <2>2, ReadOk DEF ParseBulkString
  <2>4. Len(n.rest) \in Nat
    BY <1>3, LenProperties
  <2>5. n.value \in 0 .. Len(n.rest)
    BY <1>3, <1>5, <2>1, <2>4
  <2>6. s \in Seq(Byte)
    BY <1>3, <2>2, <2>5, BeginningType
  <2>7. Usable(BulkString(s))
    BY <2>6 DEF Usable, BulkString, RESPValue, Star, Dollar
  <2> QED BY <2>3, <2>7
<1> QED BY <1>4, <1>5

(* Usable, of an array.                                                     *)
LEMMA ArrayUsable ==
    ASSUME NEW in \in Seq(Byte), ParseArray(in, Items).ok
    PROVE  Usable(ParseArray(in, Items).value)
<1>1. PICK n : n = ReadNumber(in)
  OBVIOUS
<1>2. n.ok
  BY <1>1, ReadOk DEF ParseArray
<1>3. n.value \in Int /\ n.rest \in Seq(Byte)
  BY <1>1, <1>2, ReadNumberOk
<1>4. CASE n.value = -1
  <2>1. ParseArray(in, Items).value = NullArray
    BY <1>1, <1>2, <1>4, ReadOk DEF ParseArray
  <2>2. Usable(NullArray)
    BY DEF Usable, NullArray, RESPValue, Star, Dollar, Plus
  <2> QED BY <2>1, <2>2
<1>5. CASE n.value # -1
  <2>1. PICK r : r = Items[n.rest][n.value]
    OBVIOUS
  <2>2. ~(n.value < -1) /\ r.ok
    BY <1>1, <1>2, <1>5, <2>1, ReadOk DEF ParseArray
  <2>3. ParseArray(in, Items).value = Array(r.value)
    BY <1>1, <1>2, <1>5, <2>1, <2>2, ReadOk DEF ParseArray
  <2>4. n.value \in Nat
    BY <1>3, <1>5, <2>2
  <2>5. r.value \in Seq(Parsed)
    BY <1>3, <2>1, <2>2, <2>4, ItemsType
  <2>6. Usable(Array(r.value))
    BY <2>5 DEF Usable, Array, RESPValue, Star, Dollar, Plus
  <2> QED BY <2>3, <2>6
<1> QED BY <1>4, <1>5

(* Every value that Parse returns is usable.                                *)
LEMMA ParsedUsable ==
    ASSUME NEW v \in Parsed
    PROVE  Usable(v)
<1>1. PICK in \in Seq(Byte) : Parse(in).ok /\ v = Parse(in).value
  BY DEF Parsed
<1>2. in # <<>>
  BY <1>1, ReadOk DEF Parse, ParseWith
<1>3. PICK rest : rest = From(in, 2)
  OBVIOUS
<1>4. rest \in Seq(Byte)
  BY <1>2, <1>3, EmptyIff, Rest
<1>5. CASE in[1] \in {Plus, Minus}
  <2>1. Parse(in) = ParseLine(in[1], rest)
    BY <1>2, <1>3, <1>5 DEF Parse, ParseWith, Colon, Plus, Minus, Dollar, Star
  <2> QED BY <1>1, <1>4, <1>5, <2>1, LineUsable
<1>6. CASE in[1] = Colon
  <2>1. Parse(in) = ParseInteger(rest)
    BY <1>2, <1>3, <1>6 DEF Parse, ParseWith, Colon, Plus, Minus, Dollar, Star
  <2> QED BY <1>1, <1>4, <2>1, IntegerUsable
<1>7. CASE in[1] = Dollar
  <2>1. Parse(in) = ParseBulkString(rest)
    BY <1>2, <1>3, <1>7 DEF Parse, ParseWith, Colon, Plus, Minus, Dollar, Star
  <2> QED BY <1>1, <1>4, <2>1, BulkUsable
<1>8. CASE in[1] = Star
  <2>1. Parse(in) = ParseArray(rest, Items)
    BY <1>2, <1>3, <1>8 DEF Parse, ParseWith, Colon, Plus, Minus, Dollar, Star
  <2> QED BY <1>1, <1>4, <2>1, ArrayUsable
<1>9. CASE in[1] \notin {Plus, Minus, Colon, Dollar, Star}
  <2>1. Parse(in) = Failed
    BY <1>2, <1>9 DEF Parse, ParseWith
  <2> QED BY <1>1, <2>1, ReadOk
<1> QED BY <1>5, <1>6, <1>7, <1>8, <1>9

(* The parts of a command are strings, and it has at least one.             *)
LEMMA PartsType ==
    ASSUME NEW v \in Parsed, IsCommand(v)
    PROVE  Parts(v) \in Seq(Seq(Byte)) \ {<<>>}
<1>1. PICK items : items = v.items
  OBVIOUS
<1>2. items \in Seq(Parsed) /\ items # <<>>
  BY <1>1, ParsedUsable DEF Usable, IsCommand
<1>3. Len(items) \in Nat /\ Len(items) # 0
  BY <1>2, EmptyIff
<1>4. ASSUME NEW i \in 1 .. Len(items) PROVE items[i].data \in Seq(Byte)
  <2>1. items[i] \in Parsed
    BY <1>2, ElementOfSeq
  <2>2. items[i].type \in {Dollar, Plus}
    BY <1>1 DEF IsCommand
  <2> QED BY <2>1, <2>2, ParsedUsable DEF Usable
<1>5. PICK p : p = [i \in 1 .. Len(items) |-> items[i].data]
  OBVIOUS
<1>6. p \in Seq(Seq(Byte)) /\ Len(p) = Len(items)
  <2>1. p \in [1 .. Len(items) -> Seq(Byte)]
    BY <1>4, <1>5
  <2> QED BY <1>3, <2>1
<1>7. p # <<>>
  BY <1>3, <1>6, NotEmpty
<1> QED BY <1>1, <1>5, <1>6, <1>7 DEF Parts
-----------------------------------------------------------------------------
(* Replayed: the recursion takes a value each time.                         *)

(* Replayed, with the function it refers to as a parameter, written out.    *)
ReplayStep(g, in) ==
    LET r == Parse(in)
    IN  IF ~r.ok THEN <<>>
        ELSE (IF IsCommand(r.value) THEN <<Parts(r.value)>> ELSE <<>>) \o g[r.rest]

(* What is replayed of the inputs shorter than n, as a function.            *)
ReplayTo(g, n)  == g = [t \in Short(n) |-> ReplayStep(g, t)]

(* g is as the definition of Replayed demands, on those inputs.             *)
Replays(g, n)   == \A t \in Short(n) : g[t] = ReplayStep(g, t)

(* What is replayed of an input depends on shorter inputs only.             *)
LEMMA ReplayStepSame ==
    ASSUME NEW in \in Seq(Byte), NEW g, NEW h, Agree(g, h, Len(in))
    PROVE  ReplayStep(g, in) = ReplayStep(h, in)
<1>1. PICK r : r = Parse(in)
  OBVIOUS
<1>2. CASE ~r.ok
  BY <1>1, <1>2 DEF ReplayStep
<1>3. CASE r.ok
  <2>1. r.rest \in Short(Len(in))
    BY <1>1, <1>3, ParseMove DEF Short
  <2>2. g[r.rest] = h[r.rest]
    BY <2>1 DEF Agree
  <2> QED BY <1>1, <2>2 DEF ReplayStep
<1> QED BY <1>2, <1>3

(* Such a function is as the definition demands.                            *)
LEMMA ReplayToReplays ==
    ASSUME NEW g, NEW n, ReplayTo(g, n)
    PROVE  Replays(g, n)
<1> DEFINE q == [t \in Short(n) |-> ReplayStep(g, t)]
<1>1. \A t \in Short(n) : q[t] = ReplayStep(g, t)
  OBVIOUS
<1>2. g = q
  BY DEF ReplayTo
<1> HIDE DEF q
<1> QED BY <1>1, <1>2 DEF Replays

(* Replays, for fewer inputs.                                               *)
LEMMA ReplaysLess ==
    ASSUME NEW m \in Nat, NEW n \in Nat, m <= n, NEW g, Replays(g, n)
    PROVE  Replays(g, m)
BY ShortMore DEF Replays

(* The definition of Replayed demands one function only.                    *)
LEMMA ReplaysAgree ==
    ASSUME NEW n \in Nat, NEW g, NEW h, Replays(g, n), Replays(h, n)
    PROVE  Agree(g, h, n)
<1> DEFINE T == {k \in Nat : k <= n => Agree(g, h, k)}
<1>1. 0 \in T
  BY NothingShorter DEF Agree
<1>2. ASSUME NEW k \in Nat, k \in T PROVE k + 1 \in T
  <2> SUFFICES ASSUME k + 1 <= n PROVE Agree(g, h, k + 1)
    OBVIOUS
  <2>1. k <= n
    OBVIOUS
  <2>2. Agree(g, h, k)
    BY <1>2, <2>1
  <2>3. ASSUME NEW t \in Short(k + 1) PROVE g[t] = h[t]
    <3>1. t \in Seq(Byte) /\ Len(t) \in Nat /\ Len(t) < k + 1
      BY ShortType
    <3>2. Len(t) <= k
      BY <3>1
    <3>3. Agree(g, h, Len(t))
      BY <2>2, <3>1, <3>2, AgreeLess
    <3>4. t \in Short(n)
      BY ShortMore
    <3>5. g[t] = ReplayStep(g, t) /\ h[t] = ReplayStep(h, t)
      BY <3>4 DEF Replays
    <3>6. ReplayStep(g, t) = ReplayStep(h, t)
      BY <3>1, <3>3, ReplayStepSame
    <3> QED BY <3>5, <3>6
  <2> QED BY <2>3 DEF Agree
<1>3. \A k \in Nat : k \in T
  <2> HIDE DEF T
  <2> QED BY <1>1, <1>2, Induction
<1> QED BY <1>3

(* It can be extended to inputs one byte longer.                            *)
LEMMA ReplayToNext ==
    ASSUME NEW n \in Nat, NEW g, Replays(g, n)
    PROVE  \E h : ReplayTo(h, n + 1)
<1> DEFINE h == [t \in Short(n + 1) |-> ReplayStep(g, t)]
<1>1. \A t \in Short(n + 1) : h[t] = ReplayStep(g, t)
  OBVIOUS
<1>2. Short(n) \subseteq Short(n + 1)
  <2>1. n <= n + 1 /\ n + 1 \in Nat
    OBVIOUS
  <2> QED BY <2>1, ShortMore
<1>3. Agree(g, h, n)
  <2> HIDE DEF h
  <2> QED BY <1>1, <1>2 DEF Agree, Replays
<1>4. ASSUME NEW t \in Short(n + 1) PROVE ReplayStep(g, t) = ReplayStep(h, t)
  <2> HIDE DEF h
  <2>1. t \in Seq(Byte) /\ Len(t) \in Nat /\ Len(t) < n + 1
    BY ShortType
  <2>2. Len(t) <= n
    BY <2>1
  <2>3. Agree(g, h, Len(t))
    BY <1>3, <2>1, <2>2, AgreeLess
  <2> QED BY <2>1, <2>3, ReplayStepSame
<1>5. h = [t \in Short(n + 1) |-> ReplayStep(h, t)]
  <2> DEFINE r == [t \in Short(n + 1) |-> ReplayStep(h, t)]
  <2>1. h = r
    BY <1>4
  <2> QED BY <2>1
<1>6. ReplayTo(h, n + 1)
  <2> HIDE DEF h
  <2> QED BY <1>5 DEF ReplayTo
<1> QED BY <1>6

(* It exists for every length.                                              *)
LEMMA ReplayToExists ==
    \A n \in Nat : \E g : ReplayTo(g, n)
<1> DEFINE T == {n \in Nat : \E g : ReplayTo(g, n)}
<1>1. 0 \in T
  <2>1. <<>> = [t \in Short(0) |-> ReplayStep(<<>>, t)]
    BY NothingShorter
  <2>2. ReplayTo(<<>>, 0)
    BY <2>1 DEF ReplayTo
  <2> QED BY <2>2
<1>2. ASSUME NEW n \in Nat, n \in T PROVE n + 1 \in T
  <2>1. PICK g : ReplayTo(g, n)
    BY <1>2
  <2>2. \E h : ReplayTo(h, n + 1)
    BY <2>1, ReplayToReplays, ReplayToNext
  <2> QED BY <2>2
<1>3. \A n \in Nat : n \in T
  <2> HIDE DEF T
  <2> QED BY <1>1, <1>2, Induction
<1> QED BY <1>3

(* Replayed is the function its recursive definition describes.             *)
LEMMA ReplayUnfolds ==
    \A in \in Seq(Byte) : Replayed[in] = ReplayStep(Replayed, in)
<1> DEFINE To(n) == CHOOSE g : ReplayTo(g, n)
           f == [t \in Seq(Byte) |-> To(Len(t) + 1)[t]]
<1>1. \A n \in Nat : Replays(To(n), n)
  <2>1. \A n \in Nat : ReplayTo(To(n), n)
    BY ReplayToExists
  <2> HIDE DEF To
  <2> QED BY <2>1, ReplayToReplays
<1>2. \A t \in Seq(Byte) : f[t] = To(Len(t) + 1)[t]
  OBVIOUS
<1>3. ASSUME NEW n \in Nat PROVE Agree(To(n), f, n)
  <2> HIDE DEF To, f
  <2>1. ASSUME NEW t \in Short(n) PROVE To(n)[t] = f[t]
    <3>1. t \in Seq(Byte) /\ Len(t) \in Nat /\ Len(t) < n
      BY ShortType
    <3>2. PICK k \in Nat : k = Len(t) + 1
      BY <3>1
    <3>3. k <= n /\ Len(t) < k
      BY <3>1, <3>2
    <3>4. Replays(To(k), k) /\ Replays(To(n), n)
      BY <1>1
    <3>5. Agree(To(k), To(n), k)
      BY <3>3, <3>4, ReplaysLess, ReplaysAgree
    <3>6. t \in Short(k)
      BY <3>1, <3>3 DEF Short
    <3>7. To(k)[t] = To(n)[t]
      BY <3>5, <3>6 DEF Agree
    <3> QED BY <1>2, <3>1, <3>2, <3>7
  <2> QED BY <2>1 DEF Agree
<1>4. ASSUME NEW t \in Seq(Byte) PROVE f[t] = ReplayStep(f, t)
  <2> HIDE DEF To, f
  <2>1. Len(t) \in Nat
    BY LenProperties
  <2>2. PICK k \in Nat : k = Len(t) + 1
    BY <2>1
  <2>3. Len(t) <= k /\ Len(t) < k
    BY <2>1, <2>2
  <2>4. t \in Short(k)
    BY <2>3 DEF Short
  <2>5. f[t] = ReplayStep(To(k), t)
    BY <1>1, <1>2, <2>2, <2>4 DEF Replays
  <2>6. Agree(To(k), f, Len(t))
    BY <1>3, <2>1, <2>3, AgreeLess
  <2>7. ReplayStep(To(k), t) = ReplayStep(f, t)
    BY <2>6, ReplayStepSame
  <2> QED BY <2>5, <2>7
<1>5. f = [t \in Seq(Byte) |-> ReplayStep(f, t)]
  <2> DEFINE g == [t \in Seq(Byte) |-> ReplayStep(f, t)]
  <2>1. f = g
    BY <1>4
  <2> QED BY <2>1
<1>6. \E g : g = [t \in Seq(Byte) |-> ReplayStep(g, t)]
  <2> HIDE DEF f
  <2> QED BY <1>5
<1>7. Replayed = [t \in Seq(Byte) |-> ReplayStep(Replayed, t)]
  BY <1>6 DEF Replayed, ReplayOf, ReplayStep
<1> DEFINE g == [t \in Seq(Byte) |-> ReplayStep(Replayed, t)]
<1>8. \A t \in Seq(Byte) : g[t] = ReplayStep(Replayed, t)
  OBVIOUS
<1>9. Replayed = g
  BY <1>7
<1> HIDE DEF g
<1> QED BY <1>8, <1>9

(* What the log may hold: a name and arguments, any bytes.                  *)
AnyCommand == Seq(Seq(Byte)) \ {<<>>}

(* A command that is parsed is replayed before the rest.                    *)
LEMMA ReplayedOf ==
    ASSUME NEW in \in Seq(Byte), NEW v, NEW rest, Parse(in) = Read(v, rest), IsCommand(v)
    PROVE  Replayed[in] = <<Parts(v)>> \o Replayed[rest]
<1>1. PICK r : r = Parse(in)
  OBVIOUS
<1>2. r.ok /\ r.value = v /\ r.rest = rest
  BY <1>1, ReadOk
<1>3. ReplayStep(Replayed, in) = <<Parts(v)>> \o Replayed[rest]
  BY <1>1, <1>2 DEF ReplayStep
<1> QED BY <1>3, ReplayUnfolds

(* Whatever bytes the file has, what is replayed is commands.               *)
LEMMA ReplayedType ==
    \A in \in Seq(Byte) : Replayed[in] \in Seq(AnyCommand)
<1> DEFINE T == {n \in Nat : \A in \in Seq(Byte) : Len(in) = n => Replayed[in] \in Seq(AnyCommand)}
<1>1. ASSUME NEW n \in Nat, \A m \in 0 .. n - 1 : m \in T PROVE n \in T
  <2> SUFFICES ASSUME NEW in \in Seq(Byte), Len(in) = n PROVE Replayed[in] \in Seq(AnyCommand)
    OBVIOUS
  <2>1. PICK r : r = Parse(in)
    OBVIOUS
  <2>2. CASE ~r.ok
    <3>1. ReplayStep(Replayed, in) = <<>>
      BY <2>1, <2>2 DEF ReplayStep
    <3>2. Replayed[in] = <<>>
      BY <3>1, ReplayUnfolds
    <3> QED BY <3>2
  <2>3. CASE r.ok
    <3>1. r.rest \in Seq(Byte) /\ Len(r.rest) \in 0 .. n - 1
      BY <2>1, <2>3, ParseMove
    <3>2. PICK others : others = Replayed[r.rest]
      OBVIOUS
    <3>3. others \in Seq(AnyCommand)
      BY <1>1, <3>1, <3>2
    <3>4. PICK one : one = IF IsCommand(r.value) THEN <<Parts(r.value)>> ELSE <<>>
      OBVIOUS
    <3>5. one \in Seq(AnyCommand)
      <4>1. r.value \in Parsed
        BY <2>1, <2>3 DEF Parsed
      <4>2. CASE IsCommand(r.value)
        <5>1. Parts(r.value) \in AnyCommand
          BY <4>1, <4>2, PartsType DEF AnyCommand
        <5>2. one = <<Parts(r.value)>>
          BY <3>4, <4>2
        <5> QED BY <5>1, <5>2
      <4>3. CASE ~IsCommand(r.value)
        BY <3>4, <4>3
      <4> QED BY <4>2, <4>3
    <3>6. ReplayStep(Replayed, in) = one \o others
      BY <2>1, <2>3, <3>2, <3>4 DEF ReplayStep
    <3>7. Replayed[in] = one \o others
      BY <3>6, ReplayUnfolds
    <3> QED BY <3>3, <3>5, <3>7, ConcatProperties
  <2> QED BY <2>2, <2>3
<1>2. \A n \in Nat : n \in T
  <2> HIDE DEF T
  <2> QED BY <1>1, StrongInduction
<1> QED BY <1>2, LenProperties
-----------------------------------------------------------------------------
(* Values and their encoders.                                               *)

(* Values, with the function it refers to as a parameter.                   *)
ValuesStep(p, n) ==
    LET Item == IF n = 0 THEN {} ELSE p[n - 1]
    IN  {v \in [type : {Plus, Minus, Colon, Dollar, Star}, nil : BOOLEAN,
                data : Seq(Int), items : Seq(Item)] :
            /\ v.nil => v = NullBulkString
            /\ v.type \in {Plus, Minus} => v.data \in Seq(Byte \ {LF})
            /\ v.type = Colon => Len(v.data) = 1
            /\ v.type = Dollar => v.data \in Seq(Byte)
            /\ IF v.type = Star THEN v.data = <<>> ELSE v.items = <<>>}

(* The values of the depths up to n.                                        *)
ValueSetsTo(p, n) == p = [i \in 0 .. n |-> ValuesStep(p, i)]

(* The values of a depth depend on smaller depths only.                     *)
LEMMA ValuesStepAgrees ==
    ASSUME NEW p, NEW q, NEW n \in Nat, \A i \in 0 .. n - 1 : p[i] = q[i]
    PROVE  ValuesStep(p, n) = ValuesStep(q, n)
<1>1. CASE n = 0
  BY <1>1 DEF ValuesStep
<1>2. CASE n # 0
  <2>1. n - 1 \in 0 .. n - 1
    BY <1>2
  <2>2. p[n - 1] = q[n - 1]
    BY <2>1
  <2> QED BY <1>2, <2>2 DEF ValuesStep
<1> QED BY <1>1, <1>2

(* What such a function is at one depth.                                    *)
LEMMA ValueSetsToAt ==
    ASSUME NEW p, NEW n, ValueSetsTo(p, n), NEW i \in 0 .. n
    PROVE  p[i] = ValuesStep(p, i)
<1> DEFINE q == [j \in 0 .. n |-> ValuesStep(p, j)]
<1>1. q[i] = ValuesStep(p, i)
  OBVIOUS
<1>2. p = q
  BY DEF ValueSetsTo
<1> QED BY <1>1, <1>2

(* It exists for every n.                                                   *)
LEMMA ValueSetsToExists ==
    \A n \in Nat : \E p : ValueSetsTo(p, n)
<1> DEFINE T == {n \in Nat : \E p : ValueSetsTo(p, n)}
<1>1. ASSUME NEW n \in Nat, NEW p, \A i \in 0 .. n - 1 : p[i] = ValuesStep(p, i)
      PROVE  \E q : ValueSetsTo(q, n)
  <2> DEFINE q == [i \in 0 .. n |-> ValuesStep(p, i)]
  <2>1. \A i \in 0 .. n - 1 : q[i] = p[i]
    BY <1>1
  <2>2. ASSUME NEW i \in 0 .. n PROVE ValuesStep(p, i) = ValuesStep(q, i)
    <3>1. \A j \in 0 .. i - 1 : p[j] = q[j]
      <4> HIDE DEF q
      <4> QED BY <2>1
    <3> HIDE DEF q
    <3> QED BY <3>1, ValuesStepAgrees
  <2>3. q = [i \in 0 .. n |-> ValuesStep(q, i)]
    <3> DEFINE r == [i \in 0 .. n |-> ValuesStep(q, i)]
    <3>1. q = r
      BY <2>2
    <3> QED BY <3>1
  <2>4. ValueSetsTo(q, n)
    <3> HIDE DEF q
    <3> QED BY <2>3 DEF ValueSetsTo
  <2> QED BY <2>4
<1>2. 0 \in T
  <2>1. \A i \in 0 .. 0 - 1 : <<>>[i] = ValuesStep(<<>>, i)
    OBVIOUS
  <2> QED BY <1>1, <2>1
<1>3. ASSUME NEW n \in Nat, n \in T PROVE n + 1 \in T
  <2>1. PICK p : ValueSetsTo(p, n)
    BY <1>3
  <2>2. \A i \in 0 .. (n + 1) - 1 : p[i] = ValuesStep(p, i)
    BY <2>1, ValueSetsToAt
  <2>3. \E q : ValueSetsTo(q, n + 1)
    BY <1>1, <2>2
  <2> QED BY <2>3
<1>4. \A n \in Nat : n \in T
  <2> HIDE DEF T
  <2> QED BY <1>2, <1>3, Induction
<1> QED BY <1>4

(* Two of them agree where both are defined.                                *)
LEMMA ValueSetsToAgree ==
    ASSUME NEW m \in Nat, NEW n \in Nat, NEW p, NEW q, ValueSetsTo(p, m), ValueSetsTo(q, n),
           NEW k \in Nat, k <= m, k <= n
    PROVE  p[k] = q[k]
<1> DEFINE T == {i \in Nat : i <= m /\ i <= n => p[i] = q[i]}
<1>1. ASSUME NEW i \in Nat, \A j \in 0 .. i - 1 : j \in T PROVE i \in T
  <2> SUFFICES ASSUME i <= m, i <= n PROVE p[i] = q[i]
    OBVIOUS
  <2>1. \A j \in 0 .. i - 1 : p[j] = q[j]
    BY <1>1
  <2>2. p[i] = ValuesStep(p, i) /\ q[i] = ValuesStep(q, i)
    BY ValueSetsToAt
  <2> QED BY <2>1, <2>2, ValuesStepAgrees
<1>2. \A i \in Nat : i \in T
  <2> HIDE DEF T
  <2> QED BY <1>1, StrongInduction
<1> QED BY <1>2

(* Values is the function its recursive definition describes.               *)
LEMMA ValuesUnfold ==
    \A n \in Nat : Values[n] = ValuesStep(Values, n)
<1> DEFINE To(n) == CHOOSE p : ValueSetsTo(p, n)
           f == [n \in Nat |-> To(n)[n]]
<1>1. \A n \in Nat : ValueSetsTo(To(n), n)
  BY ValueSetsToExists
<1>2. ASSUME NEW n \in Nat PROVE f[n] = ValuesStep(f, n)
  <2>1. f[n] = ValuesStep(To(n), n)
    BY <1>1, ValueSetsToAt
  <2>2. ASSUME NEW i \in 0 .. n - 1 PROVE f[i] = To(n)[i]
    <3>1. i \in Nat /\ i <= n /\ i <= i
      OBVIOUS
    <3>2. ValueSetsTo(To(i), i) /\ ValueSetsTo(To(n), n)
      BY <1>1, <3>1
    <3>3. f[i] = To(i)[i]
      BY <3>1
    <3> HIDE DEF f, To
    <3> QED BY <3>1, <3>2, <3>3, ValueSetsToAgree
  <2> HIDE DEF f, To
  <2> QED BY <2>1, <2>2, ValuesStepAgrees
<1>3. f = [n \in Nat |-> ValuesStep(f, n)]
  <2> DEFINE g == [n \in Nat |-> ValuesStep(f, n)]
  <2>1. f = g
    BY <1>2
  <2> QED BY <2>1
<1>4. \E g : g = [n \in Nat |-> ValuesStep(g, n)]
  <2> HIDE DEF f
  <2> QED BY <1>3
<1>5. Values = [n \in Nat |-> ValuesStep(Values, n)]
  BY <1>4 DEF Values, ValuesStep
<1> DEFINE g == [n \in Nat |-> ValuesStep(Values, n)]
<1>6. \A n \in Nat : g[n] = ValuesStep(Values, n)
  OBVIOUS
<1>7. Values = g
  BY <1>5
<1> HIDE DEF g
<1> QED BY <1>6, <1>7

(* Encoder, with the function it refers to as a parameter.                  *)
EncoderStep(p, n) ==
    [v \in Values[n] |->
        CASE v.nil -> <<Dollar>> \o Number(-1) \o EOL
          [] v.type \in {Plus, Minus} -> <<v.type>> \o v.data \o EOL
          [] v.type = Colon -> <<Colon>> \o Number(v.data[1]) \o EOL
          [] v.type = Dollar /\ ~v.nil -> <<Dollar>> \o Number(Len(v.data)) \o EOL \o v.data \o EOL
          [] v.type = Star -> <<Star>> \o Number(Len(v.items)) \o EOL
                                \o FlattenSeq([i \in 1 .. Len(v.items) |-> p[n - 1][v.items[i]]])]

(* The encoders of the depths up to n.                                      *)
EncodersTo(p, n) == p = [i \in 0 .. n |-> EncoderStep(p, i)]

(* A value of depth 0 has no items.                                         *)
LEMMA NoItemsAtZero ==
    ASSUME NEW v \in Values[0]
    PROVE  v.items = <<>>
<1>1. Values[0] = ValuesStep(Values, 0)
  BY ValuesUnfold
<1>2. v.items \in Seq({})
  BY <1>1 DEF ValuesStep
<1> QED BY <1>2, EmptyIff, ElementOfSeq

(* The encoder of a depth depends on smaller depths only.                   *)
LEMMA EncoderStepAgrees ==
    ASSUME NEW p, NEW q, NEW n \in Nat, \A i \in 0 .. n - 1 : p[i] = q[i]
    PROVE  EncoderStep(p, n) = EncoderStep(q, n)
<1>1. CASE n = 0
  <2>1. ASSUME NEW v \in Values[n]
        PROVE  [i \in 1 .. Len(v.items) |-> p[n - 1][v.items[i]]] = [i \in 1 .. Len(v.items) |-> q[n - 1][v.items[i]]]
    <3>1. Len(v.items) = 0
      BY <1>1, NoItemsAtZero, LengthOfEmpty
    <3>2. 1 .. Len(v.items) = {}
      BY <3>1
    <3> QED BY <3>2
  <2> QED BY <2>1 DEF EncoderStep
<1>2. CASE n # 0
  <2>1. n - 1 \in 0 .. n - 1
    BY <1>2
  <2>2. p[n - 1] = q[n - 1]
    BY <2>1
  <2> QED BY <2>2 DEF EncoderStep
<1> QED BY <1>1, <1>2

(* What such a function is at one depth.                                    *)
LEMMA EncodersToAt ==
    ASSUME NEW p, NEW n, EncodersTo(p, n), NEW i \in 0 .. n
    PROVE  p[i] = EncoderStep(p, i)
<1> DEFINE q == [j \in 0 .. n |-> EncoderStep(p, j)]
<1>1. q[i] = EncoderStep(p, i)
  OBVIOUS
<1>2. p = q
  BY DEF EncodersTo
<1> QED BY <1>1, <1>2

(* It exists for every n.                                                   *)
LEMMA EncodersToExists ==
    \A n \in Nat : \E p : EncodersTo(p, n)
<1> DEFINE T == {n \in Nat : \E p : EncodersTo(p, n)}
<1>1. ASSUME NEW n \in Nat, NEW p, \A i \in 0 .. n - 1 : p[i] = EncoderStep(p, i)
      PROVE  \E q : EncodersTo(q, n)
  <2> DEFINE q == [i \in 0 .. n |-> EncoderStep(p, i)]
  <2>1. \A i \in 0 .. n - 1 : q[i] = p[i]
    BY <1>1
  <2>2. ASSUME NEW i \in 0 .. n PROVE EncoderStep(p, i) = EncoderStep(q, i)
    <3>1. \A j \in 0 .. i - 1 : p[j] = q[j]
      <4> HIDE DEF q
      <4> QED BY <2>1
    <3> HIDE DEF q
    <3> QED BY <3>1, EncoderStepAgrees
  <2>3. q = [i \in 0 .. n |-> EncoderStep(q, i)]
    <3> DEFINE r == [i \in 0 .. n |-> EncoderStep(q, i)]
    <3>1. q = r
      BY <2>2
    <3> QED BY <3>1
  <2>4. EncodersTo(q, n)
    <3> HIDE DEF q
    <3> QED BY <2>3 DEF EncodersTo
  <2> QED BY <2>4
<1>2. 0 \in T
  <2>1. \A i \in 0 .. 0 - 1 : <<>>[i] = EncoderStep(<<>>, i)
    OBVIOUS
  <2> QED BY <1>1, <2>1
<1>3. ASSUME NEW n \in Nat, n \in T PROVE n + 1 \in T
  <2>1. PICK p : EncodersTo(p, n)
    BY <1>3
  <2>2. \A i \in 0 .. (n + 1) - 1 : p[i] = EncoderStep(p, i)
    BY <2>1, EncodersToAt
  <2>3. \E q : EncodersTo(q, n + 1)
    BY <1>1, <2>2
  <2> QED BY <2>3
<1>4. \A n \in Nat : n \in T
  <2> HIDE DEF T
  <2> QED BY <1>2, <1>3, Induction
<1> QED BY <1>4

(* Two of them agree where both are defined.                                *)
LEMMA EncodersToAgree ==
    ASSUME NEW m \in Nat, NEW n \in Nat, NEW p, NEW q, EncodersTo(p, m), EncodersTo(q, n),
           NEW k \in Nat, k <= m, k <= n
    PROVE  p[k] = q[k]
<1> DEFINE T == {i \in Nat : i <= m /\ i <= n => p[i] = q[i]}
<1>1. ASSUME NEW i \in Nat, \A j \in 0 .. i - 1 : j \in T PROVE i \in T
  <2> SUFFICES ASSUME i <= m, i <= n PROVE p[i] = q[i]
    OBVIOUS
  <2>1. \A j \in 0 .. i - 1 : p[j] = q[j]
    BY <1>1
  <2>2. p[i] = EncoderStep(p, i) /\ q[i] = EncoderStep(q, i)
    BY EncodersToAt
  <2> QED BY <2>1, <2>2, EncoderStepAgrees
<1>2. \A i \in Nat : i \in T
  <2> HIDE DEF T
  <2> QED BY <1>1, StrongInduction
<1> QED BY <1>2

(* Encoder is the function its recursive definition describes.              *)
LEMMA EncoderUnfolds ==
    \A n \in Nat : Encoder[n] = EncoderStep(Encoder, n)
<1> DEFINE To(n) == CHOOSE p : EncodersTo(p, n)
           f == [n \in Nat |-> To(n)[n]]
<1>1. \A n \in Nat : EncodersTo(To(n), n)
  BY EncodersToExists
<1>2. ASSUME NEW n \in Nat PROVE f[n] = EncoderStep(f, n)
  <2>1. f[n] = EncoderStep(To(n), n)
    BY <1>1, EncodersToAt
  <2>2. ASSUME NEW i \in 0 .. n - 1 PROVE f[i] = To(n)[i]
    <3>1. i \in Nat /\ i <= n /\ i <= i
      OBVIOUS
    <3>2. EncodersTo(To(i), i) /\ EncodersTo(To(n), n)
      BY <1>1, <3>1
    <3>3. f[i] = To(i)[i]
      BY <3>1
    <3> HIDE DEF f, To
    <3> QED BY <3>1, <3>2, <3>3, EncodersToAgree
  <2> HIDE DEF f, To
  <2> QED BY <2>1, <2>2, EncoderStepAgrees
<1>3. f = [n \in Nat |-> EncoderStep(f, n)]
  <2> DEFINE g == [n \in Nat |-> EncoderStep(f, n)]
  <2>1. f = g
    BY <1>2
  <2> QED BY <2>1
<1>4. \E g : g = [n \in Nat |-> EncoderStep(g, n)]
  <2> HIDE DEF f
  <2> QED BY <1>3
<1>5. Encoder = [n \in Nat |-> EncoderStep(Encoder, n)]
  BY <1>4 DEF Encoder, EncoderStep
<1> DEFINE g == [n \in Nat |-> EncoderStep(Encoder, n)]
<1>6. \A n \in Nat : g[n] = EncoderStep(Encoder, n)
  OBVIOUS
<1>7. Encoder = g
  BY <1>5
<1> HIDE DEF g
<1> QED BY <1>6, <1>7
-----------------------------------------------------------------------------
(* What is written is read back.                                            *)

(* Two sequences of bytes put together.                                     *)
LEMMA Joined ==
    \A a, b \in Seq(Byte) :
       /\ a \o b \in Seq(Byte) /\ Len(a) \in Nat /\ Len(b) \in Nat
       /\ Len(a \o b) = Len(a) + Len(b)
       /\ \A i \in 1 .. Len(a) + Len(b) : (a \o b)[i] = IF i <= Len(a) THEN a[i] ELSE b[i - Len(a)]
<1> SUFFICES ASSUME NEW a \in Seq(Byte), NEW b \in Seq(Byte)
             PROVE  /\ a \o b \in Seq(Byte) /\ Len(a) \in Nat /\ Len(b) \in Nat
                    /\ Len(a \o b) = Len(a) + Len(b)
                    /\ \A i \in 1 .. Len(a) + Len(b) : (a \o b)[i] = IF i <= Len(a) THEN a[i] ELSE b[i - Len(a)]
  OBVIOUS
<1>1. Len(a) \in Nat /\ Len(b) \in Nat
  BY LenProperties
<1>2. a \o b \in Seq(Byte) /\ Len(a \o b) = Len(a) + Len(b)
      /\ \A i \in 1 .. Len(a) + Len(b) : (a \o b)[i] = IF i <= Len(a) THEN a[i] ELSE b[i - Len(a)]
  BY ConcatProperties
<1> QED BY <1>1, <1>2, Zenon

(* The same for sequences of bytes.                                         *)
LEMMA Regrouped ==
    \A a, b, c \in Seq(Byte) : Regroups(a, b, c)
BY Associates

(* A prefix, a number and a newline, and what they announce.                *)
Counted(x, n, body) == <<x>> \o (Number(n) \o (EOL \o body))

(* The bytes that mark values and lines.                                    *)
LEMMA Marks ==
    /\ {Plus, Minus, Colon, Dollar, Star} \subseteq Byte
    /\ EOL \in Seq(Byte) /\ Len(EOL) = 2
    /\ <<CR>> \in Seq(Byte) /\ Len(<<CR>>) = 1
    /\ <<LF>> \in Seq(Byte) /\ Len(<<LF>>) = 1
    /\ EOL = <<CR>> \o <<LF>>
BY DEF Plus, Minus, Colon, Dollar, Star, Byte, EOL, CR, LF

(* A byte, and what comes behind it.                                        *)
LEMMA FirstByte ==
    ASSUME NEW x \in Byte, NEW s \in Seq(Byte)
    PROVE  /\ <<x>> \o s \in Seq(Byte)
           /\ Len(<<x>> \o s) = Len(s) + 1
           /\ <<x>> \o s # <<>>
           /\ (<<x>> \o s)[1] = x
           /\ From(<<x>> \o s, 2) = s
<1>1. PICK one : one = <<x>>
  OBVIOUS
<1>2. one \in Seq(Byte) /\ Len(one) = 1 /\ one[1] = x
  BY <1>1
<1>3. Len(s) \in Nat
  BY LenProperties
<1>4. PICK in : in = one \o s
  OBVIOUS
<1>5. in \in Seq(Byte) /\ Len(in) = 1 + Len(s)
  <2>1. one \o s \in Seq(Byte) /\ Len(one \o s) = Len(one) + Len(s)
    BY <1>2, Joined
  <2> QED BY ONLY <1>2, <1>4, <2>1, Zenon
<1>6. in[1] = x
  <2>1. \A i \in 1 .. Len(one) + Len(s) : in[i] = IF i <= Len(one) THEN one[i] ELSE s[i - Len(one)]
    BY <1>2, <1>4, ConcatProperties
  <2>2. 1 \in 1 .. Len(one) + Len(s) /\ 1 <= Len(one)
    BY <1>2, <1>3
  <2>3. in[1] = one[1]
    BY <2>1, <2>2
  <2> QED BY <1>2, <2>3
<1>7. Len(in) # 0 /\ Len(in) = Len(s) + 1
  BY <1>3, <1>5
<1>8. in # <<>>
  BY <1>7, NotEmpty
<1>9. From(in, Len(one) + 1) = s
  BY <1>2, <1>4, SplitConcat
<1>10. From(in, 2) = s
  BY <1>2, <1>9
<1> QED BY <1>1, <1>4, <1>5, <1>6, <1>7, <1>8, <1>10

(* Counted gives bytes.                                                     *)
LEMMA CountedType ==
    ASSUME NEW x \in Byte, NEW n \in Int, NEW body \in Seq(Byte)
    PROVE  /\ Counted(x, n, body) \in Seq(Byte)
           /\ Number(n) \o (EOL \o body) \in Seq(Byte)
<1>1. PICK num \in Seq(Byte) : num = Number(n)
  BY NumberType
<1>2. PICK eol \in Seq(Byte) : eol = EOL
  BY Marks
<1>3. eol \o body \in Seq(Byte)
  BY ConcatProperties
<1>4. num \o (eol \o body) \in Seq(Byte)
  BY <1>3, ConcatProperties
<1> QED BY <1>1, <1>2, <1>4, FirstByte DEF Counted

(* Counted, grouped as Encode does.                                         *)
LEMMA CountedIs ==
    ASSUME NEW x \in Byte, NEW n \in Int, NEW body \in Seq(Byte)
    PROVE  ((<<x>> \o Number(n)) \o EOL) \o body = Counted(x, n, body)
<1>1. PICK num \in Seq(Byte) : num = Number(n)
  BY NumberType
<1>2. PICK eol \in Seq(Byte) : eol = EOL
  BY Marks
<1>3. PICK one \in Seq(Byte) : one = <<x>>
  <2>1. <<x>> \in Seq(Byte)
    BY ONLY x \in Byte
  <2> QED BY ONLY <2>1, Zenon
<1>4. PICK a \in Seq(Byte), b \in Seq(Byte) : a = one \o num /\ b = eol \o body
  BY Joined
<1>5. Regroups(a, eol, body) /\ Regroups(one, num, b)
  BY Regrouped
<1> QED BY ONLY <1>1, <1>2, <1>3, <1>4, <1>5, Zenon DEF Counted, Regroups

(* The same when nothing is announced.                                      *)
LEMMA CountedEmpty ==
    ASSUME NEW x \in Byte, NEW n \in Int
    PROVE  (<<x>> \o Number(n)) \o EOL = Counted(x, n, <<>>)
<1>1. PICK num \in Seq(Byte) : num = Number(n)
  BY NumberType
<1>2. PICK eol \in Seq(Byte) : eol = EOL
  BY Marks
<1>3. PICK one \in Seq(Byte) : one = <<x>>
  <2>1. <<x>> \in Seq(Byte)
    BY ONLY x \in Byte
  <2> QED BY ONLY <2>1, Zenon
<1>4. Regroups(one, num, eol)
  BY Regrouped
<1>5. eol \o <<>> = eol
  BY ConcatEmptySeq
<1> QED BY ONLY <1>1, <1>2, <1>3, <1>4, <1>5, Zenon DEF Counted, Regroups

(* Bytes that follow are bytes of the body.                                 *)
LEMMA CountedThen ==
    ASSUME NEW x \in Byte, NEW n \in Int, NEW body \in Seq(Byte), NEW rest \in Seq(Byte)
    PROVE  Counted(x, n, body) \o rest = Counted(x, n, body \o rest)
<1>1. PICK num \in Seq(Byte) : num = Number(n)
  BY NumberType
<1>2. PICK eol \in Seq(Byte) : eol = EOL
  BY Marks
<1>3. PICK one \in Seq(Byte) : one = <<x>>
  <2>1. <<x>> \in Seq(Byte)
    BY ONLY x \in Byte
  <2> QED BY ONLY <2>1, Zenon
<1>4. PICK b \in Seq(Byte), more \in Seq(Byte) : b = eol \o body /\ more = num \o b
  <2>1. PICK b \in Seq(Byte) : b = eol \o body
    BY Joined
  <2>2. PICK more \in Seq(Byte) : more = num \o b
    BY Joined
  <2> QED BY ONLY <2>1, <2>2, Zenon
<1>5. Regroups(one, more, rest) /\ Regroups(num, b, rest) /\ Regroups(eol, body, rest)
  BY Regrouped
<1> QED BY ONLY <1>1, <1>2, <1>3, <1>4, <1>5, Zenon DEF Counted, Regroups

(* The prefix and the number are read back.                                 *)
LEMMA CountedRead ==
    ASSUME NEW x \in Byte, NEW n \in Int, NEW body \in Seq(Byte)
    PROVE  /\ Counted(x, n, body) # <<>>
           /\ Counted(x, n, body)[1] = x
           /\ From(Counted(x, n, body), 2) = Number(n) \o (EOL \o body)
           /\ ReadNumber(From(Counted(x, n, body), 2)) = Read(n, body)
<1>1. PICK s \in Seq(Byte) : s = Number(n) \o (EOL \o body)
  BY CountedType
<1>2. <<x>> \o s # <<>> /\ (<<x>> \o s)[1] = x /\ From(<<x>> \o s, 2) = s
  BY FirstByte
<1>3. LineEnds(EOL \o body, body)
  BY DEF LineEnds
<1>4. ReadNumber(s) = Read(n, body)
  BY <1>1, <1>3, NumberReadBack
<1> QED BY <1>1, <1>2, <1>4 DEF Counted

(* What Parse does behind each prefix that has a number.                    *)
LEMMA ParseCounted ==
    ASSUME NEW x \in Byte, NEW n \in Int, NEW body \in Seq(Byte)
    PROVE  /\ x = Colon  => Parse(Counted(x, n, body)) = Read(Integer(n), body)
           /\ x = Dollar => Parse(Counted(x, n, body)) =
                                IF n = -1 THEN Read(NullBulkString, body)
                                ELSE IF n < -1 \/ Len(body) < n + 2 THEN Failed
                                ELSE Read(BulkString(SubSeq(body, 1, n)), From(body, n + 3))
           /\ x = Star /\ n >= 0 => Parse(Counted(x, n, body)) =
                                IF Items[body][n].ok
                                      THEN Read(Array(Items[body][n].value), Items[body][n].rest) ELSE Failed
<1>1. PICK in : in = Counted(x, n, body)
  OBVIOUS
<1>2. PICK rest : rest = From(in, 2)
  OBVIOUS
<1>3. in # <<>> /\ in[1] = x /\ ReadNumber(rest) = Read(n, body)
  BY <1>1, <1>2, CountedRead
<1>4. PICK r : r = ReadNumber(rest)
  OBVIOUS
<1>5. r.ok /\ r.value = n /\ r.rest = body
  BY <1>3, <1>4, ReadOk
<1>6. CASE x = Colon
  <2>1. Parse(in) = ParseInteger(rest)
    BY <1>2, <1>3, <1>6 DEF Parse, ParseWith, Colon, Plus, Minus, Dollar, Star
  <2>2. ParseInteger(rest) = Read(Integer(n), body)
    BY <1>4, <1>5 DEF ParseInteger
  <2> QED BY <1>1, <1>6, <2>1, <2>2 DEF Colon, Dollar, Star
<1>7. CASE x = Dollar
  <2>1. Parse(in) = ParseBulkString(rest)
    BY <1>2, <1>3, <1>7 DEF Parse, ParseWith, Colon, Plus, Minus, Dollar, Star
  <2>2. ParseBulkString(rest) = IF n = -1 THEN Read(NullBulkString, body)
                                ELSE IF n < -1 \/ Len(body) < n + 2 THEN Failed
                                ELSE Read(BulkString(SubSeq(body, 1, n)), From(body, n + 3))
    BY <1>4, <1>5 DEF ParseBulkString
  <2> QED BY <1>1, <1>7, <2>1, <2>2 DEF Colon, Dollar, Star
<1>8. CASE x = Star /\ n >= 0
  <2>1. Parse(in) = ParseArray(rest, Items)
    BY <1>2, <1>3, <1>8 DEF Parse, ParseWith, Colon, Plus, Minus, Dollar, Star
  <2>2. n # -1 /\ ~(n < -1)
    BY <1>8
  <2>3. ParseArray(rest, Items) = IF Items[body][n].ok
          THEN Read(Array(Items[body][n].value), Items[body][n].rest) ELSE Failed
    BY <1>4, <1>5, <2>2 DEF ParseArray
  <2> QED BY <1>1, <1>8, <2>1, <2>3 DEF Colon, Dollar, Star
<1> QED BY <1>6, <1>7, <1>8

(* Nothing is no value.                                                     *)
LEMMA ParseEmpty == Parse(<<>>) = Failed
BY DEF Parse, ParseWith

(* So may four.                                                             *)
FourParts(a, b, c, d) ==
    /\ a \o ((b \o c) \o d) = (a \o b) \o (c \o d)
    /\ a \o ((b \o c) \o d) = ((a \o b) \o c) \o d
    /\ ((a \o b) \o c) \o d = a \o (b \o (c \o d))

(* They are.                                                                *)
LEMMA FourRegrouped ==
    \A a, b, c, d \in Seq(Byte) : FourParts(a, b, c, d)
<1> SUFFICES ASSUME NEW a \in Seq(Byte), NEW b \in Seq(Byte), NEW c \in Seq(Byte), NEW d \in Seq(Byte)
             PROVE  FourParts(a, b, c, d)
  OBVIOUS
<1>1. PICK ab \in Seq(Byte) : ab = a \o b
  BY Joined
<1>2. PICK cd \in Seq(Byte) : cd = c \o d
  BY Joined
<1>3. Regroups(b, c, d) /\ Regroups(a, b, cd) /\ Regroups(ab, c, d)
  BY Regrouped
<1> QED BY ONLY <1>1, <1>2, <1>3, Zenon DEF Regroups, FourParts

(* The groupings of a line that the proofs use.                             *)
LineShape(s, rest, x) ==
    /\ s \o (EOL \o rest) = (s \o <<CR>>) \o (<<LF>> \o rest)
    /\ s \o (EOL \o rest) = ((s \o <<CR>>) \o <<LF>>) \o rest
    /\ ((<<x>> \o s) \o EOL) \o rest = <<x>> \o (s \o (EOL \o rest))

(* A line has them.                                                         *)
LEMMA LineShaped ==
    \A s, rest \in Seq(Byte) : \A x \in Byte : LineShape(s, rest, x)
<1> SUFFICES ASSUME NEW s \in Seq(Byte), NEW rest \in Seq(Byte), NEW x \in Byte PROVE LineShape(s, rest, x)
  OBVIOUS
<1>1. PICK one \in Seq(Byte) : one = <<x>>
  <2>1. <<x>> \in Seq(Byte)
    BY ONLY x \in Byte
  <2> QED BY ONLY <2>1, Zenon
<1>2. PICK cr \in Seq(Byte), lf \in Seq(Byte), eol \in Seq(Byte) : cr = <<CR>> /\ lf = <<LF>> /\ eol = EOL
      /\ eol = cr \o lf
  BY Marks
<1>3. FourParts(s, cr, lf, rest) /\ FourParts(one, s, eol, rest)
  BY FourRegrouped
<1> QED BY ONLY <1>1, <1>2, <1>3, Zenon DEF FourParts, LineShape

(* The bytes of a bulk string.                                              *)
Bulk(s) == Counted(Dollar, Len(s), s \o EOL)

(* The body of a bulk string is cut where it ends.                          *)
LEMMA BulkBody ==
    ASSUME NEW s \in Seq(Byte), NEW rest \in Seq(Byte), NEW body, body = (s \o EOL) \o rest
    PROVE  /\ body \in Seq(Byte)
           /\ Len(body) = Len(s) + 2 + Len(rest)
           /\ SubSeq(body, 1, Len(s)) = s
           /\ From(body, Len(s) + 3) = rest
<1>1. PICK eol \in Seq(Byte) : eol = EOL /\ Len(eol) = 2
  BY Marks
<1>2. PICK a : a = s \o eol
  OBVIOUS
<1>3. a \in Seq(Byte) /\ Len(a) = Len(s) + 2
  <2>1. a \in Seq(Byte) /\ Len(a) = Len(s) + Len(eol)
    BY <1>1, <1>2, Joined, Zenon
  <2> QED BY <1>1, <2>1
<1>4. body = a \o rest
  BY <1>1, <1>2
<1>5. body \in Seq(Byte) /\ Len(body) = Len(s) + 2 + Len(rest)
  <2>1. PICK x \in Seq(Byte) : x = a
    BY ONLY <1>3, Zenon
  <2>2. body \in Seq(Byte) /\ Len(body) = Len(x) + Len(rest)
    <3>1. body = x \o rest
      BY ONLY <1>4, <2>1, Zenon
    <3> QED BY <2>1, <3>1, Joined, Zenon
  <2> QED BY <1>3, <2>1, <2>2
<1>6. SubSeq(body, 1, Len(s)) = s
  <2>1. PICK t : t = eol \o rest
    OBVIOUS
  <2>2. t \in Seq(Byte)
    BY <1>1, <2>1, ConcatProperties
  <2>3. body = s \o t
    <3>1. Regroups(s, eol, rest)
      BY Regrouped
    <3> QED BY ONLY <1>2, <1>4, <2>1, <3>1, Zenon DEF Regroups
  <2> QED BY <2>2, <2>3, SplitConcat
<1>7. From(body, Len(s) + 3) = rest
  <2>1. From(body, Len(a) + 1) = rest
    BY <1>3, <1>4, SplitConcat
  <2>2. Len(s) \in Nat
    BY LenProperties
  <2>3. Len(a) + 1 = Len(s) + 3
    BY <1>3, <2>2
  <2> QED BY <2>1, <2>3
<1> QED BY <1>5, <1>6, <1>7

(* A bulk string is written as bytes.                                       *)
LEMMA BulkType ==
    ASSUME NEW s \in Seq(Byte)
    PROVE  Bulk(s) \in Seq(Byte) /\ s \o EOL \in Seq(Byte) /\ Len(s) \in Nat /\ Len(s \o EOL) = Len(s) + 2
<1>1. PICK eol \in Seq(Byte) : eol = EOL /\ Len(eol) = 2
  BY Marks
<1>2. PICK a : a = s \o eol
  OBVIOUS
<1>3. a \in Seq(Byte) /\ Len(a) = Len(s) + 2
  <2>1. a \in Seq(Byte) /\ Len(a) = Len(s) + Len(eol)
    BY <1>1, <1>2, Joined, Zenon
  <2> QED BY <1>1, <2>1
<1>4. Len(s) \in Nat
  BY LenProperties
<1>5. PICK n \in Int : n = Len(s)
  BY <1>4
<1>6. Dollar \in Byte
  BY Marks
<1>7. Counted(Dollar, n, a) \in Seq(Byte)
  BY <1>3, <1>6, CountedType
<1> QED BY <1>1, <1>2, <1>3, <1>4, <1>5, <1>7 DEF Bulk

(* A bulk string is read back, whatever bytes it has and whatever follows.  *)
LEMMA BulkBack ==
    ASSUME NEW s \in Seq(Byte), NEW rest \in Seq(Byte)
    PROVE  Parse(Bulk(s) \o rest) = Read(BulkString(s), rest)
<1>1. PICK n \in Nat : n = Len(s)
  BY BulkType
<1>2. PICK a \in Seq(Byte) : a = s \o EOL
  BY BulkType
<1>3. PICK body : body = a \o rest
  OBVIOUS
<1>4. body \in Seq(Byte) /\ Len(body) = n + 2 + Len(rest) /\ SubSeq(body, 1, n) = s /\ From(body, n + 3) = rest
  BY <1>1, <1>2, <1>3, BulkBody
<1>5. Dollar \in Byte /\ n \in Int /\ n # -1 /\ ~(n < -1)
  BY Marks
<1>6. Bulk(s) \o rest = Counted(Dollar, n, body)
  BY <1>1, <1>2, <1>3, <1>5, CountedThen DEF Bulk
<1>7. Len(rest) \in Nat
  BY LenProperties
<1>8. ~(Len(body) < n + 2)
  BY <1>4, <1>7
<1>9. Parse(Counted(Dollar, n, body)) = Read(BulkString(SubSeq(body, 1, n)), From(body, n + 3))
  BY <1>4, <1>5, <1>8, ParseCounted
<1> QED BY <1>4, <1>6, <1>9

(* So is a line without a newline inside.                                   *)
LEMMA LineBack ==
    ASSUME NEW type \in {Plus, Minus}, NEW s \in Seq(Byte \ {LF}), NEW rest \in Seq(Byte)
    PROVE  /\ (<<type>> \o s) \o EOL \in Seq(Byte)
           /\ Parse(((<<type>> \o s) \o EOL) \o rest) = Read(RESPValue(type, FALSE, s, <<>>), rest)
<1>1. s \in Seq(Byte) /\ type \in Byte /\ Len(s) \in Nat /\ Len(rest) \in Nat
  BY SeqMonotonic, Marks, LenProperties
<1>2. PICK cr \in Seq(Byte), lf \in Seq(Byte), eol \in Seq(Byte) :
          cr = <<CR>> /\ lf = <<LF>> /\ eol = EOL /\ eol = cr \o lf /\ Len(cr) = 1 /\ Len(lf) = 1
              /\ cr[1] = CR /\ lf[1] = LF
  BY Marks
<1>3. PICK one \in Seq(Byte) : one = <<type>>
  <2>1. <<type>> \in Seq(Byte)
    BY ONLY <1>1
  <2> QED BY ONLY <2>1, Zenon
<1>4. PICK t \in Seq(Byte) : t = eol \o rest
  <2>1. eol \o rest \in Seq(Byte)
    BY ConcatProperties
  <2> QED BY ONLY <2>1, Zenon
<1>5. PICK in \in Seq(Byte) : in = s \o t
  <2>1. s \o t \in Seq(Byte)
    BY <1>1, ConcatProperties
  <2> QED BY ONLY <2>1, Zenon
<1>6. PICK a \in Seq(Byte) : a = s \o cr /\ Len(a) = Len(s) + 1
  <2>1. s \o cr \in Seq(Byte) /\ Len(s \o cr) = Len(s) + 1
    BY <1>1, <1>2, ConcatProperties
  <2> QED BY ONLY <2>1, Zenon
<1>7. PICK b \in Seq(Byte) : b = a \o lf /\ Len(b) = Len(s) + 2
  <2>1. a \o lf \in Seq(Byte) /\ Len(a \o lf) = Len(a) + 1
    BY <1>1, <1>2, ConcatProperties
  <2>2. Len(a) + 1 = Len(s) + 2
    BY <1>1, <1>6
  <2> QED BY ONLY <2>1, <2>2, Zenon
<1>8. PICK u \in Seq(Byte) : u = lf \o rest
  <2>1. lf \o rest \in Seq(Byte)
    BY ConcatProperties
  <2> QED BY ONLY <2>1, Zenon
<1>9. t = cr \o u
  <2>1. Regroups(cr, lf, rest)
    BY Regrouped
  <2> QED BY ONLY <1>2, <1>4, <1>8, <2>1, Zenon DEF Regroups
<1>10. in = a \o u
  <2>1. LineShape(s, rest, type)
    BY <1>1, LineShaped
  <2>2. s \o (EOL \o rest) = (s \o <<CR>>) \o (<<LF>> \o rest)
    BY ONLY <2>1, Zenon DEF LineShape
  <2> QED BY ONLY <1>2, <1>4, <1>5, <1>6, <1>8, <2>2, Zenon
<1>11. in = b \o rest
  <2>1. LineShape(s, rest, type)
    BY <1>1, LineShaped
  <2>2. s \o (EOL \o rest) = ((s \o <<CR>>) \o <<LF>>) \o rest
    BY ONLY <2>1, Zenon DEF LineShape
  <2> QED BY ONLY <1>2, <1>4, <1>5, <1>6, <1>7, <2>2, Zenon
<1>12. SubSeq(in, 1, Len(s)) = s /\ From(in, Len(s) + 3) = rest
  <2>1. SubSeq(in, 1, Len(s)) = s
    BY <1>1, <1>5, SplitConcat
  <2>2. From(in, Len(b) + 1) = rest
    BY <1>11, SplitConcat
  <2>3. Len(b) + 1 = Len(s) + 3
    BY <1>1, <1>7
  <2> QED BY <2>1, <2>2, <2>3
<1>13. Len(in) = Len(s) + 2 + Len(rest)
  <2>1. Len(in) = Len(b) + Len(rest)
    BY <1>11, ConcatProperties
  <2> QED BY <1>7, <2>1
<1>14. Span(in, Byte \ {LF}) = Len(s) + 1
  <2>1. PICK n \in 0 .. Len(in) : n = Len(s) + 1
    BY <1>1, <1>13
  <2>2. ASSUME NEW i \in 1 .. n PROVE in[i] \in Byte \ {LF}
    <3>1. \A j \in 1 .. Len(s) + Len(t) : in[j] = IF j <= Len(s) THEN s[j] ELSE t[j - Len(s)]
      BY <1>1, <1>5, ConcatProperties
    <3>2. Len(in) = Len(s) + Len(t)
      BY <1>1, <1>5, ConcatProperties
    <3>3. i \in 1 .. Len(s) + Len(t)
      BY <1>1, <2>1, <3>2
    <3>4. CASE i <= Len(s)
      <4>1. i \in 1 .. Len(s)
        BY <1>1, <2>1, <3>4
      <4>2. s[i] \in Byte \ {LF}
        BY <4>1, ElementOfSeq
      <4> QED BY <3>1, <3>3, <3>4, <4>2
    <3>5. CASE ~(i <= Len(s))
      <4>1. i - Len(s) = 1
        BY <1>1, <2>1, <3>5
      <4>2. in[i] = t[1]
        BY <3>1, <3>3, <3>5, <4>1
      <4>3. t[1] = CR
        BY <1>1, <1>2, <1>4, EndOfLine
      <4> QED BY <4>2, <4>3 DEF CR, LF, Byte
    <3> QED BY <3>4, <3>5
  <2>3. n < Len(in) /\ in[n + 1] = LF
    <3>1. n < Len(in)
      BY <1>1, <1>13, <2>1
    <3>2. \A j \in 1 .. Len(a) + Len(u) : in[j] = IF j <= Len(a) THEN a[j] ELSE u[j - Len(a)]
      BY <1>10, ConcatProperties
    <3>3. Len(in) = Len(a) + Len(u)
      BY <1>10, ConcatProperties
    <3>h. PICK j : j = n + 1
      OBVIOUS
    <3>4. j \in 1 .. Len(a) + Len(u) /\ ~(j <= Len(a)) /\ j - Len(a) = 1
      BY <1>1, <1>6, <2>1, <3>1, <3>3, <3>h
    <3>5. in[n + 1] = u[1]
      <4>1. in[j] = u[j - Len(a)]
        BY ONLY <3>2, <3>4, Zenon
      <4>2. in[j] = u[1]
        BY ONLY <3>4, <4>1, Zenon
      <4> QED BY ONLY <3>h, <4>2
    <3>6. u[1] = LF
      BY <1>1, <1>2, <1>8, EndOfLine
    <3> QED BY <3>1, <3>5, <3>6
  <2>4. Span(in, Byte \ {LF}) = n
    BY <2>2, <2>3, SpanIsOnly
  <2> QED BY <2>1, <2>4
<1>15. ReadLine(in) = Read(s, rest)
  <2>1. PICK n \in Nat : n = Len(s) + 1
    BY <1>1
  <2>2. n \notin {0, Len(in)} /\ n - 1 = Len(s) /\ n + 2 = Len(s) + 3
    BY <1>1, <1>13, <2>1
  <2>3. Span(in, Byte \ {LF}) = n
    BY <1>14, <2>1
  <2> QED BY <1>12, <2>2, <2>3 DEF ReadLine
<1>16. ParseLine(type, in) = Read(RESPValue(type, FALSE, s, <<>>), rest)
  <2>1. PICK line : line = ReadLine(in)
    OBVIOUS
  <2>2. line.ok /\ line.value = s /\ line.rest = rest
    BY <1>15, <2>1, ReadOk
  <2> QED BY <2>1, <2>2 DEF ParseLine
<1>17. Parse(<<type>> \o in) = ParseLine(type, in)
  <2>1. PICK all : all = <<type>> \o in
    OBVIOUS
  <2>2. all # <<>> /\ all[1] = type /\ From(all, 2) = in
    BY <1>1, <2>1, FirstByte
  <2>3. Parse(all) = ParseLine(type, in)
    <3>1. all[1] \in {Plus, Minus} /\ all[1] # Colon /\ all[1] # Dollar /\ all[1] # Star
      BY ONLY <2>2, type \in {Plus, Minus} DEF Plus, Minus, Colon, Dollar, Star
    <3>2. ParseWith(Items, all) = ParseLine(all[1], From(all, 2))
      BY ONLY <2>2, <3>1, Zenon DEF ParseWith
    <3> QED BY ONLY <2>2, <3>2, Zenon DEF Parse
  <2> QED BY <2>1, <2>3
<1>18. ((<<type>> \o s) \o EOL) \o rest = <<type>> \o (s \o (EOL \o rest))
  <2>1. LineShape(s, rest, type)
    BY <1>1, LineShaped
  <2> QED BY ONLY <2>1, Zenon DEF LineShape
<1>19. (<<type>> \o s) \o EOL \in Seq(Byte)
  <2>1. one \o s \in Seq(Byte)
    BY <1>1, Joined, Zenon
  <2>2. (one \o s) \o eol \in Seq(Byte)
    BY <2>1, Joined, Zenon
  <2> QED BY ONLY <1>2, <1>3, <2>2, Zenon
<1>20. Parse(((<<type>> \o s) \o EOL) \o rest) = Read(RESPValue(type, FALSE, s, <<>>), rest)
  BY ONLY <1>2, <1>4, <1>5, <1>16, <1>17, <1>18, Zenon
<1> QED BY <1>19, <1>20

(* What e writes of the values V is read back, and the reader stops at its  *)
(* end.                                                                     *)
ReadsBack(e, V) ==
    \A v \in V : e[v] \in Seq(Byte) /\ \A rest \in Seq(Byte) : Parse(e[v] \o rest) = Read(v, rest)

(* The encodings of the items of an array.                                  *)
Encoded(e, items) == [i \in 1 .. Len(items) |-> e[items[i]]]

(* A sequence that is not empty is a first element and the others.          *)
LEMMA HeadAndTail ==
    ASSUME NEW S, NEW s \in Seq(S), Len(s) # 0
    PROVE  /\ s[1] \in S /\ Tail(s) \in Seq(S) /\ Len(Tail(s)) = Len(s) - 1
           /\ \A i \in 1 .. Len(s) - 1 : Tail(s)[i] = s[i + 1]
           /\ <<s[1]>> \o Tail(s) = s
<1>1. s # <<>>
  BY NotEmpty
<1>2. Len(s) \in Nat
  BY LenProperties
<1>3. s[1] \in S
  <2>1. 1 \in 1 .. Len(s)
    BY <1>2
  <2> QED BY <2>1, ElementOfSeq
<1>4. PICK t : t = Tail(s)
  OBVIOUS
<1>5. t \in Seq(S) /\ Len(t) = Len(s) - 1 /\ \A i \in 1 .. Len(t) : t[i] = s[i + 1]
  BY <1>1, <1>4, HeadTailProperties
<1>6. \A i \in 1 .. Len(s) - 1 : t[i] = s[i + 1]
  BY <1>5
<1>7. PICK one : one = <<s[1]>>
  OBVIOUS
<1>8. one \in Seq(S) /\ Len(one) = 1 /\ one[1] = s[1]
  BY <1>3, <1>7
<1>9. PICK c : c = one \o t
  OBVIOUS
<1>10. c \in Seq(S) /\ Len(c) = Len(one) + Len(t)
       /\ \A i \in 1 .. Len(one) + Len(t) : c[i] = IF i <= Len(one) THEN one[i] ELSE t[i - Len(one)]
  <2>1. t \in Seq(S) /\ one \in Seq(S)
    BY ONLY <1>5, <1>8, Zenon
  <2>2. one \o t \in Seq(S) /\ Len(one \o t) = Len(one) + Len(t)
        /\ \A i \in 1 .. Len(one) + Len(t) : (one \o t)[i] = IF i <= Len(one) THEN one[i] ELSE t[i - Len(one)]
    BY ONLY <2>1, ConcatProperties
  <2> QED BY ONLY <1>9, <2>2, Zenon
<1>11. Len(c) = Len(s)
  BY <1>2, <1>5, <1>8, <1>10
<1>12. ASSUME NEW i \in 1 .. Len(s) PROVE c[i] = s[i]
  <2>1. i \in 1 .. Len(one) + Len(t)
    BY <1>2, <1>5, <1>8
  <2>2. CASE i = 1
    <3>1. c[1] = one[1]
      BY <1>8, <1>10, <2>1, <2>2
    <3> QED BY <1>8, <2>2, <3>1
  <2>3. CASE i # 1
    <3>1. i - 1 \in 1 .. Len(s) - 1 /\ ~(i <= Len(one)) /\ i - Len(one) = i - 1 /\ (i - 1) + 1 = i
      BY <1>2, <1>8, <2>3
    <3>2. c[i] = t[i - 1]
      BY <1>10, <2>1, <3>1
    <3>3. t[i - 1] = s[(i - 1) + 1]
      BY <1>6, <3>1
    <3> QED BY <3>1, <3>2, <3>3
  <2> QED BY <2>2, <2>3
<1>13. c = s
  BY <1>10, <1>11, <1>12, SeqEqual
<1> QED BY <1>3, <1>4, <1>5, <1>6, <1>7, <1>9, <1>13

(* The encodings are bytes, one for each item.                              *)
LEMMA EncodedType ==
    ASSUME NEW e, NEW V, ReadsBack(e, V), NEW items \in Seq(V)
    PROVE  /\ Encoded(e, items) \in Seq(Seq(Byte))
           /\ Len(Encoded(e, items)) = Len(items)
           /\ \A i \in 1 .. Len(items) : Encoded(e, items)[i] = e[items[i]]
<1>1. Len(items) \in Nat
  BY LenProperties
<1>2. ASSUME NEW i \in 1 .. Len(items) PROVE e[items[i]] \in Seq(Byte)
  <2>1. items[i] \in V
    BY ElementOfSeq
  <2> QED BY <2>1 DEF ReadsBack
<1>3. PICK p : p = Encoded(e, items)
  OBVIOUS
<1>4. p \in [1 .. Len(items) -> Seq(Byte)] /\ \A i \in 1 .. Len(items) : p[i] = e[items[i]]
  BY <1>2, <1>3 DEF Encoded
<1>5. p \in Seq(Seq(Byte)) /\ Len(p) = Len(items)
  BY <1>1, <1>4
<1> QED BY <1>3, <1>4, <1>5

(* The encodings of the items behind the first.                             *)
LEMMA EncodedTail ==
    ASSUME NEW e, NEW V, ReadsBack(e, V), NEW items \in Seq(V), Len(items) # 0
    PROVE  Tail(Encoded(e, items)) = Encoded(e, Tail(items)) /\ Encoded(e, items)[1] = e[items[1]]
<1>1. PICK p \in Seq(Seq(Byte)) : p = Encoded(e, items) /\ Len(p) = Len(items)
      /\ \A i \in 1 .. Len(items) : p[i] = e[items[i]]
  BY EncodedType
<1>2. Len(items) \in Nat
  BY LenProperties
<1>3. Len(p) # 0
  BY <1>1
<1>4. PICK t \in Seq(V) : t = Tail(items) /\ Len(t) = Len(items) - 1
      /\ \A i \in 1 .. Len(items) - 1 : t[i] = items[i + 1]
  BY HeadAndTail
<1>5. PICK q \in Seq(Seq(Byte)) : q = Tail(p) /\ Len(q) = Len(p) - 1 /\ \A i \in 1 .. Len(p) - 1 : q[i] = p[i + 1]
  BY <1>3, HeadAndTail
<1>6. PICK r \in Seq(Seq(Byte)) : r = Encoded(e, t) /\ Len(r) = Len(t) /\ \A i \in 1 .. Len(t) : r[i] = e[t[i]]
  BY EncodedType
<1>7. Len(q) = Len(r)
  BY <1>1, <1>4, <1>5, <1>6
<1>8. ASSUME NEW i \in 1 .. Len(q) PROVE q[i] = r[i]
  <2>1. i \in 1 .. Len(items) - 1 /\ i \in 1 .. Len(p) - 1 /\ i \in 1 .. Len(t)
    BY <1>1, <1>4, <1>5
  <2>2. i + 1 \in 1 .. Len(items)
    BY <1>2, <2>1
  <2>3. q[i] = p[i + 1] /\ p[i + 1] = e[items[i + 1]]
    BY <1>1, <1>5, <2>1, <2>2
  <2>4. r[i] = e[t[i]] /\ t[i] = items[i + 1]
    BY <1>4, <1>6, <2>1
  <2> QED BY <2>3, <2>4
<1>9. q = r
  BY <1>7, <1>8, SeqEqual
<1>10. p[1] = e[items[1]]
  <2>1. 1 \in 1 .. Len(items)
    BY <1>2
  <2> QED BY <1>1, <2>1
<1> QED BY <1>1, <1>4, <1>5, <1>6, <1>9, <1>10

(* The encodings of values, and the bytes that follow them, read by         *)
(* parseArray.                                                              *)
ItemsRead(e, items, rest) == Items[FlattenSeq(Encoded(e, items)) \o rest][Len(items)] = Read(items, rest)

(* The items of an array are read back one by one.                          *)
LEMMA ItemsBack ==
    ASSUME NEW e, NEW V, ReadsBack(e, V)
    PROVE  \A n \in Nat : \A items \in Seq(V), rest \in Seq(Byte) : Len(items) = n => ItemsRead(e, items, rest)
<1> DEFINE T == {n \in Nat : \A items \in Seq(V), rest \in Seq(Byte) : Len(items) = n => ItemsRead(e, items, rest)}
<1>1. 0 \in T
  <2> SUFFICES ASSUME NEW items \in Seq(V), NEW rest \in Seq(Byte), Len(items) = 0 PROVE ItemsRead(e, items, rest)
    OBVIOUS
  <2>1. items = <<>>
    BY EmptyIff
  <2>2. Encoded(e, items) = <<>>
    <3>1. PICK p \in Seq(Seq(Byte)) : p = Encoded(e, items) /\ Len(p) = Len(items)
      BY EncodedType
    <3>2. p = <<>>
      BY <3>1, EmptyIff
    <3> QED BY <3>1, <3>2
  <2>3. <<>> \o rest = rest
    BY ConcatEmptySeq
  <2>4. FlattenSeq(Encoded(e, items)) \o rest = rest
    BY <2>2, <2>3, FlattenEmpty
  <2>5. Items[rest][0] = Read(<<>>, rest)
    BY ItemsNone
  <2> QED BY <2>1, <2>4, <2>5 DEF ItemsRead
<1>2. ASSUME NEW n \in Nat, n \in T PROVE n + 1 \in T
  <2> SUFFICES ASSUME NEW items \in Seq(V), NEW rest \in Seq(Byte), Len(items) = n + 1
      PROVE ItemsRead(e, items, rest)
    OBVIOUS
  <2>1. Len(items) # 0
    OBVIOUS
  <2>2. PICK x \in V, t \in Seq(V) : x = items[1] /\ t = Tail(items) /\ Len(t) = n /\ <<x>> \o t = items
    <3>1. items[1] \in V /\ Tail(items) \in Seq(V) /\ Len(Tail(items)) = Len(items) - 1
          /\ <<items[1]>> \o Tail(items) = items
      BY <2>1, HeadAndTail
    <3>2. Len(items) - 1 = n
      OBVIOUS
    <3> QED BY ONLY <3>1, <3>2, Zenon
  <2>3. PICK p \in Seq(Seq(Byte)) : p = Encoded(e, items) /\ Len(p) # 0
    BY <2>1, EncodedType
  <2>4. Tail(p) = Encoded(e, t) /\ p[1] = e[x]
    BY <2>1, <2>2, <2>3, EncodedTail
  <2>5. PICK h \in Seq(Byte) : h = e[x]
    BY <2>2 DEF ReadsBack
  <2>6. PICK f \in Seq(Byte) : f = FlattenSeq(Encoded(e, t))
    BY <2>2, EncodedType, FlattenType
  <2>7. FlattenSeq(p) = h \o f
    <3>1. FlattenSeq(p) = p[1] \o FlattenSeq(Tail(p))
      BY <2>3, FlattenTail
    <3> QED BY <2>4, <2>5, <2>6, <3>1
  <2>8. PICK more \in Seq(Byte) : more = f \o rest
    BY Joined
  <2>9. PICK in \in Seq(Byte) : in = h \o more
    BY Joined
  <2>10. FlattenSeq(p) \o rest = in
    <3>1. Regroups(h, f, rest)
      BY Regrouped
    <3> QED BY ONLY <2>7, <2>8, <2>9, <3>1, Zenon DEF Regroups
  <2>11. Parse(in) = Read(x, more)
    BY <2>2, <2>5, <2>9 DEF ReadsBack
  <2>12. Items[more][n] = Read(t, rest)
    BY <1>2, <2>2, <2>6, <2>8 DEF ItemsRead
  <2>13. Items[in][n + 1] = Read(<<x>> \o t, rest)
    <3>1. PICK first, others : first = Parse(in) /\ others = Items[more][n]
      OBVIOUS
    <3>2. first.ok /\ first.value = x /\ first.rest = more /\ others.ok /\ others.value = t /\ others.rest = rest
      BY <2>11, <2>12, <3>1, ReadOk
    <3>3. Items[in][n + 1] = IF ~first.ok THEN Failed ELSE IF Items[first.rest][n].ok
                   THEN Read(<<first.value>> \o Items[first.rest][n].value, Items[first.rest][n].rest)
                   ELSE Failed
      BY <3>1, ItemsMore
    <3> QED BY <3>1, <3>2, <3>3
  <2> QED BY <2>2, <2>3, <2>10, <2>13 DEF ItemsRead
<1>3. \A n \in Nat : n \in T
  <2> HIDE DEF T
  <2> QED BY <1>1, <1>2, Induction
<1> QED BY <1>3

(* An array is read back when its items are.                                *)
LEMMA ArrayBack ==
    ASSUME NEW e, NEW V, ReadsBack(e, V), NEW items \in Seq(V), NEW body, body = FlattenSeq(Encoded(e, items))
    PROVE  /\ body \in Seq(Byte) /\ Len(items) \in Nat
           /\ Counted(Star, Len(items), body) \in Seq(Byte)
           /\ \A rest \in Seq(Byte) : Parse(Counted(Star, Len(items), body) \o rest) = Read(Array(items), rest)
<1>1. body \in Seq(Byte)
  BY EncodedType, FlattenType
<1>2. PICK n \in Nat : n = Len(items)
  BY LenProperties
<1>3. n \in Int /\ n >= 0 /\ Star \in Byte
  BY Marks
<1>4. Counted(Star, n, body) \in Seq(Byte)
  BY <1>1, <1>3, CountedType
<1>5. ASSUME NEW rest \in Seq(Byte) PROVE Parse(Counted(Star, n, body) \o rest) = Read(Array(items), rest)
  <2>1. PICK in \in Seq(Byte) : in = body \o rest
    BY <1>1, Joined
  <2>2. Counted(Star, n, body) \o rest = Counted(Star, n, in)
    <3>1. Counted(Star, n, body) \o rest = Counted(Star, n, body \o rest)
      BY <1>1, <1>3, CountedThen
    <3> QED BY ONLY <2>1, <3>1, Zenon
  <2>3. ItemsRead(e, items, rest)
    BY <1>2, ItemsBack
  <2>4. Items[in][n] = Read(items, rest)
    BY <1>2, <2>1, <2>3 DEF ItemsRead
  <2>5. PICK r : r = Items[in][n]
    OBVIOUS
  <2>6. r.ok /\ r.value = items /\ r.rest = rest
    BY <2>4, <2>5, ReadOk
  <2>7. Parse(Counted(Star, n, in)) = IF Items[in][n].ok
          THEN Read(Array(Items[in][n].value), Items[in][n].rest) ELSE Failed
    BY <1>3, ParseCounted
  <2> QED BY <2>2, <2>5, <2>6, <2>7
<1> QED BY <1>1, <1>2, <1>4, <1>5

(* What the items of an array of Values[n] are.                             *)
ItemSet(n) == IF n = 0 THEN {} ELSE Values[n - 1]

(* What a value of Values[n] is, field by field.                            *)
Shape(v, n) ==
    /\ v = RESPValue(v.type, v.nil, v.data, v.items)
    /\ v.type \in {Plus, Minus, Colon, Dollar, Star} /\ v.nil \in BOOLEAN
    /\ v.nil => v = NullBulkString
    /\ v.type \in {Plus, Minus} => v.data \in Seq(Byte \ {LF}) /\ v.items = <<>>
    /\ v.type = Colon => v.data[1] \in Int /\ v.data = <<v.data[1]>> /\ v.items = <<>>
    /\ v.type = Dollar => v.data \in Seq(Byte) /\ v.items = <<>>
    /\ v.type = Star => v.data = <<>> /\ v.items \in Seq(ItemSet(n))

(* The data of an integer.                                                  *)
LEMMA OneNumber ==
    ASSUME NEW s \in Seq(Int), Len(s) = 1
    PROVE  s[1] \in Int /\ s = <<s[1]>>
<1>1. s[1] \in Int
  <2>1. 1 \in 1 .. Len(s)
    OBVIOUS
  <2> QED BY <2>1, ElementOfSeq
<1>2. PICK t : t = <<s[1]>>
  OBVIOUS
<1>3. t \in Seq(Int) /\ Len(t) = 1 /\ t[1] = s[1]
  BY <1>1, <1>2
<1>4. Len(t) = Len(s) /\ \A i \in 1 .. Len(t) : t[i] = s[i]
  BY <1>3
<1>5. t = s
  BY <1>3, <1>4, SeqEqual
<1> QED BY <1>1, <1>2, <1>5

(* Every value of Values[n] is like that.                                   *)
LEMMA ValueShape ==
    ASSUME NEW n \in Nat, NEW v \in Values[n]
    PROVE  Shape(v, n)
<1>1. Values[n] = ValuesStep(Values, n)
  BY ValuesUnfold
<1>2. v \in [type : {Plus, Minus, Colon, Dollar, Star}, nil : BOOLEAN, data : Seq(Int), items : Seq(ItemSet(n))]
      /\ (v.nil => v = NullBulkString)
      /\ (v.type \in {Plus, Minus} => v.data \in Seq(Byte \ {LF}))
      /\ (v.type = Colon => Len(v.data) = 1)
      /\ (v.type = Dollar => v.data \in Seq(Byte))
      /\ (IF v.type = Star THEN v.data = <<>> ELSE v.items = <<>>)
  BY <1>1 DEF ValuesStep, ItemSet
<1>3. v.type \in {Plus, Minus, Colon, Dollar, Star} /\ v.nil \in BOOLEAN /\ v.data \in Seq(Int)
      /\ v.items \in Seq(ItemSet(n))
  BY <1>2
<1>4. v = RESPValue(v.type, v.nil, v.data, v.items)
  BY <1>2 DEF RESPValue
<1>5. v.type = Colon => v.data[1] \in Int /\ v.data = <<v.data[1]>>
  BY <1>2, <1>3, OneNumber
<1>6. \A x \in {Plus, Minus, Colon, Dollar} : x # Star
  BY DEF Plus, Minus, Colon, Dollar, Star
<1>7. v.type \in {Plus, Minus} => v.data \in Seq(Byte \ {LF}) /\ v.items = <<>>
  BY <1>2, <1>6
<1>8. v.type = Colon => v.items = <<>>
  BY <1>2, <1>6
<1>9. v.type = Dollar => v.data \in Seq(Byte) /\ v.items = <<>>
  BY <1>2, <1>6
<1>10. v.type = Star => v.data = <<>> /\ v.items \in Seq(ItemSet(n))
  BY <1>2, <1>3
<1>11. v.nil => v = NullBulkString
  BY <1>2
<1> QED BY <1>3, <1>4, <1>5, <1>7, <1>8, <1>9, <1>10, <1>11, Zenon DEF Shape

(* Encoder, case by case.                                                   *)
EncoderCase(v, n) ==
    CASE v.nil -> <<Dollar>> \o Number(-1) \o EOL
      [] v.type \in {Plus, Minus} -> <<v.type>> \o v.data \o EOL
      [] v.type = Colon -> <<Colon>> \o Number(v.data[1]) \o EOL
      [] v.type = Dollar /\ ~v.nil -> <<Dollar>> \o Number(Len(v.data)) \o EOL \o v.data \o EOL
      [] v.type = Star -> <<Star>> \o Number(Len(v.items)) \o EOL \o FlattenSeq(Encoded(Encoder[n - 1], v.items))

(* What the encoder writes of a value.                                      *)
LEMMA EncoderAt ==
    ASSUME NEW n \in Nat, NEW v \in Values[n]
    PROVE  Encoder[n][v] = EncoderCase(v, n)
<1>1. Encoder[n] = EncoderStep(Encoder, n)
  BY EncoderUnfolds
<1>2. EncoderStep(Encoder, n)[v] = EncoderCase(v, n)
  BY DEF EncoderStep, EncoderCase, Encoded
<1> QED BY <1>1, <1>2

(* These bytes are read as v, whatever follows.                             *)
Returns(bytes, v) == bytes \in Seq(Byte) /\ \A rest \in Seq(Byte) : Parse(bytes \o rest) = Read(v, rest)

(* The nil string is read back.                                             *)
LEMMA NilReturns == Returns(<<Dollar>> \o Number(-1) \o EOL, NullBulkString)
<1>1. Dollar \in Byte /\ -1 \in Int /\ <<>> \in Seq(Byte)
  BY Marks
<1>2. PICK n \in Int : n = -1
  BY <1>1
<1>3. (<<Dollar>> \o Number(n)) \o EOL = Counted(Dollar, n, <<>>)
  BY <1>1, CountedEmpty
<1>4. Counted(Dollar, n, <<>>) \in Seq(Byte)
  BY <1>1, CountedType
<1>5. ASSUME NEW rest \in Seq(Byte) PROVE Parse(Counted(Dollar, n, <<>>) \o rest) = Read(NullBulkString, rest)
  <2>1. Counted(Dollar, n, <<>>) \o rest = Counted(Dollar, n, <<>> \o rest)
    BY <1>1, CountedThen
  <2>2. <<>> \o rest = rest
    BY ConcatEmptySeq
  <2>3. Parse(Counted(Dollar, n, rest)) = Read(NullBulkString, rest)
    BY <1>1, <1>2, ParseCounted
  <2> QED BY <2>1, <2>2, <2>3
<1> QED BY <1>2, <1>3, <1>4, <1>5 DEF Returns

(* An integer is read back.                                                 *)
LEMMA IntegerReturns ==
    ASSUME NEW n \in Int
    PROVE  Returns(<<Colon>> \o Number(n) \o EOL, Integer(n))
<1>1. Colon \in Byte /\ <<>> \in Seq(Byte)
  BY Marks
<1>3. (<<Colon>> \o Number(n)) \o EOL = Counted(Colon, n, <<>>)
  BY <1>1, CountedEmpty
<1>4. Counted(Colon, n, <<>>) \in Seq(Byte)
  BY <1>1, CountedType
<1>5. ASSUME NEW rest \in Seq(Byte) PROVE Parse(Counted(Colon, n, <<>>) \o rest) = Read(Integer(n), rest)
  <2>1. Counted(Colon, n, <<>>) \o rest = Counted(Colon, n, <<>> \o rest)
    BY <1>1, CountedThen
  <2>2. <<>> \o rest = rest
    BY ConcatEmptySeq
  <2>3. Parse(Counted(Colon, n, rest)) = Read(Integer(n), rest)
    BY <1>1, ParseCounted
  <2> QED BY <2>1, <2>2, <2>3
<1> QED BY <1>3, <1>4, <1>5 DEF Returns

(* A bulk string, grouped as Encode does.                                   *)
LEMMA BulkIs ==
    ASSUME NEW s \in Seq(Byte)
    PROVE  <<Dollar>> \o Number(Len(s)) \o EOL \o s \o EOL = Bulk(s)
<1>1. PICK n \in Int : n = Len(s)
  BY BulkType
<1>2. PICK eol \in Seq(Byte) : eol = EOL
  BY Marks
<1>3. PICK num \in Seq(Byte) : num = Number(n)
  BY NumberType
<1>4. PICK one \in Seq(Byte) : one = <<Dollar>>
  <2>1. Dollar \in Byte
    BY Marks
  <2>2. <<Dollar>> \in Seq(Byte)
    BY ONLY <2>1
  <2> QED BY ONLY <2>2, Zenon
<1>5. PICK x \in Seq(Byte) : x = (one \o num) \o eol
  <2>1. one \o num \in Seq(Byte)
    BY Joined
  <2> QED BY <2>1, Joined
<1>6. Regroups(x, s, eol)
  BY Regrouped
<1>7. ((<<Dollar>> \o Number(n)) \o EOL) \o (s \o EOL) = Counted(Dollar, n, s \o EOL)
  BY BulkType, Marks, CountedIs
<1> QED BY ONLY <1>1, <1>2, <1>3, <1>4, <1>5, <1>6, <1>7, Zenon DEF Regroups, Bulk

(* A bulk string is read back.                                              *)
LEMMA BulkReturns ==
    ASSUME NEW s \in Seq(Byte)
    PROVE  Returns(<<Dollar>> \o Number(Len(s)) \o EOL \o s \o EOL, BulkString(s))
<1>1. Bulk(s) \in Seq(Byte)
  BY BulkType
<1>2. \A rest \in Seq(Byte) : Parse(Bulk(s) \o rest) = Read(BulkString(s), rest)
  BY BulkBack
<1>3. Returns(Bulk(s), BulkString(s))
  BY <1>1, <1>2 DEF Returns
<1> QED BY ONLY <1>3, BulkIs, Zenon, s \in Seq(Byte)

(* A simple string and an error are read back.                              *)
LEMMA LineReturns ==
    ASSUME NEW type \in {Plus, Minus}, NEW s \in Seq(Byte \ {LF})
    PROVE  Returns(<<type>> \o s \o EOL, RESPValue(type, FALSE, s, <<>>))
<1>1. <<>> \in Seq(Byte)
  OBVIOUS
<1>2. (<<type>> \o s) \o EOL \in Seq(Byte)
  BY <1>1, LineBack
<1>3. \A rest \in Seq(Byte) : Parse(((<<type>> \o s) \o EOL) \o rest) = Read(RESPValue(type, FALSE, s, <<>>), rest)
  BY LineBack
<1> QED BY <1>2, <1>3, Zenon DEF Returns

(* An array is read back when its items are.                                *)
LEMMA ArrayReturns ==
    ASSUME NEW e, NEW V, ReadsBack(e, V), NEW items \in Seq(V)
    PROVE  Returns(<<Star>> \o Number(Len(items)) \o EOL \o FlattenSeq(Encoded(e, items)), Array(items))
<1>1. PICK body : body = FlattenSeq(Encoded(e, items))
  OBVIOUS
<1>2. body \in Seq(Byte) /\ Len(items) \in Nat /\ Counted(Star, Len(items), body) \in Seq(Byte)
  BY <1>1, ArrayBack
<1>3. \A rest \in Seq(Byte) : Parse(Counted(Star, Len(items), body) \o rest) = Read(Array(items), rest)
  BY <1>1, ArrayBack
<1>4. PICK n \in Int : n = Len(items)
  BY <1>2
<1>5. Star \in Byte
  BY Marks
<1>6. ((<<Star>> \o Number(n)) \o EOL) \o body = Counted(Star, n, body)
  BY <1>2, <1>5, CountedIs
<1>7. Returns(Counted(Star, n, body), Array(items))
  BY <1>2, <1>3, <1>4 DEF Returns
<1> QED BY ONLY <1>1, <1>4, <1>6, <1>7, Zenon

(* What is nested one deeper is read back.                                  *)
LEMMA EncoderBack ==
    ASSUME NEW n \in Nat, ReadsBack(Encoder[n - 1], ItemSet(n))
    PROVE  ReadsBack(Encoder[n], Values[n])
<1> SUFFICES ASSUME NEW v \in Values[n] PROVE Returns(Encoder[n][v], v)
  BY DEF ReadsBack, Returns
<1>1. Shape(v, n)
  BY ValueShape
<1>2. PICK type, data, items : type = v.type /\ data = v.data /\ items = v.items
  OBVIOUS
<1>3. type \in {Plus, Minus, Colon, Dollar, Star}
  BY <1>1, <1>2 DEF Shape
<1>4. CASE v.nil
  <2>1. EncoderCase(v, n) = <<Dollar>> \o Number(-1) \o EOL
    <3>1. v.type = Dollar
      BY <1>1, <1>4 DEF Shape, NullBulkString, RESPValue
    <3> QED BY <1>4, <3>1 DEF EncoderCase, Plus, Minus, Colon, Dollar, Star
  <2>2. v = NullBulkString
    BY <1>1, <1>4 DEF Shape
  <2> QED BY <2>1, <2>2, EncoderAt, NilReturns
<1>5. CASE ~v.nil /\ type \in {Plus, Minus}
  <2>1. EncoderCase(v, n) = <<type>> \o data \o EOL
    <3>1. v.type \in {Plus, Minus} /\ ~v.nil /\ v.type # Colon /\ v.type # Dollar /\ v.type # Star
      BY <1>2, <1>5 DEF Plus, Minus, Colon, Dollar, Star
    <3>2. EncoderCase(v, n) = <<v.type>> \o v.data \o EOL
      BY ONLY <3>1, Zenon DEF EncoderCase
    <3> QED BY ONLY <1>2, <3>2, Zenon
  <2>2. data \in Seq(Byte \ {LF}) /\ v = RESPValue(type, FALSE, data, <<>>)
    BY <1>1, <1>2, <1>5 DEF Shape
  <2> QED BY <1>5, <2>1, <2>2, EncoderAt, LineReturns
<1>6. CASE ~v.nil /\ type = Colon
  <2>1. PICK k : k = data[1]
    OBVIOUS
  <2>2. EncoderCase(v, n) = <<Colon>> \o Number(k) \o EOL
    BY <1>2, <1>6, <2>1 DEF EncoderCase, Plus, Minus, Colon, Dollar, Star
  <2>3. k \in Int /\ v = Integer(k)
    BY <1>1, <1>2, <1>6, <2>1 DEF Shape, Integer
  <2> QED BY <2>2, <2>3, EncoderAt, IntegerReturns
<1>7. CASE ~v.nil /\ type = Dollar
  <2>1. EncoderCase(v, n) = <<Dollar>> \o Number(Len(data)) \o EOL \o data \o EOL
    <3>1. v.type = Dollar /\ ~v.nil /\ v.type # Colon /\ v.type \notin {Plus, Minus} /\ v.type # Star
      BY <1>2, <1>7 DEF Plus, Minus, Colon, Dollar, Star
    <3>2. EncoderCase(v, n) = <<Dollar>> \o Number(Len(v.data)) \o EOL \o v.data \o EOL
      BY ONLY <3>1, Zenon DEF EncoderCase
    <3> QED BY ONLY <1>2, <3>2, Zenon
  <2>2. data \in Seq(Byte) /\ v = BulkString(data)
    BY <1>1, <1>2, <1>7 DEF Shape, BulkString
  <2> QED BY <2>1, <2>2, EncoderAt, BulkReturns
<1>8. CASE ~v.nil /\ type = Star
  <2>1. EncoderCase(v, n) = <<Star>> \o Number(Len(items)) \o EOL \o FlattenSeq(Encoded(Encoder[n - 1], items))
    BY <1>2, <1>8 DEF EncoderCase, Plus, Minus, Colon, Dollar, Star
  <2>2. items \in Seq(ItemSet(n)) /\ v = Array(items)
    BY <1>1, <1>2, <1>8 DEF Shape, Array
  <2> QED BY <2>1, <2>2, EncoderAt, ArrayReturns
<1>9. v.nil \in BOOLEAN
  BY <1>1 DEF Shape
<1> QED BY <1>3, <1>4, <1>5, <1>6, <1>7, <1>8, <1>9

(* What is nested however deep is read back.                                *)
LEMMA EncodersBack ==
    \A n \in Nat : ReadsBack(Encoder[n], Values[n])
<1> DEFINE T == {n \in Nat : ReadsBack(Encoder[n], Values[n])}
<1>1. 0 \in T
  <2>1. PICK n \in Nat : n = 0
    OBVIOUS
  <2>2. ReadsBack(Encoder[n - 1], ItemSet(n))
    BY <2>1 DEF ReadsBack, ItemSet
  <2>3. ReadsBack(Encoder[n], Values[n])
    BY <2>2, EncoderBack
  <2> QED BY <2>1, <2>3
<1>2. ASSUME NEW n \in Nat, n \in T PROVE n + 1 \in T
  <2>1. PICK m \in Nat : m = n + 1
    OBVIOUS
  <2>2. m # 0 /\ m - 1 = n
    BY <2>1
  <2>3. ItemSet(m) = Values[n]
    BY <2>2 DEF ItemSet
  <2>4. ReadsBack(Encoder[m - 1], ItemSet(m))
    BY <1>2, <2>2, <2>3
  <2>5. ReadsBack(Encoder[m], Values[m])
    BY <2>4, EncoderBack
  <2> QED BY <2>1, <2>5
<1>3. \A n \in Nat : n \in T
  <2> HIDE DEF T
  <2> QED BY <1>1, <1>2, Induction
<1> QED BY <1>3

(* Frames are exact: what is written is what is read, and no more.          *)
LEMMA RoundTrip ==
    ASSUME NEW v \in Values[MaxDepth], NEW rest \in Seq(Byte)
    PROVE  Encode(v) \in Seq(Byte) /\ Parse(Encode(v) \o rest) = Read(v, rest)
<1>1. ReadsBack(Encoder[MaxDepth], Values[MaxDepth])
  BY EncodersBack, DepthAssumption
<1> QED BY <1>1 DEF ReadsBack, Encode
-----------------------------------------------------------------------------
(* The records of commands.                                                 *)

(* The record of a command in the file.                                     *)
Rec(c)        == Encode(toRESPArray(c))

(* The bulk strings of a record, as bytes.                                  *)
BulksOf(c)    == [i \in 1 .. Len(c) |-> Bulk(c[i])]

(* The same as values.                                                      *)
Strings(c)    == [i \in 1 .. Len(c) |-> BulkString(c[i])]

(* The records of commands, one behind the other.                           *)
Records(cmds) == FlattenSeq([i \in 1 .. Len(cmds) |-> Rec(cmds[i])])

(* A bulk string is a value of every depth.                                 *)
LEMMA BulkIsValue ==
    ASSUME NEW n \in Nat, NEW s \in Seq(Byte)
    PROVE  BulkString(s) \in Values[n] /\ Encoder[n][BulkString(s)] = Bulk(s)
<1>1. s \in Seq(Int)
  <2>1. Byte \subseteq Int
    BY DEF Byte
  <2> QED BY <2>1, SeqMonotonic
<1>2. BulkString(s) \in [type : {Plus, Minus, Colon, Dollar, Star}, nil : BOOLEAN, data : Seq(Int), items : Seq(ItemSet(n))]
  BY <1>1 DEF BulkString, RESPValue
<1>3. BulkString(s).type = Dollar /\ BulkString(s).nil = FALSE /\ BulkString(s).data = s
      /\ BulkString(s).items = <<>>
  BY DEF BulkString, RESPValue
<1>4. Dollar \notin {Plus, Minus} /\ Dollar # Colon /\ Dollar # Star
  BY DEF Plus, Minus, Colon, Dollar, Star
<1>5. BulkString(s) \in ValuesStep(Values, n)
  BY <1>2, <1>3, <1>4 DEF ValuesStep, ItemSet
<1>6. BulkString(s) \in Values[n]
  BY <1>5, ValuesUnfold
<1>7. EncoderCase(BulkString(s), n) = <<Dollar>> \o Number(Len(s)) \o EOL \o s \o EOL
  <2>1. PICK v : v = BulkString(s)
    OBVIOUS
  <2>2. v.type = Dollar /\ ~v.nil /\ v.type # Colon /\ v.type \notin {Plus, Minus} /\ v.type # Star /\ v.data = s
    BY <1>3, <1>4, <2>1
  <2>3. EncoderCase(v, n) = <<Dollar>> \o Number(Len(v.data)) \o EOL \o v.data \o EOL
    BY ONLY <2>2, Zenon DEF EncoderCase
  <2> QED BY ONLY <2>1, <2>2, <2>3, Zenon
<1> QED BY <1>6, <1>7, EncoderAt, BulkIs

(* So are the parts of a command.                                           *)
LEMMA StringsType ==
    ASSUME NEW n \in Nat, NEW c \in Seq(Seq(Byte))
    PROVE  /\ Strings(c) \in Seq(Values[n]) /\ Len(Strings(c)) = Len(c)
           /\ \A i \in 1 .. Len(c) : Strings(c)[i] = BulkString(c[i])
           /\ Encoded(Encoder[n], Strings(c)) = BulksOf(c)
<1>1. Len(c) \in Nat
  BY LenProperties
<1>2. ASSUME NEW i \in 1 .. Len(c) PROVE BulkString(c[i]) \in Values[n] /\ Encoder[n][BulkString(c[i])] = Bulk(c[i])
  <2>1. c[i] \in Seq(Byte)
    BY ElementOfSeq
  <2> QED BY <2>1, BulkIsValue
<1>3. PICK p : p = Strings(c)
  OBVIOUS
<1>4. p \in [1 .. Len(c) -> Values[n]] /\ \A i \in 1 .. Len(c) : p[i] = BulkString(c[i])
  BY <1>2, <1>3 DEF Strings
<1>5. p \in Seq(Values[n]) /\ Len(p) = Len(c)
  <2>1. PICK V : V = Values[n]
    OBVIOUS
  <2>2. p \in [1 .. Len(c) -> V]
    BY ONLY <1>4, <2>1, Zenon
  <2>3. p \in Seq(V) /\ Len(p) = Len(c)
    BY ONLY <1>1, <2>2
  <2> QED BY ONLY <2>1, <2>3, Zenon
<1>6. \A i \in 1 .. Len(c) : Encoder[n][p[i]] = Bulk(c[i])
  BY <1>2, <1>4
<1>7. Encoded(Encoder[n], p) = BulksOf(c)
  BY <1>5, <1>6 DEF Encoded, BulksOf
<1> QED BY <1>3, <1>4, <1>5, <1>7

(* toRESPArray makes a value that respArrayToCommand turns into the         *)
(* command.                                                                 *)
LEMMA CommandValue ==
    ASSUME NEW c \in AnyCommand
    PROVE  /\ toRESPArray(c) \in Values[MaxDepth]
           /\ IsCommand(toRESPArray(c))
           /\ Parts(toRESPArray(c)) = c
           /\ Rec(c) = Counted(Star, Len(c), FlattenSeq(BulksOf(c)))
<1>1. MaxDepth \in Nat /\ MaxDepth # 0
  BY DepthAssumption
<1>2. PICK m \in Nat : m = MaxDepth - 1
  BY <1>1
<1>3. ItemSet(MaxDepth) = Values[m]
  BY <1>1, <1>2 DEF ItemSet
<1>4. c \in Seq(Seq(Byte)) /\ c # <<>>
  BY DEF AnyCommand
<1>5. Len(c) \in Nat /\ Len(c) # 0
  BY <1>4, EmptyIff
<1>6. PICK items \in Seq(Values[m]) : items = Strings(c) /\ Len(items) = Len(c)
      /\ (\A i \in 1 .. Len(c) : items[i] = BulkString(c[i]))
                                      /\ Encoded(Encoder[m], items) = BulksOf(c)
  BY <1>4, StringsType
<1>7. PICK v : v = Array(items)
  OBVIOUS
<1>8. v = toRESPArray(c)
  BY <1>6, <1>7 DEF toRESPArray, Strings
<1>9. v.type = Star /\ v.nil = FALSE /\ v.data = <<>> /\ v.items = items
  BY <1>7 DEF Array, RESPValue
<1>10. Star \notin {Plus, Minus} /\ Star # Colon /\ Star # Dollar
  BY DEF Plus, Minus, Colon, Dollar, Star
<1>11. v \in Values[MaxDepth]
  <2>1. <<>> \in Seq(Int)
    OBVIOUS
  <2>2. v \in [type : {Plus, Minus, Colon, Dollar, Star}, nil : BOOLEAN, data : Seq(Int), items : Seq(ItemSet(MaxDepth))]
    BY <1>3, <1>7, <2>1 DEF Array, RESPValue
  <2>3. v \in ValuesStep(Values, MaxDepth)
    BY <1>9, <1>10, <2>2 DEF ValuesStep, ItemSet
  <2> QED BY <1>1, <2>3, ValuesUnfold
<1>12. IsCommand(v)
  <2>1. items # <<>>
    BY <1>5, <1>6, NotEmpty
  <2>2. \A i \in 1 .. Len(items) : items[i].type = Dollar
    <3>1. \A s : BulkString(s).type = Dollar
      BY DEF BulkString, RESPValue
    <3>2. ASSUME NEW i \in 1 .. Len(items) PROVE items[i].type = Dollar
      <4>1. items[i] = BulkString(c[i])
        BY <1>6
      <4> QED BY <3>1, <4>1
    <3> QED BY <3>2
  <2> QED BY <1>9, <2>1, <2>2 DEF IsCommand
<1>13. Parts(v) = c
  <2>1. \A i \in 1 .. Len(items) : items[i].data = c[i]
    <3>1. \A s : BulkString(s).data = s
      BY DEF BulkString, RESPValue
    <3>2. ASSUME NEW i \in 1 .. Len(items) PROVE items[i].data = c[i]
      <4>1. items[i] = BulkString(c[i])
        BY <1>6
      <4> QED BY <3>1, <4>1
    <3> QED BY <3>2
  <2>2. Parts(v) = [i \in 1 .. Len(c) |-> c[i]]
    BY <1>6, <1>9, <2>1 DEF Parts
  <2>3. c = [i \in 1 .. Len(c) |-> c[i]]
    BY <1>4, LenProperties
  <2> QED BY <2>2, <2>3
<1>14. Encode(v) = Counted(Star, Len(c), FlattenSeq(BulksOf(c)))
  <2>1. EncoderCase(v, MaxDepth) = <<Star>> \o Number(Len(v.items)) \o EOL \o FlattenSeq(Encoded(Encoder[MaxDepth - 1], v.items))
    <3>1. v.type = Star /\ ~v.nil /\ v.type # Colon /\ v.type \notin {Plus, Minus} /\ v.type # Dollar
      BY <1>9, <1>10
    <3> QED BY ONLY <3>1, Zenon DEF EncoderCase
  <2>2. ReadsBack(Encoder[m], Values[m])
    BY EncodersBack
  <2>3. PICK body \in Seq(Byte) : body = FlattenSeq(Encoded(Encoder[m], items))
    BY <2>2, EncodedType, FlattenType
  <2>4. PICK n \in Int : n = Len(items)
    BY <1>5, <1>6
  <2>5. ((<<Star>> \o Number(n)) \o EOL) \o body = Counted(Star, n, body)
    BY CountedIs, Marks
  <2>6. Encode(v) = EncoderCase(v, MaxDepth)
    BY <1>1, <1>11, EncoderAt DEF Encode
  <2> QED BY ONLY <1>2, <1>6, <1>9, <2>1, <2>3, <2>4, <2>5, <2>6, Zenon
<1> QED BY <1>8, <1>11, <1>12, <1>13, <1>14 DEF Rec

(* A record in front is replayed as its command.                            *)
LEMMA CommandReplayed ==
    ASSUME NEW c \in AnyCommand, NEW rest \in Seq(Byte)
    PROVE  Rec(c) \in Seq(Byte) /\ Replayed[Rec(c) \o rest] = <<c>> \o Replayed[rest]
<1>1. PICK v \in Values[MaxDepth] : v = toRESPArray(c)
  BY CommandValue
<1>2. PICK r \in Seq(Byte) : r = Rec(c) /\ Parse(r \o rest) = Read(v, rest)
  BY <1>1, RoundTrip DEF Rec
<1>3. PICK in \in Seq(Byte) : in = r \o rest
  BY Joined
<1>4. Parse(in) = Read(v, rest) /\ IsCommand(v) /\ Parts(v) = c
  BY <1>1, <1>2, <1>3, CommandValue
<1>5. Replayed[in] = <<c>> \o Replayed[rest]
  BY <1>4, ReplayedOf
<1> QED BY <1>2, <1>3, <1>5

(* The records, as a list.                                                  *)
RecList(cmds) == [i \in 1 .. Len(cmds) |-> Rec(cmds[i])]

(* They are bytes.                                                          *)
LEMMA RecListType ==
    ASSUME NEW w \in Seq(AnyCommand)
    PROVE  RecList(w) \in Seq(Seq(Byte)) /\ Len(RecList(w)) = Len(w)
        /\ \A i \in 1 .. Len(w) : RecList(w)[i] = Rec(w[i])
<1>1. Len(w) \in Nat
  BY LenProperties
<1>2. ASSUME NEW i \in 1 .. Len(w) PROVE Rec(w[i]) \in Seq(Byte)
  <2>1. w[i] \in AnyCommand
    BY ElementOfSeq
  <2>2. <<>> \in Seq(Byte)
    OBVIOUS
  <2> QED BY <2>1, <2>2, CommandReplayed
<1>3. PICK p : p = RecList(w)
  OBVIOUS
<1>4. p \in [1 .. Len(w) -> Seq(Byte)] /\ \A i \in 1 .. Len(w) : p[i] = Rec(w[i])
  BY <1>2, <1>3 DEF RecList
<1>5. p \in Seq(Seq(Byte)) /\ Len(p) = Len(w)
  BY <1>1, <1>4
<1> QED BY <1>3, <1>4, <1>5

(* The records one behind the other are bytes.                              *)
LEMMA RecordsType ==
    ASSUME NEW w \in Seq(AnyCommand)
    PROVE  Records(w) \in Seq(Byte)
BY RecListType, FlattenType DEF Records, RecList

(* No commands, no records.                                                 *)
LEMMA RecordsNone == Records(<<>>) = <<>>
<1>1. PICK w \in Seq(AnyCommand) : w = <<>>
  BY EmptySeq
<1>2. PICK p \in Seq(Seq(Byte)) : p = RecList(w) /\ Len(p) = Len(w)
  BY RecListType
<1>3. p = <<>>
  BY <1>1, <1>2, LengthOfEmpty, EmptyIff
<1> QED BY <1>1, <1>2, <1>3, FlattenEmpty DEF Records, RecList

(* The record of one more command is put at the end.                        *)
LEMMA RecordsAppend ==
    ASSUME NEW w \in Seq(AnyCommand), NEW c \in AnyCommand
    PROVE  Records(Append(w, c)) = Records(w) \o Rec(c)
<1>1. PICK x \in Seq(AnyCommand) : x = Append(w, c) /\ Len(x) = Len(w) + 1
      /\ (\A i \in 1 .. Len(w) : x[i] = w[i]) /\ x[Len(w) + 1] = c
  <2>1. Append(w, c) \in Seq(AnyCommand) /\ Len(Append(w, c)) = Len(w) + 1
        /\ (\A i \in 1 .. Len(w) : Append(w, c)[i] = w[i]) /\ Append(w, c)[Len(w) + 1] = c
    BY AppendProperties
  <2> QED BY ONLY <2>1, Zenon
<1>2. PICK p \in Seq(Seq(Byte)) : p = RecList(w) /\ Len(p) = Len(w) /\ \A i \in 1 .. Len(w) : p[i] = Rec(w[i])
  BY RecListType
<1>3. PICK q \in Seq(Seq(Byte)) : q = RecList(x) /\ Len(q) = Len(x) /\ \A i \in 1 .. Len(x) : q[i] = Rec(x[i])
  BY RecListType
<1>4. PICK r \in Seq(Byte) : r = Rec(c)
  <2>1. <<>> \in Seq(Byte)
    OBVIOUS
  <2> QED BY <2>1, CommandReplayed
<1>5. Len(w) \in Nat
  BY LenProperties
<1>6. PICK y \in Seq(Seq(Byte)) : y = Append(p, r) /\ Len(y) = Len(p) + 1
      /\ (\A i \in 1 .. Len(p) : y[i] = p[i]) /\ y[Len(p) + 1] = r
  <2>1. Append(p, r) \in Seq(Seq(Byte)) /\ Len(Append(p, r)) = Len(p) + 1
        /\ (\A i \in 1 .. Len(p) : Append(p, r)[i] = p[i]) /\ Append(p, r)[Len(p) + 1] = r
    BY AppendProperties
  <2> QED BY ONLY <2>1, Zenon
<1>7. Len(q) = Len(y)
  BY <1>1, <1>2, <1>3, <1>6
<1>8. ASSUME NEW i \in 1 .. Len(q) PROVE q[i] = y[i]
  <2>1. i \in 1 .. Len(x) /\ (i \in 1 .. Len(w) \/ i = Len(w) + 1)
    BY <1>1, <1>3, <1>5
  <2>2. q[i] = Rec(x[i])
    BY <1>3, <2>1
  <2>3. CASE i \in 1 .. Len(w)
    BY <1>1, <1>2, <1>6, <2>2, <2>3
  <2>4. CASE i = Len(w) + 1
    <3>1. x[i] = c
      BY <1>1, <2>4
    <3>2. y[i] = r
      BY <1>2, <1>6, <2>4
    <3> QED BY <1>4, <2>2, <3>1, <3>2
  <2> QED BY <2>1, <2>3, <2>4
<1>9. q = y
  BY <1>7, <1>8, SeqEqual
<1>10. FlattenSeq(y) = FlattenSeq(p) \o r
  BY <1>6, FlattenAppend
<1> QED BY ONLY <1>1, <1>2, <1>3, <1>4, <1>9, <1>10, Zenon DEF Records, RecList
-----------------------------------------------------------------------------
(* Records in front are replayed, whatever follows.                         *)

(* The commands of whole records are replayed before what is behind them.   *)
ReplaysFirst(w, tail) == Replayed[Records(w) \o tail] = w \o Replayed[tail]

(* That is so of every list of commands and all bytes behind them.          *)
LEMMA RecordsReplayed ==
    \A n \in Nat : \A w \in Seq(AnyCommand), tail \in Seq(Byte) : Len(w) = n => ReplaysFirst(w, tail)
<1> DEFINE T == {n \in Nat : \A w \in Seq(AnyCommand), tail \in Seq(Byte) : Len(w) = n => ReplaysFirst(w, tail)}
<1>1. 0 \in T
  <2> SUFFICES ASSUME NEW w \in Seq(AnyCommand), NEW tail \in Seq(Byte), Len(w) = 0 PROVE ReplaysFirst(w, tail)
    OBVIOUS
  <2>1. w = <<>>
    BY EmptyIff
  <2>2. <<>> \o tail = tail
    BY ConcatEmptySeq
  <2>3. PICK r \in Seq(AnyCommand) : r = Replayed[tail]
    BY ReplayedType
  <2>4. <<>> \o r = r
    BY ConcatEmptySeq
  <2> QED BY ONLY <2>1, <2>2, <2>3, <2>4, RecordsNone, Zenon DEF ReplaysFirst
<1>2. ASSUME NEW n \in Nat, n \in T PROVE n + 1 \in T
  <2> SUFFICES ASSUME NEW w \in Seq(AnyCommand), NEW tail \in Seq(Byte), Len(w) = n + 1 PROVE ReplaysFirst(w, tail)
    OBVIOUS
  <2>1. Len(w) # 0
    OBVIOUS
  <2>2. PICK f \in Seq(AnyCommand), c \in AnyCommand : w = Append(f, c) /\ Len(f) = Len(w) - 1
    BY <2>1, FrontAndLast
  <2>3. Len(f) = n
    BY <2>2
  <2>4. PICK r \in Seq(Byte) : r = Rec(c)
    BY CommandReplayed
  <2>5. PICK b \in Seq(Byte) : b = Records(f)
    BY RecordsType
  <2>6. PICK more \in Seq(Byte) : more = r \o tail
    BY Joined
  <2>7. Records(w) = b \o r
    BY <2>2, <2>4, <2>5, RecordsAppend
  <2>8. Records(w) \o tail = b \o more
    <3>1. Regroups(b, r, tail)
      BY Regrouped
    <3> QED BY ONLY <2>6, <2>7, <3>1, Zenon DEF Regroups
  <2>9. ReplaysFirst(f, more)
    BY <1>2, <2>3
  <2>10. PICK rest \in Seq(AnyCommand) : rest = Replayed[tail]
    BY ReplayedType
  <2>11. Replayed[more] = <<c>> \o rest
    BY <2>4, <2>6, <2>10, CommandReplayed
  <2>12. f \o (<<c>> \o rest) = Append(f, c) \o rest
    <3>1. PICK one \in Seq(AnyCommand) : one = <<c>>
      <4>1. <<c>> \in Seq(AnyCommand)
        BY ONLY c \in AnyCommand
      <4> QED BY ONLY <4>1, Zenon
    <3>2. f \o one = Append(f, c)
      BY <3>1, Snoc1
    <3>3. Regroups(f, one, rest)
      BY Associates
    <3> QED BY ONLY <3>1, <3>2, <3>3, Zenon DEF Regroups
  <2> QED BY ONLY <2>2, <2>5, <2>8, <2>9, <2>10, <2>11, <2>12, Zenon DEF ReplaysFirst
<1>3. \A n \in Nat : n \in T
  <2> HIDE DEF T
  <2> QED BY <1>1, <1>2, Induction
<1> QED BY <1>3

(* Bytes that begin with the mark of an array.                              *)
BeginsStar(s) == \E more \in Seq(Byte) : s = <<Star>> \o more

(* A record does, and it is a count and bulk strings.                       *)
LEMMA RecBegins ==
    ASSUME NEW c \in AnyCommand
    PROVE  /\ Rec(c) \in Seq(Byte) /\ BeginsStar(Rec(c))
           /\ Len(c) \in Nat /\ Len(c) # 0
           /\ BulksOf(c) \in Seq(Seq(Byte)) /\ FlattenSeq(BulksOf(c)) \in Seq(Byte)
           /\ Rec(c) = Counted(Star, Len(c), FlattenSeq(BulksOf(c)))
<1>1. c \in Seq(Seq(Byte)) /\ c # <<>>
  BY DEF AnyCommand
<1>2. Len(c) \in Nat /\ Len(c) # 0
  BY <1>1, EmptyIff
<1>3. PICK p : p = BulksOf(c)
  OBVIOUS
<1>4. ASSUME NEW i \in 1 .. Len(c) PROVE Bulk(c[i]) \in Seq(Byte)
  <2>1. c[i] \in Seq(Byte)
    BY <1>1, ElementOfSeq
  <2> QED BY <2>1, BulkType
<1>5. p \in [1 .. Len(c) -> Seq(Byte)]
  BY <1>3, <1>4 DEF BulksOf
<1>6. p \in Seq(Seq(Byte))
  BY <1>2, <1>5
<1>7. PICK body \in Seq(Byte) : body = FlattenSeq(BulksOf(c))
  BY <1>3, <1>6, FlattenType
<1>8. PICK n \in Int : n = Len(c)
  BY <1>2
<1>9. PICK more \in Seq(Byte) : more = Number(n) \o (EOL \o body)
  BY CountedType, Marks
<1>10. Rec(c) = Counted(Star, n, body)
  BY <1>7, <1>8, CommandValue
<1>11. Rec(c) = <<Star>> \o more
  BY <1>9, <1>10 DEF Counted
<1>12. Rec(c) \in Seq(Byte)
  BY <1>10, CountedType, Marks
<1>13. BeginsStar(Rec(c))
  BY ONLY <1>11, <1>9, Zenon DEF BeginsStar
<1> QED BY <1>2, <1>3, <1>6, <1>7, <1>8, <1>10, <1>12, <1>13

(* What it means for the first byte.                                        *)
LEMMA BeginsIs ==
    ASSUME NEW s, BeginsStar(s)
    PROVE  s \in Seq(Byte) /\ s # <<>> /\ s[1] = Star
BY Marks, FirstByte DEF BeginsStar

(* Bytes behind do not change it.                                           *)
LEMMA BeginsThen ==
    ASSUME NEW s, BeginsStar(s), NEW t \in Seq(Byte)
    PROVE  BeginsStar(s \o t)
<1>1. PICK more \in Seq(Byte) : s = <<Star>> \o more
  BY DEF BeginsStar
<1>2. PICK one \in Seq(Byte) : one = <<Star>>
  <2>1. <<Star>> \in Seq(Byte)
    BY ONLY Marks
  <2> QED BY ONLY <2>1, Zenon
<1>3. Regroups(one, more, t)
  BY Regrouped
<1>4. more \o t \in Seq(Byte)
  BY Joined
<1>5. s \o t = <<Star>> \o (more \o t)
  BY ONLY <1>1, <1>2, <1>3, Zenon DEF Regroups
<1> QED BY <1>4, <1>5 DEF BeginsStar

(* Records begin with it, so the file is not taken for one of the older     *)
(* format.                                                                  *)
LEMMA RecordsBegin ==
    ASSUME NEW w \in Seq(AnyCommand), Len(w) # 0
    PROVE  BeginsStar(Records(w))
<1> DEFINE T == {n \in Nat : \A x \in Seq(AnyCommand) : Len(x) = n /\ n # 0 => BeginsStar(Records(x))}
<1>1. 0 \in T
  OBVIOUS
<1>2. ASSUME NEW n \in Nat, n \in T PROVE n + 1 \in T
  <2> SUFFICES ASSUME NEW x \in Seq(AnyCommand), Len(x) = n + 1 PROVE BeginsStar(Records(x))
    OBVIOUS
  <2>1. Len(x) # 0
    OBVIOUS
  <2>2. PICK f \in Seq(AnyCommand), c \in AnyCommand : x = Append(f, c) /\ Len(f) = Len(x) - 1
    BY <2>1, FrontAndLast
  <2>3. Len(f) = n
    BY <2>2
  <2>4. PICK r \in Seq(Byte) : r = Rec(c)
    BY RecBegins
  <2>5. BeginsStar(r)
    BY <2>4, RecBegins
  <2>6. Records(x) = Records(f) \o r
    BY <2>2, <2>4, RecordsAppend
  <2>7. CASE n # 0
    <3>1. BeginsStar(Records(f))
      BY <1>2, <2>3, <2>7
    <3> QED BY <2>6, <3>1, BeginsThen
  <2>8. CASE n = 0
    <3>1. f = <<>>
      BY <2>3, <2>8, EmptyIff
    <3>2. <<>> \o r = r
      BY ConcatEmptySeq
    <3> QED BY ONLY <2>5, <2>6, <3>1, <3>2, RecordsNone, Zenon
  <2> QED BY <2>7, <2>8
<1>3. \A n \in Nat : n \in T
  <2> HIDE DEF T
  <2> QED BY <1>1, <1>2, Induction
<1> QED BY <1>3, LenProperties

(* p is a beginning of s, and not all of it.                                *)
Cut(p, s) == \E n \in 0 .. Len(s) - 1 : p = SubSeq(s, 1, n)

(* A beginning is a shorter sequence of the same elements.                  *)
LEMMA CutType ==
    ASSUME NEW T, NEW s \in Seq(T), NEW p, Cut(p, s)
    PROVE  p \in Seq(T) /\ Len(p) \in Nat /\ Len(p) < Len(s) /\ \A i \in 1 .. Len(p) : p[i] = s[i]
<1>1. PICK n \in 0 .. Len(s) - 1 : p = SubSeq(s, 1, n)
  BY DEF Cut
<1>2. Len(s) \in Nat
  BY LenProperties
<1>3. n \in 0 .. Len(s) /\ n \in Nat /\ n < Len(s)
  BY <1>2
<1>4. p \in Seq(T) /\ Len(p) = n /\ \A i \in 1 .. n : p[i] = s[i]
  BY <1>1, <1>3, BeginningType
<1> QED BY <1>3, <1>4

(* And whatever is that is a beginning.                                     *)
LEMMA CutIs ==
    ASSUME NEW T, NEW s \in Seq(T), NEW p \in Seq(T), Len(p) < Len(s), \A i \in 1 .. Len(p) : p[i] = s[i]
    PROVE  Cut(p, s)
<1>1. Len(s) \in Nat /\ Len(p) \in Nat
  BY LenProperties
<1>2. PICK n \in 0 .. Len(s) - 1 : n = Len(p)
  BY <1>1
<1>3. n \in 0 .. Len(s)
  BY <1>1
<1>4. PICK q : q = SubSeq(s, 1, n)
  OBVIOUS
<1>5. q \in Seq(T) /\ Len(q) = n /\ \A i \in 1 .. n : q[i] = s[i]
  BY <1>3, <1>4, BeginningType
<1>6. Len(p) = Len(q) /\ \A i \in 1 .. Len(p) : p[i] = q[i]
  BY <1>2, <1>5
<1>7. p = q
  BY <1>5, <1>6, SeqEqual
<1> QED BY <1>4, <1>7 DEF Cut

(* A beginning of a then b ends in a or in b.                               *)
CutsApart(p, a, b) == Cut(p, a) \/ \E m \in Seq(Byte) : Cut(m, b) /\ p = a \o m

(* Every one does.                                                          *)
LEMMA CutOfJoined ==
    \A a, b \in Seq(Byte) : \A p : Cut(p, a \o b) => CutsApart(p, a, b)
<1> SUFFICES ASSUME NEW a \in Seq(Byte), NEW b \in Seq(Byte), NEW p, Cut(p, a \o b)
             PROVE  Cut(p, a) \/ \E m \in Seq(Byte) : Cut(m, b) /\ p = a \o m
  BY DEF CutsApart
<1>1. PICK s \in Seq(Byte) : s = a \o b /\ Len(s) = Len(a) + Len(b)
                             /\ \A i \in 1 .. Len(a) + Len(b) : s[i] = IF i <= Len(a) THEN a[i] ELSE b[i - Len(a)]
  <2>1. a \o b \in Seq(Byte) /\ Len(a \o b) = Len(a) + Len(b)
        /\ \A i \in 1 .. Len(a) + Len(b) : (a \o b)[i] = IF i <= Len(a) THEN a[i] ELSE b[i - Len(a)]
    BY Joined
  <2> QED BY ONLY <2>1, Zenon
<1>2. Len(a) \in Nat /\ Len(b) \in Nat
  BY LenProperties
<1>3. p \in Seq(Byte) /\ Len(p) \in Nat /\ Len(p) < Len(s) /\ \A i \in 1 .. Len(p) : p[i] = s[i]
  <2>1. Cut(p, s)
    BY <1>1
  <2> QED BY <2>1, CutType
<1>4. CASE Len(p) < Len(a)
  <2>1. ASSUME NEW i \in 1 .. Len(p) PROVE p[i] = a[i]
    <3>1. i \in 1 .. Len(a) + Len(b) /\ i <= Len(a)
      BY <1>2, <1>3, <1>4
    <3>2. s[i] = a[i]
      BY <1>1, <3>1
    <3> QED BY <1>3, <3>2
  <2>2. Cut(p, a)
    BY <1>3, <1>4, <2>1, CutIs
  <2> QED BY <2>2
<1>5. CASE Len(p) >= Len(a)
  <2>1. PICK n \in 0 .. Len(b) : n = Len(p) - Len(a)
    BY <1>1, <1>2, <1>3, <1>5
  <2>2. n < Len(b)
    BY <1>1, <1>2, <1>3, <2>1
  <2>3. PICK m \in Seq(Byte) : m = SubSeq(b, 1, n) /\ Len(m) = n /\ \A i \in 1 .. n : m[i] = b[i]
    <3>1. SubSeq(b, 1, n) \in Seq(Byte) /\ Len(SubSeq(b, 1, n)) = n /\ \A i \in 1 .. n : SubSeq(b, 1, n)[i] = b[i]
      BY ONLY <2>1, b \in Seq(Byte), BeginningType
    <3> QED BY ONLY <3>1, Zenon
  <2>4. Cut(m, b)
    BY <2>2, <2>3, CutIs
  <2>5. PICK q \in Seq(Byte) : q = a \o m /\ Len(q) = Len(a) + Len(m)
                             /\ \A i \in 1 .. Len(a) + Len(m) : q[i] = IF i <= Len(a) THEN a[i] ELSE m[i - Len(a)]
    <3>1. a \o m \in Seq(Byte) /\ Len(a \o m) = Len(a) + Len(m)
          /\ \A i \in 1 .. Len(a) + Len(m) : (a \o m)[i] = IF i <= Len(a) THEN a[i] ELSE m[i - Len(a)]
      BY Joined
    <3> QED BY ONLY <3>1, Zenon
  <2>6. Len(p) = Len(q)
    BY <1>2, <1>3, <2>1, <2>3, <2>5
  <2>7. ASSUME NEW i \in 1 .. Len(p) PROVE p[i] = q[i]
    <3>1. i \in 1 .. Len(a) + Len(b) /\ i \in 1 .. Len(a) + Len(m)
      BY <1>1, <1>2, <1>3, <2>5, <2>6
    <3>2. CASE i <= Len(a)
      <4>1. s[i] = a[i] /\ q[i] = a[i]
        BY <1>1, <2>5, <3>1, <3>2
      <4> QED BY <1>3, <4>1
    <3>3. CASE ~(i <= Len(a))
      <4>1. s[i] = b[i - Len(a)] /\ q[i] = m[i - Len(a)]
        BY <1>1, <2>5, <3>1, <3>3
      <4>2. i - Len(a) \in 1 .. n
        BY <1>2, <1>3, <2>1, <3>3
      <4>3. m[i - Len(a)] = b[i - Len(a)]
        BY <2>3, <4>2
      <4> QED BY <1>3, <4>1, <4>3
    <3> QED BY <3>2, <3>3
  <2>8. p = q
    BY <1>3, <2>6, <2>7, SeqEqual
  <2> QED BY <2>4, <2>5, <2>8
<1> QED BY <1>2, <1>3, <1>4, <1>5
-----------------------------------------------------------------------------
(* A torn record is not.                                                    *)

(* Nothing is no number.                                                    *)
LEMMA ReadNothing == ReadNumber(<<>>) = Failed
<1>1. <<>> \in Seq(Byte) /\ Len(<<>>) = 0
  OBVIOUS
<1>2. SkipSpaces(<<>>) = <<>>
  BY <1>1, NothingToSkip
<1>3. Span(<<>>, Digit) = 0
  <2>1. PICK s \in Seq(Byte) : s = <<>> /\ Len(s) = 0
    BY <1>1
  <2>2. Span(s, Digit) \in 0 .. Len(s)
    BY SpanIs
  <2> QED BY <2>1, <2>2
<1> QED BY <1>2, <1>3 DEF ReadNumber

(* A beginning of one byte is nothing.                                      *)
LEMMA CutOfOne ==
    ASSUME NEW x \in Byte, NEW p, Cut(p, <<x>>)
    PROVE  p = <<>>
<1>1. PICK one \in Seq(Byte) : one = <<x>> /\ Len(one) = 1
  <2>1. <<x>> \in Seq(Byte) /\ Len(<<x>>) = 1
    BY ONLY x \in Byte
  <2> QED BY ONLY <2>1, Zenon
<1>2. Cut(p, one)
  BY <1>1
<1>3. p \in Seq(Byte) /\ Len(p) \in Nat /\ Len(p) < Len(one)
  BY <1>2, CutType
<1>4. Len(p) = 0
  BY <1>1, <1>3
<1> QED BY <1>3, <1>4, EmptyIff

(* A beginning of a line's end.                                             *)
LEMMA CutOfEOL ==
    ASSUME NEW p, Cut(p, EOL)
    PROVE  LineEnds(p, <<>>)
<1>1. PICK cr \in Seq(Byte), lf \in Seq(Byte) : cr = <<CR>> /\ lf = <<LF>> /\ EOL = cr \o lf
  BY Marks
<1>2. CR \in Byte /\ LF \in Byte
  BY DEF CR, LF, Byte
<1>3. Cut(p, cr) \/ \E m \in Seq(Byte) : Cut(m, lf) /\ p = cr \o m
  <2>1. CutsApart(p, cr, lf)
    BY <1>1, CutOfJoined
  <2> QED BY ONLY <2>1, Zenon DEF CutsApart
<1>4. CASE Cut(p, cr)
  <2>1. p = <<>>
    BY <1>1, <1>2, <1>4, CutOfOne
  <2> QED BY <2>1 DEF LineEnds
<1>5. CASE \E m \in Seq(Byte) : Cut(m, lf) /\ p = cr \o m
  <2>1. PICK m \in Seq(Byte) : Cut(m, lf) /\ p = cr \o m
    BY <1>5
  <2>2. m = <<>>
    BY <1>1, <1>2, <2>1, CutOfOne
  <2>3. cr \o <<>> = cr
    BY ConcatEmptySeq
  <2>4. p = <<CR>>
    BY <1>1, <2>1, <2>2, <2>3
  <2> QED BY <2>4 DEF LineEnds
<1> QED BY <1>3, <1>4, <1>5

(* What is left of a number, its newline and its body.                      *)
TornNumber(q, n, body) ==
    \/ q = <<>>
    \/ \E k \in Nat : ReadNumber(q) = Read(k, <<>>) /\ (n # 0 => k >= 1)
    \/ \E m \in Seq(Byte) : Cut(m, body) /\ q = Number(n) \o (EOL \o m)

(* Digits that the end of the file cuts off are a number of at least 1,     *)
(* with nothing behind it.                                                  *)
LEMMA DigitsTorn ==
    ASSUME NEW d \in Seq(Digit), Len(d) # 0, NEW t, LineEnds(t, <<>>), NEW n \in Nat, n # 0 => d[1] # Zero, NEW body
    PROVE  TornNumber(d \o t, n, body)
<1>1. PICK k \in Nat : k = NumberOf(d) /\ (d[1] # Zero => k >= 1)
  BY NumberOfDigits
<1>2. <<>> \in Seq(Byte)
  OBVIOUS
<1>3. ReadNumber(d \o t) = Read(k, <<>>)
  BY <1>1, <1>2, ReadDigits
<1>4. n # 0 => k >= 1
  BY <1>1
<1> QED BY <1>3, <1>4 DEF TornNumber

(* A number, its newline and its body are torn in one of those ways.        *)
LEMMA NumberTorn ==
    ASSUME NEW n \in Nat, NEW body \in Seq(Byte), NEW q, Cut(q, Number(n) \o (EOL \o body))
    PROVE  TornNumber(q, n, body)
<1>1. PICK d \in Seq(Digit) : d = Decimal[n] /\ Len(d) # 0 /\ (n # 0 => d[1] # Zero)
  BY DecimalIsNumber
<1>2. Number(n) = d
  BY <1>1 DEF Number
<1>3. d \in Seq(Byte)
  <2>1. Digit \subseteq Byte
    BY DEF Digit, Byte, Zero
  <2> QED BY <2>1, SeqMonotonic
<1>4. PICK eol \in Seq(Byte) : eol = EOL
  BY Marks
<1>5. PICK b \in Seq(Byte) : b = eol \o body
  BY Joined
<1>6. Cut(q, d \o b)
  BY <1>2, <1>4, <1>5
<1>7. Cut(q, d) \/ \E m \in Seq(Byte) : Cut(m, b) /\ q = d \o m
  <2>1. CutsApart(q, d, b)
    BY <1>3, <1>6, CutOfJoined
  <2> QED BY ONLY <2>1, Zenon DEF CutsApart
<1>8. CASE Cut(q, d)
  <2>1. q \in Seq(Digit) /\ Len(q) \in Nat /\ \A i \in 1 .. Len(q) : q[i] = d[i]
    BY <1>8, CutType
  <2>2. CASE Len(q) = 0
    <3>1. q = <<>>
      BY <2>1, <2>2, EmptyIff
    <3> QED BY <3>1 DEF TornNumber
  <2>3. CASE Len(q) # 0
    <3>1. 1 \in 1 .. Len(q)
      BY <2>1, <2>3
    <3>2. q[1] = d[1]
      BY <2>1, <3>1
    <3>3. LineEnds(<<>>, <<>>)
      BY DEF LineEnds
    <3>4. q \o <<>> = q
      BY <2>1, ConcatEmptySeq
    <3>5. TornNumber(q \o <<>>, n, body)
      BY <1>1, <2>1, <2>3, <3>2, <3>3, DigitsTorn
    <3> QED BY <3>4, <3>5
  <2> QED BY <2>2, <2>3
<1>9. CASE \E m \in Seq(Byte) : Cut(m, b) /\ q = d \o m
  <2>1. PICK m \in Seq(Byte) : Cut(m, b) /\ q = d \o m
    BY <1>9
  <2>2. Cut(m, eol) \/ \E r \in Seq(Byte) : Cut(r, body) /\ m = eol \o r
    <3>1. CutsApart(m, eol, body)
      BY <1>5, <2>1, CutOfJoined
    <3> QED BY ONLY <3>1, Zenon DEF CutsApart
  <2>3. CASE Cut(m, eol)
    <3>1. LineEnds(m, <<>>)
      BY <1>4, <2>3, CutOfEOL
    <3>2. TornNumber(d \o m, n, body)
      BY <1>1, <3>1, DigitsTorn
    <3> QED BY <2>1, <3>2
  <2>4. CASE \E r \in Seq(Byte) : Cut(r, body) /\ m = eol \o r
    <3>1. PICK r \in Seq(Byte) : Cut(r, body) /\ m = eol \o r
      BY <2>4
    <3>2. q = Number(n) \o (EOL \o r)
      BY <1>2, <1>4, <2>1, <3>1
    <3> QED BY <3>1, <3>2 DEF TornNumber
  <2> QED BY <2>2, <2>3, <2>4
<1> QED BY <1>7, <1>8, <1>9

(* So is what has a prefix.                                                 *)
LEMMA CountedTorn ==
    ASSUME NEW x \in Byte, NEW n \in Nat, NEW body \in Seq(Byte), NEW p, Cut(p, Counted(x, n, body))
    PROVE  \/ p = <<>>
           \/ \E q \in Seq(Byte) : p = <<x>> \o q /\ TornNumber(q, n, body)
<1>1. PICK one \in Seq(Byte) : one = <<x>>
  <2>1. <<x>> \in Seq(Byte)
    BY ONLY x \in Byte
  <2> QED BY ONLY <2>1, Zenon
<1>2. PICK s \in Seq(Byte) : s = Number(n) \o (EOL \o body)
  <2>1. n \in Int
    OBVIOUS
  <2> QED BY <2>1, CountedType
<1>3. Cut(p, one \o s)
  BY <1>1, <1>2 DEF Counted
<1>4. Cut(p, one) \/ \E m \in Seq(Byte) : Cut(m, s) /\ p = one \o m
  <2>1. CutsApart(p, one, s)
    BY <1>3, CutOfJoined
  <2> QED BY ONLY <2>1, Zenon DEF CutsApart
<1>5. CASE Cut(p, one)
  BY <1>1, <1>5, CutOfOne
<1>6. CASE \E m \in Seq(Byte) : Cut(m, s) /\ p = one \o m
  <2>1. PICK m \in Seq(Byte) : Cut(m, s) /\ p = one \o m
    BY <1>6
  <2>2. TornNumber(m, n, body)
    BY <1>2, <2>1, NumberTorn
  <2> QED BY <1>1, <2>1, <2>2
<1> QED BY <1>4, <1>5, <1>6

(* No beginning of a bulk string parses: io.ReadFull misses bytes.          *)
LEMMA BulkTorn ==
    ASSUME NEW s \in Seq(Byte), NEW p, Cut(p, Bulk(s))
    PROVE  ~Parse(p).ok
<1>1. PICK n \in Nat, body \in Seq(Byte) : n = Len(s) /\ body = s \o EOL /\ Len(body) = n + 2
  BY BulkType
<1>2. Dollar \in Byte
  BY Marks
<1>3. Cut(p, Counted(Dollar, n, body))
  BY <1>1 DEF Bulk
<1>4. CASE p = <<>>
  BY <1>4, ParseEmpty, ReadOk
<1>5. CASE \E q \in Seq(Byte) : p = <<Dollar>> \o q /\ TornNumber(q, n, body)
  <2>1. PICK q \in Seq(Byte) : p = <<Dollar>> \o q /\ TornNumber(q, n, body)
    BY <1>5
  <2>2. Parse(p) = ParseBulkString(q)
    <3>1. p # <<>> /\ p[1] = Dollar /\ From(p, 2) = q
      BY <1>2, <2>1, FirstByte
    <3> QED BY <3>1 DEF Parse, ParseWith, Plus, Minus, Colon, Dollar, Star
  <2>3. CASE q = <<>>
    <3>1. ~ReadNumber(q).ok
      BY <2>3, ReadNothing, ReadOk
    <3>2. ParseBulkString(q) = Failed
      BY <3>1 DEF ParseBulkString
    <3> QED BY <2>2, <3>2, ReadOk
  <2>4. CASE \E k \in Nat : ReadNumber(q) = Read(k, <<>>) /\ (n # 0 => k >= 1)
    <3>1. PICK k \in Nat : ReadNumber(q) = Read(k, <<>>)
      BY <2>4
    <3>2. PICK r : r = ReadNumber(q)
      OBVIOUS
    <3>3. r.ok /\ r.value = k /\ r.rest = <<>>
      BY <3>1, <3>2, ReadOk
    <3>4. k # -1 /\ Len(<<>>) < k + 2
      BY LengthOfEmpty
    <3>5. ParseBulkString(q) = Failed
      BY <3>2, <3>3, <3>4 DEF ParseBulkString
    <3> QED BY <2>2, <3>5, ReadOk
  <2>5. CASE \E m \in Seq(Byte) : Cut(m, body) /\ q = Number(n) \o (EOL \o m)
    <3>1. PICK m \in Seq(Byte) : Cut(m, body) /\ q = Number(n) \o (EOL \o m)
      BY <2>5
    <3>2. Len(m) < n + 2 /\ n \in Int /\ n # -1
      <4>1. Len(m) < Len(body)
        BY <3>1, CutType
      <4> QED BY <1>1, <4>1
    <3>3. p = Counted(Dollar, n, m)
      BY <2>1, <3>1 DEF Counted
    <3>4. Parse(Counted(Dollar, n, m)) = Failed
      BY <1>2, <3>2, ParseCounted
    <3> QED BY <3>3, <3>4, ReadOk
  <2> QED BY <2>1, <2>3, <2>4, <2>5 DEF TornNumber
<1> QED BY <1>2, <1>3, <1>4, <1>5, CountedTorn

(* No beginning of what e writes parses.                                    *)
TornFails(e, V) == \A v \in V : \A p : Cut(p, e[v]) => ~Parse(p).ok

(* Nothing has no beginning.                                                *)
LEMMA NothingCut ==
    ASSUME NEW p, Cut(p, <<>>)
    PROVE  FALSE
<1>1. PICK s \in Seq(Byte) : s = <<>>
  BY EmptySeq
<1>2. Len(p) \in Nat /\ Len(p) < Len(s)
  BY <1>1, CutType
<1> QED BY <1>1, <1>2, LengthOfEmpty

(* Items that are cut off are too few.                                      *)
LEMMA ItemsTorn ==
    ASSUME NEW e, NEW V, ReadsBack(e, V), TornFails(e, V)
    PROVE  \A n \in Nat : \A items \in Seq(V) : \A b :
              Len(items) = n /\ Cut(b, FlattenSeq(Encoded(e, items))) => ~Items[b][n].ok
<1> DEFINE T == {n \in Nat : \A items \in Seq(V) : \A b :
              Len(items) = n /\ Cut(b, FlattenSeq(Encoded(e, items))) => ~Items[b][n].ok}
<1>1. 0 \in T
  <2> SUFFICES ASSUME NEW items \in Seq(V), NEW b, Len(items) = 0, Cut(b, FlattenSeq(Encoded(e, items)))
               PROVE  FALSE
    OBVIOUS
  <2>1. PICK p \in Seq(Seq(Byte)) : p = Encoded(e, items) /\ Len(p) = Len(items)
    BY EncodedType
  <2>2. p = <<>>
    BY <2>1, EmptyIff
  <2>3. Cut(b, <<>>)
    BY <2>1, <2>2, FlattenEmpty
  <2> QED BY <2>3, NothingCut
<1>2. ASSUME NEW n \in Nat, n \in T PROVE n + 1 \in T
  <2> SUFFICES ASSUME NEW items \in Seq(V), NEW b, Len(items) = n + 1, Cut(b, FlattenSeq(Encoded(e, items)))
               PROVE  ~Items[b][n + 1].ok
    OBVIOUS
  <2>1. Len(items) # 0
    OBVIOUS
  <2>2. PICK x \in V, t \in Seq(V) : x = items[1] /\ t = Tail(items) /\ Len(t) = n
    <3>1. items[1] \in V /\ Tail(items) \in Seq(V) /\ Len(Tail(items)) = Len(items) - 1
      BY <2>1, HeadAndTail
    <3>2. Len(items) - 1 = n
      OBVIOUS
    <3> QED BY ONLY <3>1, <3>2, Zenon
  <2>3. PICK p \in Seq(Seq(Byte)) : p = Encoded(e, items) /\ Len(p) # 0
    BY <2>1, EncodedType
  <2>4. Tail(p) = Encoded(e, t) /\ p[1] = e[x]
    BY <2>1, <2>2, <2>3, EncodedTail
  <2>5. PICK h \in Seq(Byte) : h = e[x]
    BY <2>2 DEF ReadsBack
  <2>6. PICK f \in Seq(Byte) : f = FlattenSeq(Encoded(e, t))
    BY <2>2, EncodedType, FlattenType
  <2>7. FlattenSeq(p) = h \o f
    <3>1. FlattenSeq(p) = p[1] \o FlattenSeq(Tail(p))
      BY <2>3, FlattenTail
    <3> QED BY <2>4, <2>5, <2>6, <3>1
  <2>8. b \in Seq(Byte) /\ Cut(b, h \o f)
    <3>1. h \o f \in Seq(Byte)
      BY Joined
    <3>2. Cut(b, h \o f)
      BY <2>3, <2>7
    <3> QED BY <3>1, <3>2, CutType
  <2>9. CASE ~Parse(b).ok
    <3>1. Items[b][n + 1] = Failed
      BY <2>8, <2>9, ItemsMore
    <3> QED BY <3>1, ReadOk
  <2>10. CASE Parse(b).ok
    <3>1. ~Cut(b, h)
      BY <2>2, <2>5, <2>10 DEF TornFails
    <3>2. PICK m \in Seq(Byte) : Cut(m, f) /\ b = h \o m
      <4>1. CutsApart(b, h, f)
        BY <2>8, CutOfJoined
      <4> QED BY ONLY <3>1, <4>1, Zenon DEF CutsApart
    <3>3. Parse(b) = Read(x, m)
      BY <2>2, <2>5, <3>2 DEF ReadsBack
    <3>4. Parse(b).rest = m
      BY <3>3, ReadOk
    <3>5. ~Items[m][n].ok
      BY <1>2, <2>2, <2>6, <3>2
    <3>6. Items[b][n + 1] = Failed
      BY <2>8, <3>4, <3>5, ItemsMore
    <3> QED BY <3>6, ReadOk
  <2> QED BY <2>9, <2>10
<1>3. \A n \in Nat : n \in T
  <2> HIDE DEF T
  <2> QED BY <1>1, <1>2, Induction
<1> QED BY <1>3

(* The strings of a record that are left are too few.                       *)
LEMMA BulksTorn ==
    ASSUME NEW c \in Seq(Seq(Byte)), NEW b, Cut(b, FlattenSeq(BulksOf(c)))
    PROVE  ~Items[b][Len(c)].ok
<1> DEFINE V == {BulkString(s) : s \in Seq(Byte)}
<1>1. PICK e : e = Encoder[0]
  OBVIOUS
<1>2. \A s \in Seq(Byte) : BulkString(s) \in Values[0] /\ e[BulkString(s)] = Bulk(s)
  BY <1>1, BulkIsValue
<1>3. ReadsBack(e, V)
  <2>1. ReadsBack(e, Values[0])
    BY <1>1, EncodersBack
  <2>2. V \subseteq Values[0]
    BY <1>2
  <2> HIDE DEF V
  <2> QED BY <2>1, <2>2 DEF ReadsBack
<1>4. TornFails(e, V)
  BY <1>2, BulkTorn DEF TornFails
<1>5. Len(c) \in Nat
  BY LenProperties
<1>6. PICK items : items = Strings(c)
  OBVIOUS
<1>7. items \in Seq(V) /\ Len(items) = Len(c)
  <2>1. \A i \in 1 .. Len(c) : BulkString(c[i]) \in V
    BY ElementOfSeq
  <2> HIDE DEF V
  <2>2. items \in [1 .. Len(c) -> V]
    BY <1>6, <2>1 DEF Strings
  <2> QED BY <1>5, <2>2
<1>8. Encoded(e, items) = BulksOf(c)
  BY <1>1, <1>6, StringsType
<1> HIDE DEF V
<1> QED BY <1>3, <1>4, <1>5, <1>7, <1>8, ItemsTorn

(* No beginning of a record parses, wherever it is torn.                    *)
LEMMA RecordTorn ==
    ASSUME NEW c \in AnyCommand, NEW p, Cut(p, Rec(c))
    PROVE  ~Parse(p).ok
<1>1. PICK n \in Nat, body \in Seq(Byte) : n = Len(c) /\ n # 0 /\ body = FlattenSeq(BulksOf(c))
      /\ Rec(c) = Counted(Star, n, body)
  BY RecBegins
<1>2. Star \in Byte
  BY Marks
<1>3. Cut(p, Counted(Star, n, body))
  BY <1>1
<1>4. CASE p = <<>>
  BY <1>4, ParseEmpty, ReadOk
<1>5. CASE \E q \in Seq(Byte) : p = <<Star>> \o q /\ TornNumber(q, n, body)
  <2>1. PICK q \in Seq(Byte) : p = <<Star>> \o q /\ TornNumber(q, n, body)
    BY <1>5
  <2>2. Parse(p) = ParseArray(q, Items)
    <3>1. p # <<>> /\ p[1] = Star /\ From(p, 2) = q
      BY <1>2, <2>1, FirstByte
    <3> QED BY <3>1 DEF Parse, ParseWith, Plus, Minus, Colon, Dollar, Star
  <2>3. CASE q = <<>>
    <3>1. ~ReadNumber(q).ok
      BY <2>3, ReadNothing, ReadOk
    <3>2. ParseArray(q, Items) = Failed
      BY <3>1 DEF ParseArray
    <3> QED BY <2>2, <3>2, ReadOk
  <2>4. CASE \E k \in Nat : ReadNumber(q) = Read(k, <<>>) /\ (n # 0 => k >= 1)
    <3>1. PICK k \in Nat : ReadNumber(q) = Read(k, <<>>) /\ k >= 1
      BY <1>1, <2>4
    <3>2. PICK r : r = ReadNumber(q)
      OBVIOUS
    <3>3. r.ok /\ r.value = k /\ r.rest = <<>>
      BY <3>1, <3>2, ReadOk
    <3>4. PICK j \in Nat : k = j + 1
      <4>1. k - 1 \in Nat /\ k = (k - 1) + 1
        BY <3>1
      <4> QED BY <4>1
    <3>5. Items[<<>>][j + 1] = Failed
      <4>1. <<>> \in Seq(Byte) /\ ~Parse(<<>>).ok
        BY ParseEmpty, ReadOk
      <4> QED BY <4>1, ItemsMore
    <3>6. k # -1 /\ ~(k < -1)
      OBVIOUS
    <3>7. ~Items[<<>>][k].ok
      BY <3>4, <3>5, ReadOk
    <3>8. ParseArray(q, Items) = Failed
      BY <3>2, <3>3, <3>6, <3>7 DEF ParseArray
    <3> QED BY <2>2, <3>8, ReadOk
  <2>5. CASE \E m \in Seq(Byte) : Cut(m, body) /\ q = Number(n) \o (EOL \o m)
    <3>1. PICK m \in Seq(Byte) : Cut(m, body) /\ q = Number(n) \o (EOL \o m)
      BY <2>5
    <3>2. c \in Seq(Seq(Byte))
      BY DEF AnyCommand
    <3>3. ~Items[m][n].ok
      BY <1>1, <3>1, <3>2, BulksTorn
    <3>4. p = Counted(Star, n, m)
      BY <2>1, <3>1 DEF Counted
    <3>5. n \in Int /\ n >= 0
      OBVIOUS
    <3>6. Parse(Counted(Star, n, m)) = Failed
      BY <1>2, <3>3, <3>5, ParseCounted
    <3> QED BY <3>4, <3>6, ReadOk
  <2> QED BY <2>1, <2>3, <2>4, <2>5 DEF TornNumber
<1> QED BY <1>2, <1>3, <1>4, <1>5, CountedTorn

(* What does not parse is not replayed, nor what is behind it.              *)
LEMMA TornReplaysNothing ==
    ASSUME NEW in \in Seq(Byte), ~Parse(in).ok
    PROVE  Replayed[in] = <<>>
<1>1. ReplayStep(Replayed, in) = <<>>
  BY DEF ReplayStep
<1> QED BY <1>1, ReplayUnfolds

(* A torn record still begins with the mark of an array.                    *)
LEMMA RecordTornBegins ==
    ASSUME NEW c \in AnyCommand, NEW p, Cut(p, Rec(c)), p # <<>>
    PROVE  BeginsStar(p)
<1>1. PICK n \in Nat, body \in Seq(Byte) : Rec(c) = Counted(Star, n, body)
  BY RecBegins
<1>2. \E q \in Seq(Byte) : p = <<Star>> \o q /\ TornNumber(q, n, body)
  BY <1>1, Marks, CountedTorn
<1> QED BY <1>2 DEF BeginsStar
-----------------------------------------------------------------------------
(* The inductive invariant of the file.                                     *)

(* The types of the variables; those that only count are left out.          *)
TypeInv ==
    /\ file \in Seq(Byte)
    /\ queue \in Seq(AnyCommand)
    /\ whole \in Seq(AnyCommand)
    /\ torn \in {"no", "last", "inside"}

(* What is behind the whole records: nothing, a torn record, or any bytes.  *)
Behind(tail) ==
    /\ torn = "no" => tail = <<>>
    /\ torn = "last" => tail # <<>> /\ \E c \in AnyCommand : Cut(tail, Rec(c))

(* The file is the records of whole, and something behind them.             *)
Layout == \E tail \in Seq(Byte) : file = Records(whole) \o tail /\ Behind(tail)

(* The inductive invariant.                                                 *)
IInv == TypeInv /\ Layout

(* What is behind the whole records does not parse.                         *)
LEMMA NothingTorn ==
    ASSUME TypeInv, NEW tail \in Seq(Byte), Behind(tail), torn # "inside"
    PROVE  ~Parse(tail).ok
<1>1. CASE torn = "no"
  BY <1>1, ParseEmpty, ReadOk DEF Behind
<1>2. CASE torn = "last"
  BY <1>2, RecordTorn DEF Behind
<1> QED BY <1>1, <1>2 DEF TypeInv

(* The whole records are replayed first.                                    *)
LEMMA FileReplayed ==
    ASSUME TypeInv, NEW tail \in Seq(Byte), file = Records(whole) \o tail
    PROVE  /\ Replayed[file] = whole \o Replayed[tail]
           /\ Replayed[file] \in Seq(AnyCommand) /\ Replayed[tail] \in Seq(AnyCommand)
           /\ Len(whole) # 0 => BeginsStar(file)
<1>1. Replayed[file] \in Seq(AnyCommand) /\ Replayed[tail] \in Seq(AnyCommand)
  BY ReplayedType DEF TypeInv
<1>2. whole \in Seq(AnyCommand) /\ Len(whole) \in Nat
  BY LenProperties DEF TypeInv
<1>3. ReplaysFirst(whole, tail)
  BY <1>2, RecordsReplayed
<1>4. Len(whole) # 0 => BeginsStar(file)
  BY <1>2, RecordsBegin, BeginsThen
<1> QED BY <1>1, <1>3, <1>4 DEF ReplaysFirst

(* What recovery sends to the channel is commands.                          *)
LEMMA RebuildType ==
    ASSUME TypeInv
    PROVE  RebuildStoreFromAOF \in Seq(AnyCommand)
<1>1. Replayed[file] \in Seq(AnyCommand)
  BY ReplayedType DEF TypeInv
<1>2. <<>> \in Seq(AnyCommand)
  BY EmptySeq
<1> QED BY <1>1, <1>2 DEF RebuildStoreFromAOF

(* The invariant holds of an empty file.                                    *)
LEMMA InitInv == Init => IInv
<1> SUFFICES ASSUME Init PROVE IInv
  OBVIOUS
<1>1. <<>> \in Seq(Byte) /\ <<>> \in Seq(AnyCommand)
  BY EmptySeq
<1>2. TypeInv
  BY <1>1 DEF Init, TypeInv
<1>3. <<>> \o <<>> = <<>>
  BY <1>1, ConcatEmptySeq
<1>4. file = Records(whole) \o <<>>
  BY <1>3, RecordsNone DEF Init
<1>5. Behind(<<>>)
  BY DEF Init, Behind
<1> QED BY <1>1, <1>2, <1>4, <1>5 DEF IInv, Layout

(* It is about the file and its history only.                               *)
LEMMA LayoutKept ==
    ASSUME Layout, UNCHANGED <<file, whole, torn>>
    PROVE  Layout'
BY DEF Layout, Behind

(* A restart keeps it: the file is opened for appending.                    *)
LEMMA StartInv ==
    ASSUME IInv, Start
    PROVE  IInv'
<1>1. UNCHANGED <<file, whole, torn>>
  BY DEF Start, Opened
<1>2. queue' \in Seq(AnyCommand)
  BY RebuildType DEF Start, IInv
<1> QED BY <1>1, <1>2, LayoutKept DEF IInv, TypeInv

(* The commands of clients are commands.                                    *)
LEMMA CommandsAre == Commands \subseteq AnyCommand
BY AofAssumption DEF AnyCommand

(* A call keeps it.                                                         *)
LEMMA CallInv ==
    ASSUME IInv, NEW cmd \in Commands, Call(cmd)
    PROVE  IInv'
<1>1. UNCHANGED <<file, whole, torn>>
  BY DEF Call
<1>2. queue' \in Seq(AnyCommand)
  BY CommandsAre, AppendProperties DEF Call, IInv, TypeInv
<1> QED BY <1>1, <1>2, LayoutKept DEF IInv, TypeInv

(* What AOFWriter takes from the channel.                                   *)
LEMMA QueueHead ==
    ASSUME TypeInv, queue # <<>>
    PROVE  /\ Head(queue) \in AnyCommand /\ Tail(queue) \in Seq(AnyCommand)
           /\ Record = Rec(Head(queue)) /\ Record \in Seq(Byte)
<1>1. Head(queue) \in AnyCommand /\ Tail(queue) \in Seq(AnyCommand)
  BY HeadTailProperties DEF TypeInv
<1>2. Record = Rec(Head(queue))
  BY DEF Record, Rec
<1> QED BY <1>1, <1>2, RecBegins

(* Bytes that come behind what is torn.                                     *)
LEMMA InsideKept ==
    ASSUME IInv, NEW r \in Seq(Byte), file' = file \o r, whole' = whole, torn' = "inside"
    PROVE  file' \in Seq(Byte) /\ Layout'
<1>1. PICK tail \in Seq(Byte) : file = Records(whole) \o tail
  BY DEF IInv, Layout
<1>2. PICK b \in Seq(Byte) : b = Records(whole)
  BY RecordsType DEF IInv, TypeInv
<1>3. PICK t \in Seq(Byte) : t = tail \o r
  BY Joined
<1>4. Regroups(b, tail, r)
  BY Regrouped
<1>5. file' = Records(whole') \o t
  BY ONLY <1>1, <1>2, <1>3, <1>4, file' = file \o r, whole' = whole, Zenon DEF Regroups
<1>6. Behind(t)'
  BY DEF Behind
<1>7. file' \in Seq(Byte)
  BY Joined DEF IInv, TypeInv
<1> QED BY <1>5, <1>6, <1>7 DEF Layout

(* While nothing is torn the file is records.                               *)
LEMMA NoneTorn ==
    ASSUME IInv, torn = "no"
    PROVE  file = Records(whole)
<1>1. PICK tail \in Seq(Byte) : file = Records(whole) \o tail /\ tail = <<>>
  BY DEF IInv, Layout, Behind
<1>2. PICK b \in Seq(Byte) : b = Records(whole)
  BY RecordsType DEF IInv, TypeInv
<1>3. b \o <<>> = b
  BY ConcatEmptySeq
<1> QED BY ONLY <1>1, <1>2, <1>3, Zenon

(* AOFWriter keeps it, behind a whole file and behind a torn one.           *)
LEMMA WriterInv ==
    ASSUME IInv, AOFWriter
    PROVE  IInv'
<1>1. TypeInv /\ queue # <<>>
  BY DEF IInv, AOFWriter
<1>2. PICK c \in AnyCommand, r \in Seq(Byte) : c = Head(queue) /\ r = Record /\ r = Rec(c)
  BY <1>1, QueueHead
<1>3. queue' \in Seq(AnyCommand)
  BY <1>1, QueueHead DEF AOFWriter
<1>4. file' = file \o r
  BY <1>2 DEF AOFWriter
<1>5. CASE torn = "no"
  <2>1. torn' = "no" /\ whole' = Append(whole, c)
    BY <1>2, <1>5 DEF AOFWriter
  <2>2. PICK w \in Seq(AnyCommand) : w = whole
    BY <1>1 DEF TypeInv
  <2>3. PICK x \in Seq(AnyCommand) : x = Append(w, c)
    BY AppendProperties
  <2>4. Records(x) = Records(w) \o r
    BY <1>2, <2>3, RecordsAppend
  <2>5. file = Records(w)
    BY <1>5, <2>2, NoneTorn
  <2>6. file' = Records(x)
    BY ONLY <1>4, <2>4, <2>5, Zenon
  <2>7. PICK b \in Seq(Byte) : b = Records(x)
    BY RecordsType
  <2>8. b \o <<>> = b
    BY ConcatEmptySeq
  <2>9. whole' = x
    BY ONLY <2>1, <2>2, <2>3, Zenon
  <2>10. file' = Records(whole') \o <<>>
    BY ONLY <2>6, <2>7, <2>8, <2>9, Zenon
  <2>11. Behind(<<>>)'
    BY <2>1 DEF Behind
  <2>12. <<>> \in Seq(Byte)
    OBVIOUS
  <2>13. Layout'
    BY <2>10, <2>11, <2>12 DEF Layout
  <2>14. TypeInv'
    BY <1>3, <2>1, <2>3, <2>6, <2>7, <2>9 DEF TypeInv
  <2> QED BY <2>13, <2>14 DEF IInv
<1>6. CASE torn # "no"
  <2>1. torn' = "inside" /\ whole' = whole
    BY <1>1, <1>6 DEF AOFWriter, TypeInv
  <2>2. file' \in Seq(Byte) /\ Layout'
    BY <1>4, <2>1, InsideKept
  <2>3. TypeInv'
    BY <1>1, <1>3, <2>1, <2>2 DEF TypeInv
  <2> QED BY <2>2, <2>3 DEF IInv
<1> QED BY <1>5, <1>6

(* A torn record keeps it, wherever it is torn.                             *)
LEMMA TearInv ==
    ASSUME IInv, NEW n \in Nat, Tear(n), queue' \in Seq(AnyCommand)
    PROVE  IInv'
<1>1. TypeInv /\ whole' = whole
  BY DEF IInv, Tear
<1>2. CASE n = 0
  <2>1. UNCHANGED <<file, whole, torn>>
    BY <1>1, <1>2 DEF Tear
  <2> QED BY <1>1, <2>1, LayoutKept DEF IInv, TypeInv
<1>3. CASE n # 0
  <2>1. queue # <<>> /\ n < Len(Record) /\ file' = file \o SubSeq(Record, 1, n) /\ torn' = IF torn = "no"
          THEN "last" ELSE "inside"
    BY <1>3 DEF Tear
  <2>2. PICK c \in AnyCommand, r \in Seq(Byte) : r = Record /\ r = Rec(c)
    BY <1>1, <2>1, QueueHead
  <2>3. Len(r) \in Nat
    BY LenProperties
  <2>4. n \in 0 .. Len(r) /\ n \in 0 .. Len(r) - 1
    BY <2>1, <2>2, <2>3
  <2>5. PICK p \in Seq(Byte) : p = SubSeq(r, 1, n) /\ Len(p) = n
    BY <2>4, BeginningType
  <2>6. file' = file \o p
    BY ONLY <2>1, <2>2, <2>5, Zenon
  <2>7. CASE torn = "no"
    <3>1. file' = Records(whole') \o p
      BY ONLY <1>1, <2>6, <2>7, IInv, NoneTorn
    <3>2. p # <<>>
      BY <1>3, <2>5, NotEmpty
    <3>3. Cut(p, Rec(c))
      BY <2>2, <2>4, <2>5 DEF Cut
    <3>4. torn' = "last"
      BY <2>1, <2>7
    <3>5. Behind(p)'
      BY <3>2, <3>3, <3>4 DEF Behind
    <3>6. Layout'
      BY <3>1, <3>5 DEF Layout
    <3>7. file' \in Seq(Byte)
      BY <1>1, <2>6, Joined DEF TypeInv
    <3> QED BY <1>1, <3>4, <3>6, <3>7 DEF IInv, TypeInv
  <2>8. CASE torn # "no"
    <3>1. torn' = "inside"
      BY <2>1, <2>8
    <3>2. file' \in Seq(Byte) /\ Layout'
      BY <1>1, <2>6, <3>1, InsideKept
    <3> QED BY <1>1, <3>1, <3>2 DEF IInv, TypeInv
  <2> QED BY <2>7, <2>8
<1> QED BY <1>2, <1>3

(* Every step keeps it.                                                     *)
LEMMA StepInv == IInv /\ [Next]_vars => IInv'
<1> SUFFICES ASSUME IInv, [Next]_vars PROVE IInv'
  OBVIOUS
<1>1. CASE Start
  BY <1>1, StartInv
<1>2. CASE \E cmd \in Commands : Call(cmd)
  BY <1>2, CallInv
<1>3. CASE AOFWriter
  BY <1>3, WriterInv
<1>4. ASSUME NEW n \in 0 .. MaxRecord, Crash(n) PROVE IInv'
  <2>1. Tear(n) /\ queue' = <<>>
    BY <1>4 DEF Crash
  <2>2. queue' \in Seq(AnyCommand)
    BY <2>1, EmptySeq
  <2>3. n \in Nat
    BY DEF MaxRecord
  <2> QED BY <2>1, <2>2, <2>3, TearInv
<1>5. ASSUME NEW n \in 0 .. MaxRecord, WriteFails(n) PROVE IInv'
  <2>1. Tear(n) /\ queue # <<>> /\ queue' = Tail(queue)
    BY <1>5 DEF WriteFails
  <2>2. queue' \in Seq(AnyCommand)
    BY <2>1, QueueHead DEF IInv
  <2>3. n \in Nat
    BY DEF MaxRecord
  <2> QED BY <2>1, <2>2, <2>3, TearInv
<1>6. CASE UNCHANGED vars
  <2>1. UNCHANGED <<file, whole, torn>> /\ queue' = queue
    BY <1>6 DEF vars
  <2> QED BY <2>1, LayoutKept DEF IInv, TypeInv
<1> QED BY <1>1, <1>2, <1>3, <1>4, <1>5, <1>6 DEF Next

(* At every moment appendonly.aof is the records of the commands flushed    *)
(* whole and then nothing, or the beginning of one record, or bytes behind  *)
(* such a beginning; the channel holds commands (AOFWriter, Start,          *)
(* RebuildStoreFromAOF).                                                    *)
THEOREM AofLayout == Spec => []IInv
BY InitInv, StepInv, PTL DEF Spec

(* Until something is appended behind a torn record, recovery replays the   *)
(* commands flushed whole and nothing else, wherever the record is torn and *)
(* whatever bytes the commands have (RebuildStoreFromAOF,                   *)
(* respArrayToCommand, parseBulkString).                                    *)
THEOREM AofRecoversComplete == Spec => []RecoversComplete
<1>1. IInv => RecoversComplete
  <2> SUFFICES ASSUME IInv, torn # "inside" PROVE RebuildStoreFromAOF = whole
    BY DEF RecoversComplete
  <2>1. TypeInv
    BY DEF IInv
  <2>2. PICK tail \in Seq(Byte) : file = Records(whole) \o tail /\ Behind(tail)
    BY DEF IInv, Layout
  <2>3. Replayed[tail] = <<>>
    BY <2>1, <2>2, NothingTorn, TornReplaysNothing
  <2>4. Replayed[file] = whole \o <<>>
    BY <2>1, <2>2, <2>3, FileReplayed
  <2>5. whole \o <<>> = whole
    BY <2>1, ConcatEmptySeq DEF TypeInv
  <2>6. file # <<>> => file[1] = Star
    <3>1. CASE Len(whole) # 0
      BY <2>1, <2>2, <3>1, FileReplayed, BeginsIs
    <3>2. CASE Len(whole) = 0
      <4>1. whole = <<>>
        BY <2>1, <3>2, EmptyIff DEF TypeInv
      <4>2. <<>> \o tail = tail
        BY ConcatEmptySeq
      <4>3. file = tail
        BY ONLY <2>2, <4>1, <4>2, RecordsNone, Zenon
      <4>4. torn \in {"no", "last"}
        BY <2>1 DEF TypeInv
      <4>5. tail = <<>> \/ BeginsStar(tail)
        BY <2>2, <4>4, RecordTornBegins DEF Behind
      <4> QED BY <4>3, <4>5, BeginsIs
    <3> QED BY <3>1, <3>2
  <2> QED BY <2>4, <2>5, <2>6 DEF RebuildStoreFromAOF
<1> QED BY <1>1, AofLayout, PTL

(* However often the process crashes, restarts and appends behind a torn    *)
(* record, the commands flushed whole before it stay at the front of what   *)
(* is replayed (AOFWriter, RebuildStoreFromAOF).                            *)
THEOREM AofPrefixSurvives == Spec => []PrefixSurvives
<1>1. IInv => PrefixSurvives
  <2> SUFFICES ASSUME IInv PROVE IsPrefix(whole, RebuildStoreFromAOF)
    BY DEF PrefixSurvives
  <2>1. TypeInv
    BY DEF IInv
  <2>2. PICK tail \in Seq(Byte) : file = Records(whole) \o tail
    BY DEF IInv, Layout
  <2>3. PICK w \in Seq(AnyCommand), rest \in Seq(AnyCommand), all \in Seq(AnyCommand) :
           w = whole /\ rest = Replayed[tail] /\ all = Replayed[file] /\ all = w \o rest
    BY <2>1, <2>2, FileReplayed DEF TypeInv
  <2>4. Len(w) \in Nat /\ Len(rest) \in Nat /\ Len(all) = Len(w) + Len(rest)
    BY <2>3, ConcatProperties, LenProperties
  <2>5. SubSeq(w, 1, Len(w)) = w /\ SubSeq(all, 1, Len(w)) = w
    BY <2>3, SplitConcat, SubSeqFull
  <2>6. IsPrefix(w, all)
    <3>1. Len(w) <= Len(all)
      BY <2>4
    <3> QED BY <2>5, <3>1 DEF IsPrefix
  <2>7. CASE Len(w) # 0
    <3>1. file[1] = Star
      BY <2>1, <2>2, <2>3, <2>7, FileReplayed, BeginsIs
    <3>2. RebuildStoreFromAOF = all
      BY <2>3, <3>1 DEF RebuildStoreFromAOF
    <3> QED BY <2>3, <2>6, <3>2
  <2>8. CASE Len(w) = 0
    <3>1. PICK r \in Seq(AnyCommand) : r = RebuildStoreFromAOF
      BY <2>1, RebuildType
    <3>2. w = <<>> /\ Len(r) \in Nat
      BY <2>8, EmptyIff, LenProperties
    <3>3. SubSeq(w, 1, 0) = <<>> /\ SubSeq(r, 1, 0) = <<>>
      BY SubSeqEmpty
    <3>4. IsPrefix(w, r)
      BY <2>8, <3>2, <3>3 DEF IsPrefix
    <3> QED BY <2>3, <3>1, <3>4
  <2> QED BY <2>7, <2>8
<1> QED BY <1>1, AofLayout, PTL

(* A reply that is written is the value a reader of those bytes gets, and   *)
(* the reader stops at its end, whatever follows (Encode, Parse).           *)
THEOREM AofFramesAreExact == Spec => []FramesAreExact
<1>1. IInv => FramesAreExact
  <2> SUFFICES ASSUME IInv, NEW v \in Replies PROVE Parse(Encode(v) \o file) = Read(v, file)
    BY DEF FramesAreExact
  <2>1. file \in Seq(Byte) /\ v \in Values[MaxDepth]
    BY AofAssumption DEF IInv, TypeInv
  <2> QED BY <2>1, RoundTrip
<1> QED BY <1>1, AofLayout, PTL
=============================================================================
