------------------------------- MODULE Resp2 -------------------------------
(***************************************************************************)
(* The RESP2 codec: Encode writes a value as bytes, Parse reads one value  *)
(* from the bytes a reader holds.  What is recursive is a recursive        *)
(* function, so that it can be reasoned about.                             *)
(***************************************************************************)
EXTENDS Integers, Sequences, SequencesExt

CONSTANT MaxDepth    \* bound on the nesting of the values that are written

ASSUME DepthAssumption == MaxDepth \in Nat \ {0}

Byte  == 0 .. 255
LF    == 10
CR    == 13
Blank == {9, 11, 12, CR, 32}     \* white space but for the newline
Plus  == 43     \* the prefixes of values, and the signs
Minus == 45
Colon == 58
Dollar == 36
Star  == 42
Zero  == 48
Digit == Zero .. Zero + 9
EOL   == <<CR, LF>>

(* A value: data are the bytes of a string or the one number of an integer. *)
RESPValue(type, nil, data, items) == [type |-> type, nil |-> nil, data |-> data, items |-> items]

SimpleString(s) == RESPValue(Plus, FALSE, s, <<>>)
ErrorString(s)  == RESPValue(Minus, FALSE, s, <<>>)
Integer(n)      == RESPValue(Colon, FALSE, <<n>>, <<>>)
BulkString(s)   == RESPValue(Dollar, FALSE, s, <<>>)
Array(items)    == RESPValue(Star, FALSE, <<>>, items)
NullBulkString  == RESPValue(Dollar, TRUE, <<>>, <<>>)     \* BulkString(nil)
NullArray       == RESPValue(Star, TRUE, <<>>, <<>>)       \* Array(nil)

(* The values that are written, nested at most d deep: no reply is a nil    *)
(* array.  Lines with a newline inside, which an error that quotes the name *)
(* of an unknown command can be, are left out.                              *)
Values[d \in Nat] ==
    LET Item == IF d = 0 THEN {} ELSE Values[d - 1]
    IN  {v \in [type : {Plus, Minus, Colon, Dollar, Star}, nil : BOOLEAN,
                data : Seq(Int), items : Seq(Item)] :
            /\ v.nil => v = NullBulkString
            /\ v.type \in {Plus, Minus} => v.data \in Seq(Byte \ {LF})
            /\ v.type = Colon => Len(v.data) = 1
            /\ v.type = Dollar => v.data \in Seq(Byte)
            /\ IF v.type = Star THEN v.data = <<>> ELSE v.items = <<>>}

(* "%d" writes a number in decimal.                                         *)
Decimal[n \in Nat] == IF n < 10 THEN <<Zero + n>> ELSE Decimal[n \div 10] \o <<Zero + (n % 10)>>
Number(n) == IF n < 0 THEN <<Minus>> \o Decimal[-n] ELSE Decimal[n]

Encoder[d \in Nat] ==
    [v \in Values[d] |->
        CASE v.nil -> <<Dollar>> \o Number(-1) \o EOL
          [] v.type \in {Plus, Minus} -> <<v.type>> \o v.data \o EOL
          [] v.type = Colon -> <<Colon>> \o Number(v.data[1]) \o EOL
          [] v.type = Dollar /\ ~v.nil -> <<Dollar>> \o Number(Len(v.data)) \o EOL \o v.data \o EOL
          [] v.type = Star -> <<Star>> \o Number(Len(v.items)) \o EOL
                                \o FlattenSeq([i \in 1 .. Len(v.items) |-> Encoder[d - 1][v.items[i]]])]

Encode(v) == Encoder[MaxDepth][v]

-----------------------------------------------------------------------------
(* A reader's answer: the value and the bytes it leaves.                    *)
Read(v, rest) == [ok |-> TRUE, value |-> v, rest |-> rest]
Failed        == [ok |-> FALSE]

From(in, i) == SubSeq(in, i, Len(in))

(* How many bytes of S the input begins with.                               *)
Span(in, S) ==
    CHOOSE n \in 0 .. Len(in) : (\A i \in 1 .. n : in[i] \in S) /\ (n < Len(in) => in[n + 1] \notin S)

SkipSpaces(in) == From(in, Span(in, Blank) + 1)

NumberOf(digits) ==
    LET value[i \in 0 .. Len(digits)] ==
            IF i = 0 THEN 0 ELSE 10 * value[i - 1] + (digits[i] - Zero)
    IN  value[Len(digits)]

(* Fscanf("%d\r\n"): spaces are skipped before the number and before the    *)
(* newline, and the end of the input may stand for the newline.             *)
ReadNumber(in) ==
    LET text   == SkipSpaces(in)
        signed == text # <<>> /\ text[1] \in {Plus, Minus}
        digits == IF signed THEN From(text, 2) ELSE text
        n      == Span(digits, Digit)
        number == NumberOf(SubSeq(digits, 1, n))
        rest   == SkipSpaces(From(digits, n + 1))
    IN  IF n = 0 \/ (rest # <<>> /\ rest[1] # LF) THEN Failed
        ELSE Read(IF signed /\ text[1] = Minus THEN -number ELSE number, From(rest, 2))

ReadLineKeepsCR(in) ==    \* mutant: only the newline is dropped
    LET n == Span(in, Byte \ {LF})
    IN  IF n = Len(in) THEN Failed ELSE Read(SubSeq(in, 1, n), From(in, n + 2))
(* ReadString('\n'), and the last two bytes of the line dropped.  A line    *)
(* that is the newline alone makes the code panic.                          *)
ReadLine(in) ==
    LET n == Span(in, Byte \ {LF})     \* bytes before the newline
    IN  IF n \in {0, Len(in)} THEN Failed ELSE Read(SubSeq(in, 1, n - 1), From(in, n + 2))

ParseLine(type, in) ==
    LET line == ReadLine(in)
    IN  IF line.ok THEN Read(RESPValue(type, FALSE, line.value, <<>>), line.rest) ELSE Failed

ParseInteger(in) ==
    LET n == ReadNumber(in)
    IN  IF n.ok THEN Read(Integer(n.value), n.rest) ELSE Failed

ParseBulkShort(in) ==     \* mutant: one Read instead of io.ReadFull
    LET n == ReadNumber(in)
    IN  IF ~n.ok THEN Failed
        ELSE IF n.value = -1 THEN Read(NullBulkString, n.rest)
        ELSE IF n.rest = <<>> THEN Failed
        ELSE LET got == IF Len(n.rest) < n.value THEN Len(n.rest) ELSE n.value
             IN  Read(BulkString(SubSeq(n.rest, 1, got)), From(n.rest, got + 3))
(* ReadFull takes the data and two more bytes, whatever they are.  A length *)
(* below -1 makes the code panic.                                           *)
ParseBulkString(in) ==
    LET n == ReadNumber(in)
    IN  IF ~n.ok THEN Failed
        ELSE IF n.value = -1 THEN Read(NullBulkString, n.rest)
        ELSE IF n.value < -1 \/ Len(n.rest) < n.value + 2 THEN Failed
        ELSE Read(BulkString(SubSeq(n.rest, 1, n.value)), From(n.rest, n.value + 3))

(* An array is a count and that many values, which items reads.             *)
ParseArray(in, items) ==
    LET n == ReadNumber(in)
    IN  IF ~n.ok THEN Failed
        ELSE IF n.value = -1 THEN Read(NullArray, n.rest)
        ELSE IF n.value < -1 THEN Failed
        ELSE LET r == items[n.rest][n.value]
             IN  IF r.ok THEN Read(Array(r.value), r.rest) ELSE Failed

ParseWith(items, in) ==
    IF in = <<>> THEN Failed
    ELSE LET rest == From(in, 2)
         IN  CASE in[1] \in {Plus, Minus} -> ParseLine(in[1], rest)
               [] in[1] = Colon  -> ParseInteger(rest)
               [] in[1] = Dollar -> ParseBulkString(rest)
               [] in[1] = Star   -> ParseArray(rest, items)
               [] OTHER          -> Failed

(* One item, and n others behind it: no value, no array.                    *)
ItemAnd(first, n, items) ==
    IF ~first.ok THEN Failed
    ELSE LET others == items[first.rest][n]
         IN  IF others.ok THEN Read(<<first.value>> \o others.value, others.rest) ELSE Failed

(* The loop of parseArray, count times round.                               *)
Items[in \in Seq(Byte)] ==
    [count \in Nat |->
        IF count = 0 THEN Read(<<>>, in) ELSE ItemAnd(ParseWith(Items, in), count - 1, Items)]

Parse(in) == ParseWith(Items, in)
=============================================================================
