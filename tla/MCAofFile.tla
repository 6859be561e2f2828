----------------------------- MODULE MCAofFile -----------------------------
(* An instance of AofFile for TLC: a short record, and one whose argument   *)
(* has a length of two digits, is long enough to swallow the beginning of a *)
(* record behind it and looks like one itself.                              *)
EXTENDS AofFile

(* Letters: any bytes that are no marks.                                    *)
D == 68
S == 83

Short == << <<D>> >>
Long  == << <<S>>, <<Star, Zero + 1, CR, LF, Dollar, Zero + 3, CR, LF, D, D, D>> >>

MCCommands == {Short, Long}

Words == {SimpleString(<<S, D>>), ErrorString(<<>>), Integer(0), Integer(-170),
          BulkString(<<>>), BulkString(<<LF, Star, CR>>), NullBulkString, Array(<<>>)}
MCReplies == Words \cup {Array(<<x, Array(<<x, Integer(1)>>), x>>) : x \in Words}
=============================================================================
