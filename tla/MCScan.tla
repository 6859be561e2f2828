------------------------------- MODULE MCScan -------------------------------
(* An instance of Scan for TLC.                                             *)
EXTENDS Scan

CONSTANTS k1, k2, k3, a, b

MCTexts    == {<<>>, <<a, b, a>>}
MCPatterns == {Key, {k1}}
=============================================================================
