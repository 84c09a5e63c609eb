----------------------------- MODULE MCManifest -----------------------------
(* Paths that share prefixes, end inside one another, branch, are longer    *)
(* than a prefix may be, begin with the separator (byte 0), or are split    *)
(* right before it.                                                        *)
EXTENDS ManifestWire

CONSTANTS r1, m1

Values == {<<r1, None>>, <<None, m1>>}

Nested    == {<<1>>, <<1, 2>>, <<1, 2, 1>>}
Long      == {<<1, 1, 2, 2, 1>>, <<1, 1, 2, 1>>}
Separated == {<<0>>, <<1, 0, 1>>, <<1, 0, 2>>}
Paths     == (Nested \ {<<1, 2, 1>>}) \cup Long \cup Separated
=============================================================================
