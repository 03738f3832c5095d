--------------------------- MODULE MCSettingsStore ---------------------------
(* Two connections; the text nul comes back from flash as a, as a text with *)
(* a zero byte behind an a would.                                           *)
EXTENDS SettingsStore, TLC

CONSTANTS c1, c2, p1, a, b, nul, dflt

Names    == [p \in PC |-> dflt]
ReadBack == [t \in Text |-> IF t = nul THEN a ELSE t]
Pairs    == {<<a, b>>, <<b, nul>>}

Symmetry == Permutations(Conn)

=============================================================================
