--------------------------- MODULE MCPrefetchBuffer ---------------------------
EXTENDS PrefetchBuffer

MCKind(a, b, e) == [c0 |-> a, c1 |-> b, err |-> e]

(* Two compressed instructions; a 32-bit one, which a redirect may enter in *)
(* the middle to make the second halfword the start of an unaligned one;     *)
(* and a word in error that would otherwise read as two compressed ones.    *)
MCKinds == {MCKind(TRUE, TRUE, FALSE), MCKind(FALSE, FALSE, FALSE), MCKind(TRUE, TRUE, TRUE)}
=============================================================================
