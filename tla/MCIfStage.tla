------------------------------ MODULE MCIfStage ------------------------------
EXTENDS IfStage

MCKind(a, b, e) == [c0 |-> a, c1 |-> b, err |-> e]

(* A compressed instruction, then the first half of a 32-bit one that ends  *)
(* in the next word; and the same in error.                                 *)
MCKinds == {MCKind(TRUE, FALSE, FALSE), MCKind(TRUE, FALSE, TRUE)}
=============================================================================
