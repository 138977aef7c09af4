----------------------------- MODULE MCVectorUnit -----------------------------
(***************************************************************************)
(* Programs for VectorUnit.  A vector register has two words; register       *)
(* groups start at registers 0, 2 and 4 and have up to four words.           *)
(***************************************************************************)
EXTENDS VectorUnit

Insn(name, bytes) ==
  [name |-> name, bytes |-> bytes, vd |-> 4, vs1 |-> 0, vs2 |-> 2,
   base |-> VrfBytes, stride |-> 0, elem |-> 4, offset |-> 0]
At(name, bytes, offset) == [Insn(name, bytes) EXCEPT !.base = @ + offset]
Strided(name, bytes, elem, stride) == [Insn(name, bytes) EXCEPT !.elem = elem, !.stride = stride]
Slide(name, bytes, offset) == [Insn(name, bytes) EXCEPT !.offset = offset]

Alone(insns, wait, late) == {[program |-> <<n>>, wait |-> wait, late |-> late] : n \in insns}

----------------------------------------------------------------------------
(* What the unit does right.  Every length from nothing to four words, and  *)
(* destinations that are also sources.                                      *)
Arithmetic == {[Insn(n, b) EXCEPT !.vd = d] :
                 n \in {"vadd_vv", "vadd_vx", "vmacc_vv", "vmacc_vx", "vmv_v_v"}, b \in 0 .. 13, d \in {0, 4}}

(* A slide over its own source goes down only.                              *)
Slides == {[Slide(p[1], p[2], p[3]) EXCEPT !.vd = p[4]] :
             p \in {q \in {"vslideup", "vslidedown"} \X (1 .. 13) \X (0 .. 9) \X {2, 4} :
                      q[3] < q[2] /\ (q[1] = "vslideup" => q[4] = 4)}}

Memory_ == {At("vle", b, o) : b \in 0 .. 13, o \in 0 .. 3}
             \cup {Insn("vse", b) : b \in 0 .. 13}
             \cup {Strided("vlse", b, 4, s) : b \in {4, 8, 12}, s \in {4, 8, 12}}

(* Pairs: a slide's leftovers before a store, a result used at once, and    *)
(* stores of more than a word at any alignment.                             *)
Sequence == {At("vle", 9, 1), Insn("vmacc_vv", 5), Slide("vslideup", 9, 3), Slide("vslidedown", 8, 5)}
              \cup {At("vse", b, o) : b \in {5, 8, 9}, o \in 0 .. 3}

MCSupported == Alone(Arithmetic \cup Slides, 2, FALSE)
                 \cup Alone(Memory_, 1, FALSE)
                 \cup Alone({Insn("vse", b) : b \in 0 .. 13}, 0, TRUE)
                 \cup {[program |-> <<m, n>>, wait |-> 0, late |-> FALSE] : m, n \in Sequence}

(* The theorems about the port hold for these programs, those about effects  *)
(* for the arithmetic, moves and slides among them.                           *)
ASSUME MCSupportedAssumption ==
  Scenarios = MCSupported => /\ OnlyStoresAreLate /\ MemoryWaitsOnce
                             /\ \A n \in Arithmetic : Lane(n)
                             /\ \A n \in Slides : Sliding(n)

----------------------------------------------------------------------------
(* What it does not.  Each set breaks InstructionsTakeEffect, but for       *)
(* MCLoadGrant and MCStoreGrant, which break RequestHeld.                   *)

MCSplat == Alone({Insn("vmv_v_x", b) : b \in {4, 5, 8}}, 0, FALSE)
MCStridedStore == Alone({Strided("vsse", b, 4, 8) : b \in {4, 8}}, 0, FALSE)
MCLoadGrant == Alone({Insn("vle", b) : b \in {4, 8, 12}}, 2, FALSE)

MCStoreGrant == Alone({Insn("vse", b) : b \in {4, 8, 12}}, 2, FALSE)
MCLateAnswers == Alone(Arithmetic, 0, TRUE)
MCShortStore == Alone({At("vse", b, o) : b \in 1 .. 4, o \in 1 .. 3}, 0, FALSE)
MCMisalignedStore == Alone({At("vse", b, o) : b \in {9, 12}, o \in 1 .. 3}, 1, FALSE)
MCNarrowStride == Alone({Strided("vlse", b, 2, 4) : b \in {4, 8}}, 0, FALSE)
MCMisalignedStride == Alone({[Strided("vlse", b, 4, 8) EXCEPT !.base = @ + 1] : b \in {4, 8}}, 0, FALSE)
MCSlidePastEnd == Alone({Slide(n, 4, o) : n \in {"vslideup", "vslidedown"}, o \in {4, 5}}, 0, FALSE)
=============================================================================
