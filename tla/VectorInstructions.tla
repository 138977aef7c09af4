--------------------------- MODULE VectorInstructions ---------------------------
(***************************************************************************)
(* What the vector unit promises: instructions take effect one at a time and *)
(* as a whole.  The vector registers are part of memory.  An instruction is  *)
(* a record                                                                  *)
(*   name                one of Names                                        *)
(*   bytes               vl times the element size                           *)
(*   vd, vs1, vs2        numbers of the registers; vd is the source of a     *)
(*                       store                                               *)
(*   base, stride, elem  the memory side of a load or store: address, bytes  *)
(*                       between elements and bytes of an element            *)
(*   offset              bytes the elements slide                            *)
(* Memory is a partial function: a byte outside its domain has its initial   *)
(* value.  A byte value is a sequence that says how it came about.           *)
(***************************************************************************)
EXTENDS Integers, Sequences

CONSTANTS RegBytes,        \* bytes per vector register
          Instructions     \* the instructions of the programs considered

VARIABLES mem, insn

Loads == {"vle", "vlse"}
Stores == {"vse", "vsse"}
Names == Loads \cup Stores \cup {"vslideup", "vslidedown", "vadd_vv", "vadd_vx",
                                 "vmacc_vv", "vmacc_vx", "vmv_v_v", "vmv_v_x"}

InstructionType == [name : Names, bytes : Nat, vd : 0 .. 31, vs1 : 0 .. 31, vs2 : 0 .. 31,
                    base : Nat, stride : Int, elem : {1, 2, 4}, offset : Nat]

Read(m, a) == IF a \in DOMAIN m THEN m[a] ELSE <<a>>

Scalar == <<"x", "x">>                    \* the scalar operand of a .vx form
Result(a, b, c) == <<"op", a, b, c>>      \* one lane of the ALU

(* Addresses of byte k of a register and of the memory operand.             *)
RegByte(r, k) == RegBytes * r + k
MemByte(n, k) == IF n.name \in {"vlse", "vsse"}
                   THEN n.base + (k \div n.elem) * n.stride + (k % n.elem) ELSE n.base + k

(* The bytes of its destination an instruction writes; a slide down ends    *)
(* where its source does.                                                   *)
Written(n) == CASE n.name = "vslideup" -> n.offset .. n.bytes - 1
                [] n.name = "vslidedown" -> 0 .. n.bytes - n.offset - 1
                [] OTHER -> 0 .. n.bytes - 1

DestByte(n, k) == IF n.name \in Stores THEN MemByte(n, k) ELSE RegByte(n.vd, k)

Value(n, m, k) ==
  LET v1 == Read(m, RegByte(n.vs1, k))
      v2 == Read(m, RegByte(n.vs2, k))
      vd == Read(m, RegByte(n.vd, k))
  IN  CASE n.name \in Loads -> Read(m, MemByte(n, k))
        [] n.name \in Stores -> vd
        [] n.name = "vadd_vv" -> Result(v1, v2, Scalar)
        [] n.name = "vadd_vx" -> Result(Scalar, v2, Scalar)
        [] n.name = "vmacc_vv" -> Result(v1, v2, vd)
        [] n.name = "vmacc_vx" -> Result(Scalar, v2, vd)
        [] n.name = "vmv_v_v" -> v1
        [] n.name = "vmv_v_x" -> Scalar
        [] n.name = "vslideup" -> Read(m, RegByte(n.vs2, k - n.offset))
        [] n.name = "vslidedown" -> Read(m, RegByte(n.vs2, k + n.offset))

Effect(n, m) ==
  LET written == {DestByte(n, k) : k \in Written(n)}
  IN  [a \in DOMAIN m \cup written |->
         IF a \in written THEN Value(n, m, CHOOSE k \in Written(n) : DestByte(n, k) = a)
         ELSE m[a]]

None == [name |-> "none"]

AInit == mem = <<>> /\ insn = None

Begin == insn = None /\ insn' \in Instructions /\ UNCHANGED mem

Complete == /\ insn # None
            /\ mem' = Effect(insn, mem)
            /\ insn' \in Instructions \cup {None}

ASpec == AInit /\ [][Begin \/ Complete]_<<mem, insn>>
=============================================================================
