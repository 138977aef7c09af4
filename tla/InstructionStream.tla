-------------------------- MODULE InstructionStream --------------------------
(***************************************************************************)
(* What instruction fetch promises the decoder, with no buffer, no bus and  *)
(* no clock: instructions arrive in program order from the last redirect    *)
(* on, each made of the halfwords at its own address, read after that       *)
(* redirect, and marked as a fetch error exactly when a word it needs came  *)
(* back with one.                                                           *)
(***************************************************************************)
EXTENDS Integers, Sequences

CONSTANT NumHalves
VARIABLES pc,    \* the address of the next instruction
          out    \* the last thing that happened

Addr == 0 .. NumHalves - 1

(* Compressed instructions have one halfword, all others two.               *)
WellFormed(instr) ==
  LET r == instr.rdata
      first == r[1]
      compressed == first.c /\ ~first.err
  IN  /\ Len(r) = IF compressed THEN 1 ELSE 2
      /\ \A k \in DOMAIN r : /\ r[k].at = (instr.addr + k - 1) % NumHalves
                             /\ r[k].fresh
      /\ instr.err = \E k \in DOMAIN r : r[k].err
      /\ instr.err => instr.plus2 = ~first.err

Init == pc = 0 /\ out = [kind |-> "idle"]

Deliver == /\ out'.kind = "instr"
           /\ out'.addr = pc
           /\ WellFormed(out')
           /\ pc' = (pc + Len(out'.rdata)) % NumHalves

Redirect == /\ out'.kind = "redirect"
            /\ pc' = out'.to

Wait == out'.kind = "idle" /\ pc' = pc

Next == Deliver \/ Redirect \/ Wait

Spec == Init /\ [][Next]_<<pc, out>>
=============================================================================
