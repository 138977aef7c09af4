------------------------------ MODULE Privileged ------------------------------
(***************************************************************************)
(* The vocabulary of the trap model: program locations, kinds of            *)
(* instructions, and the causes of exceptions and interrupts.               *)
(* An address is a region and a place in it: the program, the handlers of    *)
(* exceptions, interrupts and NMIs, the debugger's code, and address zero,   *)
(* which the registers that keep an address hold after reset.                *)
(***************************************************************************)
EXTENDS Integers

None == "none"

Size == [main |-> 2, exc |-> 2, irq |-> 2, nmi |-> 2, dbg |-> 2, dbgexc |-> 1, zero |-> 1]
PC == {<<r, k>> : r \in DOMAIN Size, k \in 0 .. 1}
NoPC == <<None, 0>>
Region(pc) == pc[1]

Boot == <<"main", 0>>
ExcVector == <<"exc", 0>>
IrqVector == <<"irq", 0>>
NmiVector == <<"nmi", 0>>
DbgVector == <<"dbg", 0>>
DbgExcVector == <<"dbgexc", 0>>
Zero == <<"zero", 0>>

(* The instruction behind pc, and where a taken branch or a jump leads.      *)
After(pc) == <<pc[1], (pc[2] + 1) % Size[pc[1]]>>
Target(pc) == <<pc[1], 0>>

(* An "alu" is any instruction of one cycle, an untaken branch included.     *)
(* The CSR instructions are csrs/csrc mstatus.MIE, csrs/csrc dcsr.step,      *)
(* csrs dcsr.ebreakm and a write of the trigger registers.                   *)
Kind == {"alu", "mul", "branch", "jump", "load", "store", "vector", "misgrouped",
         "ecall", "ebreak", "mret", "dret", "wfi", "illegal",
         "set_mie", "clear_mie", "set_step", "clear_step", "set_ebreakm", "set_trigger"}
MachineCsr == {"set_mie", "clear_mie", "set_trigger"}
DebugCsr == {"set_step", "clear_step", "set_ebreakm"}
CsrAccess == MachineCsr \cup DebugCsr

Line == {"nm", "fast", "external", "software", "timer"}

(* The pending interrupt that is served first.                               *)
Foremost(lines) ==
  IF "nm" \in lines THEN "nm" ELSE IF "fast" \in lines THEN "fast"
  ELSE IF "external" \in lines THEN "external"
  ELSE IF "software" \in lines THEN "software" ELSE "timer"

ExcCause == {"insn_fault", "illegal", "breakpoint", "load_fault", "store_fault", "ecall_m", "ecall_u"}
DbgCause == {None, "ebreak", "trigger", "haltreq", "step"}
=============================================================================
