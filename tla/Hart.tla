--------------------------------- MODULE Hart ---------------------------------
(***************************************************************************)
(* What the core promises a programmer about traps, with no pipeline and no  *)
(* clock: one instruction at a time, in program order, each of which either   *)
(* takes effect or traps.  Every way out of the program remembers where to     *)
(* resume: exceptions and interrupts in the trap registers, an NMI and the     *)
(* debugger each in a place of its own, so that neither disturbs a handler.     *)
(***************************************************************************)
EXTENDS Privileged

VARIABLES scenario,            \* the program and its environment
          lines, debug_req,    \* requests from outside
          pc, priv, mie,       \* the next instruction, its privilege, interrupts enabled
          trap,                \* mpie, mpp, mepc and mcause
          nmi, back,           \* in an NMI handler, and where that goes back to
          debug, dback,        \* in debug mode, and where that goes back to
          dcsr, trigger,       \* step, ebreakm and the cause of the last halt; the breakpoint
          stepped              \* single step: the instruction has been executed

hartVars == <<scenario, pc, priv, mie, trap, nmi, back, debug, dback, dcsr, trigger, stepped>>

Here == [pc |-> pc, priv |-> priv, mie |-> mie]
Nowhere == [pc |-> Boot, priv |-> "M", mie |-> FALSE]

Init ==
  /\ pc = Boot /\ priv = "M" /\ mie = FALSE
  /\ trap = [mpie |-> FALSE, mpp |-> "M", mepc |-> Zero, mcause |-> None]
  /\ nmi = FALSE /\ back = Nowhere
  /\ debug = FALSE /\ dback = [pc |-> Zero, priv |-> "M"]
  /\ dcsr = [step |-> FALSE, ebreakm |-> FALSE, cause |-> None]
  /\ trigger = NoPC /\ stepped = FALSE

(* An instruction is executed unless the debugger wants to be asked first.   *)
Ready == debug \/ (pc # trigger /\ ~(dcsr.step /\ stepped))

Illegal(kind) ==
  \/ kind \in {"illegal", "misgrouped"}
  \/ kind \in MachineCsr \cup {"mret"} /\ priv # "M"
  \/ kind \in DebugCsr \cup {"dret"} /\ ~debug
  \/ kind = "wfi" /\ priv # "M" /\ scenario.tw

(* What can go wrong with an instruction; a fault in fetching it goes first. *)
Causes(kind) ==
  {"insn_fault"} \cup
  CASE Illegal(kind) -> {"illegal"}
    [] kind = "ecall" -> {IF priv = "M" THEN "ecall_m" ELSE "ecall_u"}
    [] kind = "ebreak" -> {"breakpoint"}
    [] kind = "load" -> {"load_fault"}
    [] kind = "store" -> {"store_fault"}
    [] OTHER -> {}

----------------------------------------------------------------------------
Executed == stepped' = (dcsr.step /\ ~debug)

Retire(kind) ==
  /\ Ready /\ ~Illegal(kind) /\ kind \notin {"ecall", "ebreak", "mret", "dret"}
  /\ pc' = IF kind \in {"branch", "jump"} THEN Target(pc) ELSE After(pc)
  /\ mie' = IF kind = "set_mie" THEN TRUE ELSE IF kind = "clear_mie" THEN FALSE ELSE mie
  /\ dcsr' = CASE kind = "set_step" -> [dcsr EXCEPT !.step = TRUE]
               [] kind = "clear_step" -> [dcsr EXCEPT !.step = FALSE]
               [] kind = "set_ebreakm" -> [dcsr EXCEPT !.ebreakm = TRUE]
               [] OTHER -> dcsr
  /\ trigger' = IF kind = "set_trigger" /\ debug THEN scenario.trigger ELSE trigger
  /\ Executed
  /\ UNCHANGED <<scenario, priv, trap, nmi, back, debug, dback>>

EnterTrap(cause, vector) ==
  /\ pc' = vector /\ priv' = "M" /\ mie' = FALSE
  /\ trap' = [mpie |-> mie, mpp |-> priv, mepc |-> pc, mcause |-> cause]
  /\ UNCHANGED <<scenario, nmi, back, debug, dback, dcsr, trigger>>

Exception(kind, cause) ==
  /\ Ready /\ cause \in Causes(kind) /\ ~debug
  /\ EnterTrap(cause, ExcVector)
  /\ Executed

(* In debug mode an exception leaves no trace but the jump.                  *)
DebugException(kind, cause) ==
  /\ debug /\ cause \in Causes(kind) \ {"breakpoint"}
  /\ pc' = DbgExcVector /\ priv' = "M"
  /\ UNCHANGED <<scenario, mie, trap, nmi, back, debug, dback, dcsr, trigger, stepped>>

Mret ==
  /\ Ready /\ ~Illegal("mret") /\ ~nmi
  /\ pc' = trap.mepc /\ priv' = trap.mpp /\ mie' = trap.mpie
  /\ trap' = [mpie |-> TRUE, mpp |-> "U", mepc |-> trap.mepc, mcause |-> trap.mcause]
  /\ Executed
  /\ UNCHANGED <<scenario, nmi, back, debug, dback, dcsr, trigger>>

(* The return from an NMI handler brings back all that the NMI interrupted.  *)
NmiReturn ==
  /\ Ready /\ ~Illegal("mret") /\ nmi
  /\ pc' = back.pc /\ priv' = back.priv /\ mie' = back.mie
  /\ nmi' = FALSE /\ back' = Nowhere
  /\ Executed
  /\ UNCHANGED <<scenario, trap, debug, dback, dcsr, trigger>>

Dret ==
  /\ debug
  /\ pc' = dback.pc /\ priv' = dback.priv /\ debug' = FALSE /\ stepped' = FALSE
  /\ UNCHANGED <<scenario, mie, trap, nmi, back, dback, dcsr, trigger>>

Instruction(kind) ==
  \/ Retire(kind)
  \/ \E cause \in ExcCause : Exception(kind, cause) \/ DebugException(kind, cause)
  \/ kind = "mret" /\ (Mret \/ NmiReturn)
  \/ kind = "dret" /\ Dret

----------------------------------------------------------------------------
Interrupt ==
  /\ Ready /\ ~debug /\ ~nmi
  /\ mie /\ lines # {} /\ "nm" \notin lines
  /\ EnterTrap(Foremost(lines), IrqVector)
  /\ UNCHANGED stepped

Nmi ==
  /\ Ready /\ ~debug /\ ~nmi /\ "nm" \in lines
  /\ back' = Here /\ nmi' = TRUE
  /\ pc' = NmiVector /\ priv' = "M" /\ mie' = FALSE
  /\ UNCHANGED <<scenario, trap, debug, dback, dcsr, trigger, stepped>>

EnterDebug(cause) ==
  /\ pc' = DbgVector /\ priv' = "M"
  /\ debug' = TRUE /\ dback' = [pc |-> pc, priv |-> priv]
  /\ dcsr' = [dcsr EXCEPT !.cause = cause] /\ stepped' = FALSE
  /\ UNCHANGED <<scenario, mie, trap, nmi, back, trigger>>

Halt ==
  /\ ~debug
  /\ pc = trigger \/ debug_req \/ (dcsr.step /\ stepped)
  /\ EnterDebug(CASE pc = trigger -> "trigger" [] pc # trigger /\ debug_req -> "haltreq"
                  [] OTHER -> "step")

(* An ebreak halts the hart where the debugger asked for it.                 *)
Ebreak ==
  /\ Ready /\ ~debug /\ priv = "M" /\ dcsr.ebreakm
  /\ "ebreak" \in scenario.code[pc]
  /\ EnterDebug("ebreak")

(* In debug mode it starts the debugger over.                                *)
DebugEbreak ==
  /\ debug /\ "ebreak" \in scenario.code[pc]
  /\ pc' = DbgVector
  /\ UNCHANGED <<scenario, priv, mie, trap, nmi, back, debug, dback, dcsr, trigger, stepped>>

Next ==
  \/ \E kind \in scenario.code[pc] : Instruction(kind)
  \/ Interrupt \/ Nmi \/ Halt \/ Ebreak \/ DebugEbreak

Spec == Init /\ [][Next]_hartVars
=============================================================================
