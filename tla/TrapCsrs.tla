------------------------------- MODULE TrapCsrs -------------------------------
(***************************************************************************)
(* The control and status registers that traps and the debugger use          *)
(* (cve2_cs_registers).  An action of this module is what one clock edge       *)
(* does to all of them.  The interrupt enables of mie, the base of mtvec,       *)
(* mtval, mprv and the counters are left out.                                     *)
(***************************************************************************)
EXTENDS Privileged

VARIABLES mstatus_q, mepc_q, mcause_q,
          mstack_q,            \* mstack, mstack_epc and mstack_cause, for recoverable NMIs
          priv_lvl_q,
          dcsr_q, depc_q,
          tmatch_q             \* the address of the enabled breakpoint

csrVars == <<mstatus_q, mepc_q, mcause_q, mstack_q, priv_lvl_q, dcsr_q, depc_q, tmatch_q>>
trapVars == <<mstatus_q, mepc_q, mcause_q, mstack_q>>
debugVars == <<dcsr_q, depc_q, tmatch_q>>

CsrInit ==
  /\ mstatus_q = [mie |-> FALSE, mpie |-> FALSE, mpp |-> "M"]
  /\ mepc_q = Zero /\ mcause_q = None
  /\ mstack_q = [mpie |-> TRUE, mpp |-> "U", epc |-> Zero, cause |-> None]
  /\ priv_lvl_q = "M"
  /\ dcsr_q = [step |-> FALSE, ebreakm |-> FALSE, prv |-> "M", cause |-> None]
  /\ depc_q = Zero /\ tmatch_q = NoPC

Priv == {"M", "U"}

CsrTypeOK ==
  /\ mstatus_q \in [mie : BOOLEAN, mpie : BOOLEAN, mpp : Priv]
  /\ mepc_q \in PC /\ mcause_q \in ExcCause \cup Line \cup {None}
  /\ mstack_q \in [mpie : BOOLEAN, mpp : Priv, epc : PC, cause : ExcCause \cup Line \cup {None}]
  /\ priv_lvl_q \in Priv
  /\ dcsr_q \in [step : BOOLEAN, ebreakm : BOOLEAN, prv : Priv, cause : DbgCause]
  /\ depc_q \in PC /\ tmatch_q \in PC \cup {NoPC}

(* The registers of M mode need M mode, those of the debugger debug mode.    *)
illegal_csr(kind, debug_mode) ==
  \/ kind \in MachineCsr /\ priv_lvl_q # "M"
  \/ kind \in DebugCsr /\ ~debug_mode

CsrKeep == UNCHANGED csrVars

(* csr_save_cause_i outside debug mode: an exception or an interrupt.        *)
SaveTrap(exception_pc, cause) ==
  /\ priv_lvl_q' = "M"
  /\ mstatus_q' = [mie |-> FALSE, mpie |-> mstatus_q.mie, mpp |-> priv_lvl_q]
  /\ mepc_q' = exception_pc /\ mcause_q' = cause
  /\ mstack_q' = [mpie |-> mstatus_q.mpie, mpp |-> mstatus_q.mpp, epc |-> mepc_q, cause |-> mcause_q]
  /\ UNCHANGED debugVars

(* An exception in debug mode updates no register.                           *)
SaveInDebugMode == priv_lvl_q' = "M" /\ UNCHANGED <<trapVars, debugVars>>

(* debug_csr_save_i                                                          *)
SaveDebug(exception_pc, cause) ==
  /\ priv_lvl_q' = "M"
  /\ dcsr_q' = [dcsr_q EXCEPT !.prv = priv_lvl_q, !.cause = cause]
  /\ depc_q' = exception_pc
  /\ UNCHANGED <<trapVars, tmatch_q>>

RestoreDret == priv_lvl_q' = dcsr_q.prv /\ UNCHANGED <<trapVars, debugVars>>

RestoreMret(nmi_mode) ==
  /\ priv_lvl_q' = mstatus_q.mpp
  /\ IF nmi_mode
       THEN /\ mstatus_q' = [mie |-> mstatus_q.mpie, mpie |-> mstack_q.mpie, mpp |-> mstack_q.mpp]
            /\ mepc_q' = mstack_q.epc /\ mcause_q' = mstack_q.cause
       ELSE /\ mstatus_q' = [mie |-> mstatus_q.mpie, mpie |-> TRUE, mpp |-> "U"]
            /\ UNCHANGED <<mepc_q, mcause_q>>
  /\ UNCHANGED <<mstack_q, debugVars>>

(* A CSR instruction; the trigger registers are writable in debug mode only. *)
WriteCsr(kind, debug_mode, address) ==
  /\ mstatus_q' = IF kind \in {"set_mie", "clear_mie"} THEN [mstatus_q EXCEPT !.mie = (kind = "set_mie")]
                  ELSE mstatus_q
  /\ dcsr_q' = CASE kind \in {"set_step", "clear_step"} -> [dcsr_q EXCEPT !.step = (kind = "set_step")]
                 [] kind = "set_ebreakm" -> [dcsr_q EXCEPT !.ebreakm = TRUE]
                 [] OTHER -> dcsr_q
  /\ tmatch_q' = IF kind = "set_trigger" /\ debug_mode THEN address ELSE tmatch_q
  /\ UNCHANGED <<mepc_q, mcause_q, mstack_q, priv_lvl_q, depc_q>>
=============================================================================
