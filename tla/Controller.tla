------------------------------ MODULE Controller ------------------------------
(***************************************************************************)
(* The controller (cve2_controller): a state machine that boots the core,     *)
(* lets instructions run, and leaves DECODE to serve exceptions, interrupts,   *)
(* NMIs, the debugger, special instructions and sleep.                          *)
(* i holds the inputs of a cycle: instr_valid, kind and fetch_err of the          *)
(* instruction in ID with illegal_insn, csr_pipe_flush, stall and pc_id from the   *)
(* ID stage, branch_set, jump_set, load_err and store_err; pc_if; the lines,        *)
(* debug_req and tw; fetch_enable.                                                    *)
(***************************************************************************)
EXTENDS TrapCsrs

VARIABLES ctrl_fsm_cs,
          nmi_mode_q, debug_mode_q,
          do_single_step_q, enter_debug_mode_prio_q,
          exc_req_q, illegal_insn_q, load_err_q, store_err_q

ctrlVars == <<ctrl_fsm_cs, nmi_mode_q, debug_mode_q, do_single_step_q,
              enter_debug_mode_prio_q, exc_req_q, illegal_insn_q, load_err_q, store_err_q>>

CtrlState == {"RESET", "BOOT_SET", "WAIT_SLEEP", "SLEEP", "FIRST_FETCH", "DECODE",
              "FLUSH", "IRQ_TAKEN", "DBG_TAKEN_IF", "DBG_TAKEN_ID"}

CtrlInit ==
  /\ ctrl_fsm_cs = "RESET"
  /\ nmi_mode_q = FALSE /\ debug_mode_q = FALSE
  /\ do_single_step_q = FALSE /\ enter_debug_mode_prio_q = FALSE
  /\ exc_req_q = FALSE /\ illegal_insn_q = FALSE
  /\ load_err_q = FALSE /\ store_err_q = FALSE

CtrlTypeOK ==
  /\ ctrl_fsm_cs \in CtrlState
  /\ {nmi_mode_q, debug_mode_q, do_single_step_q, enter_debug_mode_prio_q,
      exc_req_q, illegal_insn_q, load_err_q, store_err_q} \subseteq BOOLEAN

controller_run == ctrl_fsm_cs = "DECODE"

----------------------------------------------------------------------------
(* Requests to leave the program.                                            *)
Is(i, kind) == i.instr_valid /\ i.kind = kind

illegal_dret(i) == Is(i, "dret") /\ ~debug_mode_q
illegal_umode(i) == priv_lvl_q # "M" /\ (Is(i, "mret") \/ (i.tw /\ Is(i, "wfi")))
illegal_insn_d(i) ==
  (i.illegal_insn \/ illegal_dret(i) \/ illegal_umode(i)) /\ ctrl_fsm_cs # "FLUSH"

exc_req_d(i) ==
  /\ Is(i, "ecall") \/ Is(i, "ebreak") \/ illegal_insn_d(i) \/ (i.instr_valid /\ i.fetch_err)
  /\ ctrl_fsm_cs # "FLUSH"
exc_req_lsu(i) == i.load_err \/ i.store_err

special_req_pc_change(i) == Is(i, "mret") \/ Is(i, "dret") \/ exc_req_d(i) \/ exc_req_lsu(i)
special_req(i) == special_req_pc_change(i) \/ Is(i, "wfi") \/ (i.csr_pipe_flush /\ i.instr_valid)

trigger_match(i) == i.pc_if = tmatch_q
M_do_single_step_d(i) == i.instr_valid /\ ~debug_mode_q /\ dcsr_q.step

do_single_step_d(i) ==
  IF i.instr_valid THEN ~debug_mode_q /\ dcsr_q.step ELSE do_single_step_q
enter_debug_mode_prio_d(i) == (i.debug_req \/ do_single_step_d(i)) /\ ~debug_mode_q
enter_debug_mode(i) == enter_debug_mode_prio_d(i) \/ (trigger_match(i) /\ ~debug_mode_q)

ebreak_into_debug == priv_lvl_q = "M" /\ dcsr_q.ebreakm

irq_pending(i) == i.lines \ {"nm"} # {}
handle_irq(i) ==
  /\ ~debug_mode_q /\ ~nmi_mode_q
  /\ "nm" \in i.lines \/ (irq_pending(i) /\ mstatus_q.mie)

M_wake_enabled(i) == handle_irq(i) \/ i.debug_req \/ debug_mode_q \/ dcsr_q.step
M_wake_irq(i) == i.lines # {} \/ debug_mode_q \/ dcsr_q.step

(* In SLEEP: what wakes the core up.                                         *)
wake(i) == i.lines # {} \/ i.debug_req \/ debug_mode_q \/ dcsr_q.step

(* In FLUSH: an exception, and the one that goes first.                      *)
exception(i) == exc_req_q \/ store_err_q \/ load_err_q
exc_cause(i) ==
  IF i.instr_valid /\ i.fetch_err THEN "insn_fault"
  ELSE IF illegal_insn_q THEN "illegal"
  ELSE IF Is(i, "ecall") THEN (IF priv_lvl_q = "M" THEN "ecall_m" ELSE "ecall_u")
  ELSE IF Is(i, "ebreak") THEN "breakpoint"
  ELSE IF store_err_q THEN "store_fault" ELSE "load_fault"
ebreak_to_debugger(i) ==
  exception(i) /\ exc_cause(i) = "breakpoint" /\ (debug_mode_q \/ ebreak_into_debug)

----------------------------------------------------------------------------
(* What the controller tells the other stages.                               *)
flush_id(i) ==
  \/ ctrl_fsm_cs \in {"WAIT_SLEEP", "SLEEP", "DBG_TAKEN_IF", "DBG_TAKEN_ID"}
  \/ ctrl_fsm_cs = "FLUSH" /\ ~ebreak_to_debugger(i)

retain_id(i) == ctrl_fsm_cs = "DECODE" /\ special_req(i)

M_halt_if(i) ==
  \/ ctrl_fsm_cs \in {"WAIT_SLEEP", "SLEEP", "FLUSH"}
  \/ /\ ctrl_fsm_cs \in {"FIRST_FETCH", "DECODE"} /\ enter_debug_mode(i)
     /\ i.stall \/ i.instr_valid \/ ~special_req(i)

halt_if(i) ==
  \/ ctrl_fsm_cs \in {"WAIT_SLEEP", "SLEEP", "FLUSH"}
  \/ ctrl_fsm_cs = "FIRST_FETCH" /\ (handle_irq(i) \/ enter_debug_mode(i))
  \/ /\ ctrl_fsm_cs = "DECODE" /\ (handle_irq(i) \/ enter_debug_mode(i))
     /\ i.stall \/ i.instr_valid \/ ~special_req(i)

id_in_ready(i) == ~i.stall /\ ~halt_if(i) /\ ~retain_id(i)
instr_valid_clear(i) == ~(i.stall \/ retain_id(i)) \/ flush_id(i)

ctrl_busy(i) == ctrl_fsm_cs # "WAIT_SLEEP" /\ (ctrl_fsm_cs = "SLEEP" => wake(i))

(* The redirect of this cycle: <<pc_mux, address>>, or none.                 *)
redirect(i) ==
  CASE ctrl_fsm_cs \in {"RESET", "BOOT_SET"} -> <<"PC_BOOT", Boot>>
    [] ctrl_fsm_cs = "DECODE" /\ (i.branch_set \/ i.jump_set) -> <<"PC_JUMP", Target(i.pc_id)>>
    [] ctrl_fsm_cs = "IRQ_TAKEN" /\ handle_irq(i) ->
         <<"PC_EXC", IF "nm" \in i.lines THEN NmiVector ELSE IrqVector>>
    [] ctrl_fsm_cs \in {"DBG_TAKEN_IF", "DBG_TAKEN_ID"} -> <<"PC_EXC", DbgVector>>
    [] ctrl_fsm_cs = "FLUSH" /\ exception(i) /\ ~ebreak_to_debugger(i) ->
         <<"PC_EXC", IF debug_mode_q THEN DbgExcVector ELSE ExcVector>>
    [] ctrl_fsm_cs = "FLUSH" /\ ~exception(i) /\ Is(i, "mret") -> <<"PC_ERET", mepc_q>>
    [] ctrl_fsm_cs = "FLUSH" /\ ~exception(i) /\ Is(i, "dret") -> <<"PC_DRET", depc_q>>
    [] OTHER -> <<None, NoPC>>
pc_mux(i) == redirect(i)[1]
M_pc_set(i) == ctrl_fsm_cs = "FLUSH" \/ pc_mux(i) # None

M_pc_set_sleep(i) == (ctrl_fsm_cs = "FLUSH" /\ Is(i, "wfi")) \/ pc_mux(i) # None

pc_set(i) == pc_mux(i) # None

----------------------------------------------------------------------------
(* One action per state: the next state, the modes and the CSRs.             *)
KeepModes == UNCHANGED <<nmi_mode_q, debug_mode_q>>

Reset(i) ==
  /\ ctrl_fsm_cs = "RESET"
  /\ ctrl_fsm_cs' = IF i.fetch_enable THEN "BOOT_SET" ELSE "RESET"
  /\ KeepModes /\ CsrKeep

BootSet == /\ ctrl_fsm_cs = "BOOT_SET" /\ ctrl_fsm_cs' = "FIRST_FETCH"
           /\ KeepModes /\ CsrKeep

WaitSleep == /\ ctrl_fsm_cs = "WAIT_SLEEP" /\ ctrl_fsm_cs' = "SLEEP"
             /\ KeepModes /\ CsrKeep

Sleep(i) ==
  /\ ctrl_fsm_cs = "SLEEP"
  /\ ctrl_fsm_cs' = IF wake(i) THEN "FIRST_FETCH" ELSE "SLEEP"
  /\ KeepModes /\ CsrKeep

FirstFetch(i) ==
  /\ ctrl_fsm_cs = "FIRST_FETCH"
  /\ ctrl_fsm_cs' = IF enter_debug_mode(i) THEN "DBG_TAKEN_IF"
                    ELSE IF handle_irq(i) THEN "IRQ_TAKEN"
                    ELSE IF id_in_ready(i) THEN "DECODE" ELSE "FIRST_FETCH"
  /\ KeepModes /\ CsrKeep

(* A running instruction first, then the debugger, then interrupts.          *)
Decode(i) ==
  /\ ctrl_fsm_cs = "DECODE"
  /\ ctrl_fsm_cs' = IF special_req(i) THEN "FLUSH"
                    ELSE IF i.stall \/ i.instr_valid THEN "DECODE"
                    ELSE IF enter_debug_mode(i) THEN "DBG_TAKEN_IF"
                    ELSE IF handle_irq(i) THEN "IRQ_TAKEN" ELSE "DECODE"
  /\ KeepModes
  /\ IF i.csr_we THEN WriteCsr(i.kind, debug_mode_q, i.breakpoint) ELSE CsrKeep

(* The request may have gone away since DECODE.                              *)
IrqTaken(i) ==
  /\ ctrl_fsm_cs = "IRQ_TAKEN" /\ ctrl_fsm_cs' = "DECODE"
  /\ nmi_mode_q' = (nmi_mode_q \/ (handle_irq(i) /\ "nm" \in i.lines))
  /\ UNCHANGED debug_mode_q
  /\ IF handle_irq(i) THEN SaveTrap(i.pc_if, Foremost(i.lines)) ELSE CsrKeep

DbgTakenIf(i) ==
  /\ ctrl_fsm_cs = "DBG_TAKEN_IF" /\ ctrl_fsm_cs' = "DECODE"
  /\ debug_mode_q' = TRUE /\ UNCHANGED nmi_mode_q
  /\ SaveDebug(i.pc_if, CASE trigger_match(i) -> "trigger" [] ~trigger_match(i) /\ i.debug_req -> "haltreq"
                          [] OTHER -> "step")

DbgTakenId(i) ==
  /\ ctrl_fsm_cs = "DBG_TAKEN_ID" /\ ctrl_fsm_cs' = "DECODE"
  /\ debug_mode_q' = TRUE /\ UNCHANGED nmi_mode_q
  /\ IF ebreak_into_debug /\ ~debug_mode_q THEN SaveDebug(i.pc_id, "ebreak") ELSE CsrKeep

M_AfterFlush(i, state) ==
  IF enter_debug_mode_prio_q THEN "DBG_TAKEN_IF" ELSE IF handle_irq(i) THEN "IRQ_TAKEN" ELSE state

(* A pending entry into debug mode waits until the CSRs and the PC are as if *)
(* the exception had been entered, unless the ebreak itself goes there.      *)
AfterFlush(i, state) ==
  IF enter_debug_mode_prio_q /\ ~(exception(i) /\ exc_cause(i) = "breakpoint" /\ ebreak_into_debug)
    THEN "DBG_TAKEN_IF" ELSE state

FlushException(i) ==
  /\ ctrl_fsm_cs = "FLUSH" /\ exception(i) /\ ~ebreak_to_debugger(i)
  /\ ctrl_fsm_cs' = AfterFlush(i, "DECODE")
  /\ KeepModes
  /\ IF debug_mode_q THEN SaveInDebugMode ELSE SaveTrap(i.pc_id, exc_cause(i))

FlushEbreak(i) ==
  /\ ctrl_fsm_cs = "FLUSH" /\ ebreak_to_debugger(i)
  /\ ctrl_fsm_cs' = AfterFlush(i, "DBG_TAKEN_ID")
  /\ KeepModes /\ CsrKeep

FlushMret(i) ==
  /\ ctrl_fsm_cs = "FLUSH" /\ ~exception(i) /\ Is(i, "mret")
  /\ ctrl_fsm_cs' = AfterFlush(i, "DECODE")
  /\ nmi_mode_q' = FALSE /\ UNCHANGED debug_mode_q
  /\ RestoreMret(nmi_mode_q)

FlushDret(i) ==
  /\ ctrl_fsm_cs = "FLUSH" /\ ~exception(i) /\ Is(i, "dret")
  /\ ctrl_fsm_cs' = AfterFlush(i, "DECODE")
  /\ debug_mode_q' = FALSE /\ UNCHANGED nmi_mode_q
  /\ RestoreDret

(* wfi goes to sleep; a CSR write only restarts the pipeline.                *)
FlushOnly(i) ==
  /\ ctrl_fsm_cs = "FLUSH" /\ ~exception(i) /\ ~Is(i, "mret") /\ ~Is(i, "dret")
  /\ ctrl_fsm_cs' = AfterFlush(i, IF Is(i, "wfi") THEN "WAIT_SLEEP" ELSE "DECODE")
  /\ KeepModes /\ CsrKeep

CtrlStep(i) ==
  \/ Reset(i) \/ BootSet \/ WaitSleep \/ Sleep(i) \/ FirstFetch(i) \/ Decode(i)
  \/ IrqTaken(i) \/ DbgTakenIf(i) \/ DbgTakenId(i)
  \/ FlushException(i) \/ FlushEbreak(i) \/ FlushMret(i) \/ FlushDret(i) \/ FlushOnly(i)

CtrlCycle(i) ==
  /\ CtrlStep(i)
  /\ do_single_step_q' = do_single_step_d(i)
  /\ enter_debug_mode_prio_q' = enter_debug_mode_prio_d(i)
  /\ exc_req_q' = exc_req_d(i) /\ illegal_insn_q' = illegal_insn_d(i)
  /\ load_err_q' = i.load_err /\ store_err_q' = i.store_err
=============================================================================
