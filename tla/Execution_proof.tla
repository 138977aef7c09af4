---------------------------- MODULE Execution_proof ----------------------------
(***************************************************************************)
(* What holds of the controller with its pipeline for every program, every   *)
(* timing of the units, the interrupts and the debugger.                      *)
(***************************************************************************)
EXTENDS Execution, TLAPS

(* The instruction in ID is one of the program, and the breakpoint has let   *)
(* it in.                                                                     *)
Fetched ==
  instr_valid_id_q =>
    /\ ctrl_fsm_cs \in {"DECODE", "FLUSH"}
    /\ instr.kind \in scenario.code[pc_id]
    /\ instr.fetch_err => may_fail(pc_id)
    /\ ~debug_mode_q => pc_id # tmatch_q

(* What the instruction in ID has begun: an access, a branch.                *)
Begun ==
  /\ lsu_waits # None => lsu_waits = instr.kind
  /\ branch_set_raw_q => instr.kind = "branch"
  /\ (lsu_waits # None \/ branch_set_raw_q) =>
       /\ instr_valid_id_q /\ ctrl_fsm_cs = "DECODE"
       /\ ~instr.fetch_err /\ id_fsm_q = "MULTI_CYCLE"

(* The flops that DECODE leaves to FLUSH still describe the instruction.     *)
Flushed ==
  ctrl_fsm_cs = "FLUSH" =>
    /\ instr_valid_id_q
    /\ ~instr.fetch_err => (illegal_insn_q <=> hart!Illegal(instr.kind))
    /\ exc_req_q <=> (instr.fetch_err \/ hart!Illegal(instr.kind) \/ instr.kind \in {"ecall", "ebreak"})
    /\ load_err_q => instr.kind = "load" /\ may_fail(pc_id)
    /\ store_err_q => instr.kind = "store" /\ may_fail(pc_id)
    /\ do_single_step_q <=> ~debug_mode_q /\ dcsr_q.step
    /\ enter_debug_mode_prio_q => ~debug_mode_q /\ (debug_req \/ do_single_step_q)

(* The reason to leave the program is still there when it is left.           *)
Leaving ==
  /\ ctrl_fsm_cs \in {"RESET", "BOOT_SET"} => ~debug_mode_q /\ ~nmi_mode_q /\ ~do_single_step_q
  /\ ctrl_fsm_cs = "IRQ_TAKEN" => ~debug_mode_q /\ ~do_single_step_q /\ fetch_addr # tmatch_q
  /\ ctrl_fsm_cs = "DBG_TAKEN_IF" =>
       ~debug_mode_q /\ (fetch_addr = tmatch_q \/ debug_req \/ do_single_step_q)
  /\ ctrl_fsm_cs = "DBG_TAKEN_ID" =>
       /\ "ebreak" \in scenario.code[pc_id]
       /\ debug_mode_q \/ (ebreak_into_debug /\ pc_id # tmatch_q)
  /\ do_single_step_q /\ ~debug_mode_q => dcsr_q.step

(* The tracking logic of the assertions follows the state machine.           *)
Monitored ==
  /\ monitor.seen => ctrl_fsm_cs = "DBG_TAKEN_IF"
  /\ ctrl_fsm_cs \in {"FLUSH", "IRQ_TAKEN", "DBG_TAKEN_IF", "DBG_TAKEN_ID"} => monitor.pending
  /\ monitor.pending /\ ~monitor.expect =>
       \/ ctrl_fsm_cs \in {"WAIT_SLEEP", "SLEEP", "FIRST_FETCH"}
       \/ /\ ctrl_fsm_cs = "FLUSH" /\ ~exc_req_q /\ ~load_err_q /\ ~store_err_q
          /\ instr.kind \notin {"mret", "dret"} /\ ~enter_debug_mode_prio_q
  /\ ~monitor.twice /\ ~monitor.unasked

InvType ==
  /\ TypeOK /\ scenario \in Scenarios
  /\ monitor \in [pending : BOOLEAN, expect : BOOLEAN, seen : BOOLEAN, twice : BOOLEAN, unasked : BOOLEAN]

IInv == InvType /\ Fetched /\ Begun /\ Flushed /\ Leaving /\ Monitored

MultiCycleKind == {"mul", "branch", "jump", "load", "store", "vector"}

(* The FSM is in its second state only for the instruction in ID, and fetch  *)
(* stands behind that instruction or at the target it has jumped to.          *)
Straight ==
  /\ id_fsm_q = "MULTI_CYCLE" =>
       instr_valid_id_q /\ ctrl_fsm_cs = "DECODE" /\ ~instr.fetch_err /\ instr.kind \in MultiCycleKind
  /\ branch_set_raw_q = (id_fsm_q = "MULTI_CYCLE" /\ instr.kind = "branch")
  /\ branch_jump_set_done_q => id_fsm_q = "MULTI_CYCLE" /\ instr.kind = "jump"
  /\ instr_valid_id_q =>
       fetch_addr = IF id_fsm_q = "MULTI_CYCLE" /\ instr.kind = "jump" THEN Target(pc_id) ELSE After(pc_id)

(* In an NMI handler, or in the debugger on its behalf.                      *)
InHandler ==
  nmi_mode_q =>
    IF debug_mode_q THEN Region(depc_q) = "nmi" /\ dcsr_q.prv = "M"
    ELSE /\ Region(fetch_addr) = "nmi" /\ priv_lvl_q = "M"
         /\ instr_valid_id_q \/ ctrl_fsm_cs = "DBG_TAKEN_ID" => Region(pc_id) = "nmi"

----------------------------------------------------------------------------
(* The wires of a cycle.                                                     *)

LEMMA Wires ==
  ASSUME NEW e
  PROVE  /\ Input(e).instr_valid = instr_valid_id_q /\ Input(e).kind = instr.kind
         /\ Input(e).fetch_err = instr.fetch_err /\ Input(e).illegal_insn = illegal_insn
         /\ Input(e).csr_pipe_flush = csr_pipe_flush(e)
         /\ Input(e).csr_we = (csr_op_en(e) /\ ~illegal_csr_insn)
         /\ Input(e).breakpoint = scenario.trigger
         /\ Input(e).stall = stall_id(e)
         /\ Input(e).branch_set = branch_set /\ Input(e).jump_set = jump_set
         /\ Input(e).load_err = (e.resp = "err" /\ lsu_waits = "load")
         /\ Input(e).store_err = (e.resp = "err" /\ lsu_waits = "store")
         /\ Input(e).pc_if = fetch_addr /\ Input(e).pc_id = pc_id
         /\ Input(e).lines = lines /\ Input(e).debug_req = debug_req
         /\ Input(e).tw = scenario.tw /\ Input(e).fetch_enable = fetch_enable_q
BY DEF Input

LEMMA IllegalKinds ==
  ASSUME NEW kind
  PROVE  hart!Illegal(kind) <=>
           \/ kind \in {"illegal", "misgrouped"}
           \/ kind \in {"set_mie", "clear_mie", "set_trigger", "mret"} /\ priv_lvl_q # "M"
           \/ kind \in {"set_step", "clear_step", "set_ebreakm", "dret"} /\ ~debug_mode_q
           \/ kind = "wfi" /\ priv_lvl_q # "M" /\ scenario.tw
BY DEF hart!Illegal, hart!MachineCsr, hart!DebugCsr

LEMMA Types ==
  ASSUME InvType
  PROVE  /\ ctrl_fsm_cs \in CtrlState
         /\ nmi_mode_q \in BOOLEAN /\ debug_mode_q \in BOOLEAN
         /\ do_single_step_q \in BOOLEAN /\ enter_debug_mode_prio_q \in BOOLEAN
         /\ exc_req_q \in BOOLEAN /\ illegal_insn_q \in BOOLEAN
         /\ load_err_q \in BOOLEAN /\ store_err_q \in BOOLEAN
         /\ debug_req \in BOOLEAN /\ fetch_enable_q \in BOOLEAN /\ core_busy_q \in BOOLEAN
         /\ fetch_valid \in BOOLEAN /\ instr_valid_id_q \in BOOLEAN
         /\ branch_set_raw_q \in BOOLEAN /\ branch_jump_set_done_q \in BOOLEAN
         /\ instr.kind \in Kind /\ instr.fetch_err \in BOOLEAN
         /\ instr = [kind |-> instr.kind, fetch_err |-> instr.fetch_err]
         /\ fetch_addr \in PC /\ pc_id \in PC
         /\ lsu_waits \in {None, "load", "store"}
         /\ dcsr_q.step \in BOOLEAN /\ mstatus_q.mie \in BOOLEAN
BY DEF InvType, TypeOK, CtrlTypeOK, CsrTypeOK

(* Outside DECODE no instruction begins or ends anything.                    *)
LEMMA NotDecoding ==
  ASSUME IInv, NEW e \in Answer, Answers(e), ctrl_fsm_cs # "DECODE"
  PROVE  /\ lsu_waits = None /\ e.resp = None /\ ~instr_executing
         /\ ~Input(e).load_err /\ ~Input(e).store_err /\ ~Input(e).csr_we
         /\ ~Input(e).branch_set /\ ~Input(e).jump_set
         /\ ~Input(e).csr_pipe_flush
         /\ illegal_insn_d(Input(e)) = FALSE /\ exc_req_d(Input(e)) = FALSE
         /\ id_fsm_d(e) = id_fsm_q /\ branch_set_raw_d = FALSE /\ jump_set_raw = FALSE
         /\ ~lsu_req /\ ~branch_set_raw_q
         /\ special_req(Input(e)) = (ctrl_fsm_cs = "FLUSH" /\ instr.kind \in {"mret", "dret", "wfi"})
<1>1. lsu_waits = None /\ e.resp = None /\ ~instr_executing /\ ~branch_set_raw_q
  BY Types DEF IInv, Begun, Answers, instr_executing, controller_run
<1>2. instr_valid_id_q => ctrl_fsm_cs = "FLUSH"
  BY DEF IInv, Fetched
<1>3. /\ ~Input(e).load_err /\ ~Input(e).store_err /\ ~Input(e).csr_we
      /\ ~Input(e).branch_set /\ ~Input(e).jump_set /\ ~Input(e).csr_pipe_flush
      /\ branch_set_raw_d = FALSE /\ jump_set_raw = FALSE /\ ~lsu_req
      /\ id_fsm_d(e) = id_fsm_q
  BY <1>1, Wires DEF csr_op_en, csr_pipe_flush, branch_set, jump_set,
     branch_set_raw_d, jump_set_raw, lsu_req, id_fsm_d
<1>4. ~instr_valid_id_q => ~illegal_insn
  BY <1>1 DEF illegal_insn
<1>5. illegal_insn_d(Input(e)) = FALSE /\ exc_req_d(Input(e)) = FALSE
  BY <1>2, <1>4, Wires DEF illegal_insn_d, illegal_dret, illegal_umode, exc_req_d, Is
<1>6. special_req(Input(e)) = (ctrl_fsm_cs = "FLUSH" /\ instr.kind \in {"mret", "dret", "wfi"})
  BY <1>2, <1>3, <1>5, Wires DEF special_req, special_req_pc_change, exc_req_lsu, Is, IInv, Flushed
<1> QED BY <1>1, <1>3, <1>5, <1>6

(* The same in DECODE while nothing is in ID.                                *)
LEMMA Empty ==
  ASSUME IInv, NEW e \in Answer, Answers(e), ctrl_fsm_cs = "DECODE", ~instr_valid_id_q
  PROVE  /\ lsu_waits = None /\ e.resp = None /\ ~instr_executing
         /\ ~Input(e).load_err /\ ~Input(e).store_err /\ ~Input(e).csr_we
         /\ ~Input(e).branch_set /\ ~Input(e).jump_set /\ ~Input(e).stall
         /\ id_fsm_d(e) = id_fsm_q /\ branch_set_raw_d = FALSE /\ jump_set_raw = FALSE
         /\ ~lsu_req /\ ~branch_set_raw_q
         /\ ~special_req(Input(e)) /\ ~special_req_pc_change(Input(e))
<1>1. lsu_waits = None /\ e.resp = None /\ ~instr_executing /\ ~branch_set_raw_q
  BY Types DEF IInv, Begun, Answers, instr_executing
<1>2. /\ ~Input(e).load_err /\ ~Input(e).store_err /\ ~Input(e).csr_we
      /\ ~Input(e).branch_set /\ ~Input(e).jump_set /\ ~Input(e).stall
      /\ branch_set_raw_d = FALSE /\ jump_set_raw = FALSE /\ ~lsu_req
      /\ id_fsm_d(e) = id_fsm_q
  BY <1>1, Wires DEF csr_op_en, branch_set, jump_set, stall_id, stall_mem,
     branch_set_raw_d, jump_set_raw, lsu_req, id_fsm_d
<1>3. ~illegal_insn_d(Input(e)) /\ ~exc_req_d(Input(e))
  BY <1>1, Wires DEF illegal_insn, illegal_insn_d, illegal_dret, illegal_umode, exc_req_d, Is
<1>4. ~special_req(Input(e)) /\ ~special_req_pc_change(Input(e))
  BY <1>2, <1>3, Wires DEF special_req, special_req_pc_change, exc_req_lsu, Is
<1> QED BY <1>1, <1>2, <1>4

(* The requests of the instruction in ID while it runs.                      *)
Raises == instr.fetch_err \/ hart!Illegal(instr.kind) \/ instr.kind \in {"ecall", "ebreak"}
Errs(e) == Input(e).load_err \/ Input(e).store_err
Restarts == ~instr.fetch_err /\ instr.kind \in {"set_mie", "clear_step"}

LEMMA Decoding ==
  ASSUME IInv, NEW e \in Answer, Answers(e), ctrl_fsm_cs = "DECODE", instr_valid_id_q
  PROVE  /\ instr_executing <=> ~instr.fetch_err
         /\ ~instr.fetch_err => (illegal_insn_d(Input(e)) <=> hart!Illegal(instr.kind))
         /\ exc_req_d(Input(e)) <=> Raises
         /\ Input(e).load_err => instr.kind = "load" /\ may_fail(pc_id) /\ ~instr.fetch_err
         /\ Input(e).store_err => instr.kind = "store" /\ may_fail(pc_id) /\ ~instr.fetch_err
         /\ Errs(e) => e.resp = "err" /\ id_fsm_q = "MULTI_CYCLE"
         /\ special_req_pc_change(Input(e)) <=> Raises \/ Errs(e) \/ instr.kind \in {"mret", "dret"}
         /\ special_req(Input(e)) <=>
              special_req_pc_change(Input(e)) \/ instr.kind = "wfi" \/ Restarts
         /\ Input(e).csr_we <=> instr.kind \in CsrAccess /\ ~Raises
         /\ Input(e).branch_set => instr.kind = "branch" /\ ~special_req(Input(e))
         /\ Input(e).jump_set => instr.kind = "jump" /\ ~special_req(Input(e))
<1> DEFINE i == Input(e)
<1>1. instr_executing <=> ~instr.fetch_err
  BY DEF instr_executing, controller_run
<1>2. ~instr.fetch_err => (illegal_insn_d(i) <=> hart!Illegal(instr.kind))
  BY <1>1, Wires, IllegalKinds DEF illegal_insn_d, illegal_dret, illegal_umode, Is, illegal_insn,
     illegal_csr_insn, illegal_csr, vrf_req_dec, MachineCsr, DebugCsr
<1>3. exc_req_d(i) <=> Raises
  BY <1>2, Wires DEF exc_req_d, Is, Raises
<1>4. /\ i.load_err => instr.kind = "load" /\ may_fail(pc_id) /\ ~instr.fetch_err
      /\ i.store_err => instr.kind = "store" /\ may_fail(pc_id) /\ ~instr.fetch_err
      /\ Errs(e) => e.resp = "err" /\ id_fsm_q = "MULTI_CYCLE"
  BY Wires DEF IInv, Begun, Answers, None, Errs
<1>5. special_req_pc_change(i) <=> Raises \/ Errs(e) \/ instr.kind \in {"mret", "dret"}
  BY <1>3, Wires DEF special_req_pc_change, Is, exc_req_lsu, Errs
<1>6. instr.kind \in CsrAccess => ~stall_id(e)
  BY DEF CsrAccess, MachineCsr, DebugCsr, stall_id, stall_mem, lsu_req_dec, vrf_req_dec
<1>7. i.csr_pipe_flush <=> Restarts
  BY <1>1, <1>6, Wires DEF csr_pipe_flush, csr_op_en, Restarts, CsrAccess, MachineCsr, DebugCsr
<1>8. special_req(i) <=> special_req_pc_change(i) \/ instr.kind = "wfi" \/ Restarts
  BY <1>7, Wires DEF special_req, Is
<1>9. i.csr_we <=> instr.kind \in CsrAccess /\ ~Raises
  <2>1. instr.kind \in CsrAccess => (illegal_csr_insn <=> hart!Illegal(instr.kind))
    BY IllegalKinds DEF illegal_csr_insn, illegal_csr, CsrAccess, MachineCsr, DebugCsr
  <2>2. instr.kind \in CsrAccess => instr.kind \notin {"ecall", "ebreak"}
    BY DEF CsrAccess, MachineCsr, DebugCsr
  <2> QED BY <1>1, <1>6, <2>1, <2>2, Wires DEF csr_op_en, Raises
<1>10. instr.kind \in {"branch", "jump"} /\ ~instr.fetch_err => ~special_req(i)
  BY <1>4, <1>5, <1>8, IllegalKinds DEF Raises, Errs, Restarts
<1>11. /\ i.branch_set => instr.kind = "branch" /\ ~instr.fetch_err
       /\ i.jump_set => instr.kind = "jump" /\ ~instr.fetch_err
  BY <1>1, Wires DEF branch_set, jump_set, jump_set_raw, IInv, Begun
<1> QED BY <1>1, <1>2, <1>3, <1>4, <1>5, <1>8, <1>9, <1>10, <1>11

----------------------------------------------------------------------------
(* What a cycle does to the pipeline, state by state.                        *)

LEMMA Edge ==
  ASSUME NEW e, Running(e)
  PROVE  /\ Answers(e) /\ CtrlCycle(Input(e)) /\ IdCycle(Input(e), e) /\ IfCycle(Input(e))
         /\ Monitor(Input(e)) /\ Gate(Input(e)) /\ Outside
BY DEF Running

(* Nothing of the pipeline moves but the address of fetch, which goes to a.  *)
Emptied(a) ==
  /\ instr_valid_id_q' = FALSE /\ fetch_addr' = a
  /\ ctrl_fsm_cs \notin {"RESET", "BOOT_SET", "DBG_TAKEN_IF", "DBG_TAKEN_ID", "IRQ_TAKEN"} =>
       UNCHANGED <<instr, pc_id>>

(* The pipeline takes what fetch has, or waits for it.                       *)
Refilled ==
  \/ /\ instr_valid_id_q' = TRUE /\ pc_id' = fetch_addr /\ fetch_addr' = After(fetch_addr)
     /\ instr' \in [kind : scenario.code[fetch_addr], fetch_err : {FALSE, may_fail(fetch_addr)}]
  \/ /\ instr_valid_id_q' = FALSE /\ fetch_addr' = fetch_addr /\ UNCHANGED <<instr, pc_id>>

LEMMA Redirecting ==
  ASSUME NEW e, Running(e), pc_set(Input(e)), ~instr_valid_id_q \/ instr_valid_clear(Input(e))
  PROVE  instr_valid_id_q' = FALSE /\ fetch_addr' = redirect(Input(e))[2]
<1>1. instr_valid_id_q' = FALSE
  BY Edge DEF IfCycle
<1>2. fetch_addr' = redirect(Input(e))[2]
  BY Edge DEF IfCycle
<1> QED BY <1>1, <1>2

LEMMA Starting ==
  ASSUME IInv, NEW e \in Answer, Running(e), ctrl_fsm_cs \in {"RESET", "BOOT_SET"}
  PROVE  Emptied(Boot) /\ pc_mux(Input(e)) = "PC_BOOT"
<1>1. redirect(Input(e)) = <<"PC_BOOT", Boot>>
  BY DEF redirect
<1>2. pc_mux(Input(e)) = "PC_BOOT" /\ pc_set(Input(e)) /\ redirect(Input(e))[2] = Boot
  BY <1>1 DEF pc_mux, pc_set, None
<1>3. ~instr_valid_id_q
  BY DEF IInv, Fetched
<1> QED BY <1>1, <1>2, <1>3, Edge, Redirecting DEF Emptied

LEMMA Halting ==
  ASSUME IInv, NEW e \in Answer, Running(e), ctrl_fsm_cs \in {"DBG_TAKEN_IF", "DBG_TAKEN_ID"}
  PROVE  Emptied(DbgVector) /\ pc_mux(Input(e)) = "PC_EXC"
<1>1. redirect(Input(e)) = <<"PC_EXC", DbgVector>>
  BY DEF redirect
<1>2. pc_mux(Input(e)) = "PC_EXC" /\ pc_set(Input(e)) /\ redirect(Input(e))[2] = DbgVector
  BY <1>1 DEF pc_mux, pc_set, None
<1>3. ~instr_valid_id_q
  BY DEF IInv, Fetched
<1> QED BY <1>1, <1>2, <1>3, Edge, Redirecting DEF Emptied

LEMMA Sleeping ==
  ASSUME IInv, NEW e \in Answer, Running(e), ctrl_fsm_cs \in {"WAIT_SLEEP", "SLEEP"}
  PROVE  Emptied(fetch_addr) /\ pc_mux(Input(e)) = None
<1>1. redirect(Input(e)) = <<None, NoPC>>
  BY DEF redirect
<1>2. pc_mux(Input(e)) = None /\ ~pc_set(Input(e))
  BY <1>1 DEF pc_mux, pc_set
<1>3. ~instr_valid_id_q
  BY DEF IInv, Fetched
<1>4. ~id_in_ready(Input(e))
  BY DEF id_in_ready, halt_if
<1> QED BY <1>2, <1>3, <1>4, Edge DEF Emptied, IfCycle

(* The first instruction is let in unless the debugger or an interrupt goes  *)
(* first.                                                                     *)
LEMMA Fetching ==
  ASSUME IInv, NEW e \in Answer, Running(e), ctrl_fsm_cs = "FIRST_FETCH"
  PROVE  /\ pc_mux(Input(e)) = None
         /\ Refilled
         /\ instr_valid_id_q' => ~enter_debug_mode(Input(e)) /\ ~handle_irq(Input(e))
         /\ id_in_ready(Input(e)) <=> ~enter_debug_mode(Input(e)) /\ ~handle_irq(Input(e))
<1>1. redirect(Input(e)) = <<None, NoPC>>
  BY DEF redirect
<1>2. pc_mux(Input(e)) = None /\ ~pc_set(Input(e))
  BY <1>1 DEF pc_mux, pc_set
<1>3. ~instr_valid_id_q
  BY DEF IInv, Fetched
<1>4. ~Input(e).stall
  BY <1>3, Edge, NotDecoding, Wires DEF stall_id, stall_mem
<1>5. id_in_ready(Input(e)) <=> ~enter_debug_mode(Input(e)) /\ ~handle_irq(Input(e))
  BY <1>4 DEF id_in_ready, halt_if, retain_id
<1> QED BY <1>2, <1>3, <1>5, Edge DEF Refilled, IfCycle

LEMMA Interrupting ==
  ASSUME IInv, NEW e \in Answer, Running(e), ctrl_fsm_cs = "IRQ_TAKEN"
  PROVE  IF handle_irq(Input(e))
           THEN /\ Emptied(IF "nm" \in lines THEN NmiVector ELSE IrqVector)
                /\ pc_mux(Input(e)) = "PC_EXC"
           ELSE Refilled /\ pc_mux(Input(e)) = None
<1>1. redirect(Input(e)) = IF handle_irq(Input(e))
                             THEN <<"PC_EXC", IF "nm" \in lines THEN NmiVector ELSE IrqVector>>
                             ELSE <<None, NoPC>>
  BY Wires DEF redirect
<1>2. /\ handle_irq(Input(e)) =>
           /\ pc_mux(Input(e)) = "PC_EXC" /\ pc_set(Input(e))
           /\ redirect(Input(e))[2] = IF "nm" \in lines THEN NmiVector ELSE IrqVector
      /\ ~handle_irq(Input(e)) => pc_mux(Input(e)) = None /\ ~pc_set(Input(e))
  BY <1>1 DEF pc_mux, pc_set, None
<1>3. ~instr_valid_id_q
  BY DEF IInv, Fetched
<1>4. handle_irq(Input(e)) => Emptied(IF "nm" \in lines THEN NmiVector ELSE IrqVector)
  BY <1>1, <1>2, <1>3, Edge, Redirecting DEF Emptied
<1>5. ~handle_irq(Input(e)) => Refilled
  BY <1>1, <1>2, <1>3, Edge DEF Refilled, IfCycle
<1> QED BY <1>2, <1>4, <1>5

(* FLUSH empties ID; only the exceptions and the returns redirect fetch.     *)
LEMMA Flushing ==
  ASSUME IInv, NEW e \in Answer, Running(e), ctrl_fsm_cs = "FLUSH"
  PROVE  /\ instr_valid_id_q' = FALSE /\ UNCHANGED <<instr, pc_id>>
         /\ exception(Input(e)) /\ ~ebreak_to_debugger(Input(e)) =>
              /\ pc_mux(Input(e)) = "PC_EXC"
              /\ fetch_addr' = IF debug_mode_q THEN DbgExcVector ELSE ExcVector
         /\ ebreak_to_debugger(Input(e)) => pc_mux(Input(e)) = None /\ fetch_addr' = fetch_addr
         /\ ~exception(Input(e)) /\ instr.kind = "mret" =>
              pc_mux(Input(e)) = "PC_ERET" /\ fetch_addr' = mepc_q
         /\ ~exception(Input(e)) /\ instr.kind = "dret" =>
              pc_mux(Input(e)) = "PC_DRET" /\ fetch_addr' = depc_q
         /\ ~exception(Input(e)) /\ instr.kind \notin {"mret", "dret"} =>
              pc_mux(Input(e)) = None /\ fetch_addr' = fetch_addr
<1> DEFINE i == Input(e)
<1>1. instr_valid_id_q
  BY DEF IInv, Flushed
<1>2. ~id_in_ready(i)
  BY DEF id_in_ready, halt_if
<1>3. UNCHANGED <<instr, pc_id>>
  BY <1>2, Edge DEF IfCycle
<1>4. instr_valid_clear(i)
  <2>1. CASE ~ebreak_to_debugger(i)
    BY <2>1 DEF instr_valid_clear, flush_id
  <2>2. CASE ebreak_to_debugger(i)
    <3>1. instr.kind = "ebreak"
      BY <2>2, Wires DEF ebreak_to_debugger, exc_cause, Is
    <3>2. ~i.stall
      BY <3>1, Wires, Edge, NotDecoding DEF stall_id, stall_mem, lsu_req_dec
    <3> QED BY <3>2 DEF instr_valid_clear, retain_id
  <2> QED BY <2>1, <2>2
<1>5. instr_valid_id_q' = FALSE
  BY <1>2, <1>4, Edge DEF IfCycle
<1>6. fetch_addr' = IF pc_mux(i) = None THEN fetch_addr ELSE redirect(i)[2]
  BY <1>2, Edge DEF IfCycle, pc_set
<1>7. ASSUME exception(i), ~ebreak_to_debugger(i)
      PROVE  /\ pc_mux(i) = "PC_EXC"
             /\ redirect(i)[2] = IF debug_mode_q THEN DbgExcVector ELSE ExcVector
  BY <1>7 DEF redirect, pc_mux
<1>8. ASSUME ebreak_to_debugger(i)
      PROVE  pc_mux(i) = None
  BY <1>8 DEF redirect, pc_mux, ebreak_to_debugger
<1>9. ASSUME ~exception(i), instr.kind = "mret"
      PROVE  pc_mux(i) = "PC_ERET" /\ redirect(i)[2] = mepc_q
  BY <1>9, <1>1, Wires DEF redirect, pc_mux, Is
<1>10. ASSUME ~exception(i), instr.kind = "dret"
       PROVE  pc_mux(i) = "PC_DRET" /\ redirect(i)[2] = depc_q
  BY <1>10, <1>1, Wires DEF redirect, pc_mux, Is
<1>11. ASSUME ~exception(i), instr.kind \notin {"mret", "dret"}
       PROVE  pc_mux(i) = None
  BY <1>11, <1>1, Wires DEF redirect, pc_mux, Is
<1> HIDE DEF i
<1> QED BY <1>3, <1>5, <1>6, <1>7, <1>8, <1>9, <1>10, <1>11 DEF None, i

(* DECODE with nothing in ID.                                                *)
LEMMA Waiting ==
  ASSUME IInv, NEW e \in Answer, Running(e), ctrl_fsm_cs = "DECODE", ~instr_valid_id_q
  PROVE  /\ pc_mux(Input(e)) = None /\ Refilled
         /\ instr_valid_id_q' => ~enter_debug_mode(Input(e)) /\ ~handle_irq(Input(e))
<1>1. redirect(Input(e)) = <<None, NoPC>>
  BY Edge, Empty DEF redirect
<1>2. pc_mux(Input(e)) = None /\ ~pc_set(Input(e))
  BY <1>1 DEF pc_mux, pc_set
<1>3. id_in_ready(Input(e)) <=> ~enter_debug_mode(Input(e)) /\ ~handle_irq(Input(e))
  BY Edge, Empty, Wires DEF id_in_ready, halt_if, retain_id
<1> QED BY <1>2, <1>3, Edge DEF Refilled, IfCycle

(* The instruction in ID stays: it is handed to FLUSH, or it is not done.    *)
LEMMA Staying ==
  ASSUME IInv, NEW e \in Answer, Running(e), ctrl_fsm_cs = "DECODE", instr_valid_id_q,
         special_req(Input(e)) \/ Input(e).stall
  PROVE  /\ instr_valid_id_q' = TRUE /\ UNCHANGED <<instr, pc_id>>
         /\ pc_mux(Input(e)) \in {None, "PC_JUMP"}
         /\ special_req(Input(e)) => pc_mux(Input(e)) = None
         /\ fetch_addr' = IF Input(e).branch_set \/ Input(e).jump_set THEN Target(pc_id) ELSE fetch_addr
<1> DEFINE i == Input(e)
<1>1. ~id_in_ready(i) /\ ~instr_valid_clear(i)
  BY DEF id_in_ready, retain_id, instr_valid_clear, flush_id
<1>2. instr_valid_id_q' = TRUE /\ UNCHANGED <<instr, pc_id>>
  BY <1>1, Edge DEF IfCycle
<1>3. ASSUME i.branch_set \/ i.jump_set
      PROVE  pc_mux(i) = "PC_JUMP" /\ redirect(i)[2] = Target(pc_id)
  BY <1>3, Wires DEF redirect, pc_mux
<1>4. ASSUME ~(i.branch_set \/ i.jump_set)
      PROVE  pc_mux(i) = None
  BY <1>4 DEF redirect, pc_mux
<1>5. special_req(i) => ~(i.branch_set \/ i.jump_set)
  BY Edge, Decoding
<1>6. fetch_addr' = IF pc_mux(i) = None THEN fetch_addr ELSE redirect(i)[2]
  BY <1>1, Edge DEF IfCycle, pc_set
<1> HIDE DEF i
<1> QED BY <1>2, <1>3, <1>4, <1>5, <1>6 DEF None, i

(* It is done, and the next one may follow at once.                          *)
LEMMA Done ==
  ASSUME IInv, NEW e \in Answer, Running(e), ctrl_fsm_cs = "DECODE", instr_valid_id_q,
         ~special_req(Input(e)), ~Input(e).stall
  PROVE  /\ pc_mux(Input(e)) \in {None, "PC_JUMP"}
         /\ IF Input(e).branch_set \/ Input(e).jump_set
              THEN instr_valid_id_q' = FALSE /\ fetch_addr' = Target(pc_id)
              ELSE Refilled
         /\ instr_valid_id_q' => ~enter_debug_mode(Input(e)) /\ ~handle_irq(Input(e))
<1> DEFINE i == Input(e)
<1>1. instr_valid_clear(i) /\ (id_in_ready(i) <=> ~enter_debug_mode(i) /\ ~handle_irq(i))
  BY Wires DEF id_in_ready, retain_id, instr_valid_clear, halt_if
<1>2. ASSUME i.branch_set \/ i.jump_set
      PROVE  pc_mux(i) = "PC_JUMP" /\ redirect(i)[2] = Target(pc_id) /\ pc_set(i)
  BY <1>2, Wires DEF redirect, pc_mux, pc_set, None
<1>3. ASSUME ~(i.branch_set \/ i.jump_set)
      PROVE  pc_mux(i) = None /\ ~pc_set(i)
  BY <1>3 DEF redirect, pc_mux, pc_set
<1>4. i.branch_set \/ i.jump_set => instr_valid_id_q' = FALSE /\ fetch_addr' = Target(pc_id)
  BY <1>1, <1>2, Redirecting
<1>5. ~(i.branch_set \/ i.jump_set) =>
        Refilled /\ (instr_valid_id_q' => ~enter_debug_mode(i) /\ ~handle_irq(i))
  BY <1>1, <1>3, Edge DEF IfCycle, Refilled
<1> HIDE DEF i
<1> QED BY <1>2, <1>3, <1>4, <1>5 DEF i

----------------------------------------------------------------------------
(* What a cycle does to the controller.                                      *)

LEMMA Moves ==
  ASSUME NEW e, Running(e)
  PROVE  /\ ctrl_fsm_cs = "RESET" => Reset(Input(e))
         /\ ctrl_fsm_cs = "BOOT_SET" => BootSet
         /\ ctrl_fsm_cs = "WAIT_SLEEP" => WaitSleep
         /\ ctrl_fsm_cs = "SLEEP" => Sleep(Input(e))
         /\ ctrl_fsm_cs = "FIRST_FETCH" => FirstFetch(Input(e))
         /\ ctrl_fsm_cs = "DECODE" => Decode(Input(e))
         /\ ctrl_fsm_cs = "IRQ_TAKEN" => IrqTaken(Input(e))
         /\ ctrl_fsm_cs = "DBG_TAKEN_IF" => DbgTakenIf(Input(e))
         /\ ctrl_fsm_cs = "DBG_TAKEN_ID" => DbgTakenId(Input(e))
         /\ ctrl_fsm_cs = "FLUSH" =>
              \/ FlushException(Input(e)) \/ FlushEbreak(Input(e)) \/ FlushMret(Input(e))
              \/ FlushDret(Input(e)) \/ FlushOnly(Input(e))
<1>1. CtrlStep(Input(e))
  BY Edge DEF CtrlCycle
<1> QED
  BY <1>1 DEF CtrlStep, Reset, BootSet, WaitSleep, Sleep, FirstFetch, Decode, IrqTaken,
     DbgTakenIf, DbgTakenId, FlushException, FlushEbreak, FlushMret, FlushDret, FlushOnly

(* The registers of the debugger move where it acts, and for its             *)
(* instructions.                                                              *)
LEMMA Modes ==
  ASSUME IInv, NEW e \in Answer, Running(e)
  PROVE  /\ ctrl_fsm_cs \notin {"DBG_TAKEN_IF", "DBG_TAKEN_ID", "FLUSH"} => debug_mode_q' = debug_mode_q
         /\ ctrl_fsm_cs = "FLUSH" /\ ~debug_mode_q => debug_mode_q' = FALSE
         /\ ctrl_fsm_cs \in {"DBG_TAKEN_IF", "DBG_TAKEN_ID"} => debug_mode_q' = TRUE
         /\ ctrl_fsm_cs \notin {"DECODE", "DBG_TAKEN_IF", "DBG_TAKEN_ID"} =>
              dcsr_q' = dcsr_q /\ depc_q' = depc_q /\ tmatch_q' = tmatch_q
         /\ tmatch_q' = tmatch_q \/ debug_mode_q
         /\ (ctrl_fsm_cs = "DECODE" /\ ~debug_mode_q) => dcsr_q' = dcsr_q
         /\ ctrl_fsm_cs = "DECODE" =>
              UNCHANGED <<mepc_q, mcause_q, mstack_q, priv_lvl_q, depc_q, nmi_mode_q>>
<1>1. CASE ctrl_fsm_cs \in {"RESET", "BOOT_SET", "WAIT_SLEEP", "SLEEP", "FIRST_FETCH"}
  BY <1>1, Moves DEF Reset, BootSet, WaitSleep, Sleep, FirstFetch, KeepModes, CsrKeep, csrVars
<1>2. CASE ctrl_fsm_cs = "DECODE"
  <2>1. Decode(Input(e))
    BY <1>2, Moves
  <2>2. debug_mode_q' = debug_mode_q /\ nmi_mode_q' = nmi_mode_q
    BY <2>1 DEF Decode, KeepModes
  <2>3. CASE ~Input(e).csr_we
    BY <1>2, <2>1, <2>2, <2>3 DEF Decode, CsrKeep, csrVars
  <2>4. CASE Input(e).csr_we
    <3>1. instr_valid_id_q
      BY <1>2, <2>4, Empty, Edge
    <3>2. instr.kind \in CsrAccess /\ ~hart!Illegal(instr.kind)
      BY <1>2, <2>4, <3>1, Decoding, Edge DEF Raises
    <3>3. instr.kind \in DebugCsr => debug_mode_q
      BY <3>2, IllegalKinds DEF DebugCsr
    <3>4. WriteCsr(instr.kind, debug_mode_q, Input(e).breakpoint)
      BY <2>1, <2>4, Wires DEF Decode
    <3> QED BY <1>2, <2>2, <3>3, <3>4 DEF WriteCsr, DebugCsr
  <2> QED BY <2>3, <2>4
<1>3. CASE ctrl_fsm_cs = "IRQ_TAKEN"
  BY <1>3, Moves DEF IrqTaken, SaveTrap, CsrKeep, csrVars, debugVars
<1>4. CASE ctrl_fsm_cs = "DBG_TAKEN_IF"
  BY <1>4, Moves DEF DbgTakenIf, SaveDebug
<1>5. CASE ctrl_fsm_cs = "DBG_TAKEN_ID"
  BY <1>5, Moves DEF DbgTakenId, SaveDebug, CsrKeep, csrVars
<1>6. CASE ctrl_fsm_cs = "FLUSH"
  <2>1. CASE FlushException(Input(e))
    BY <1>6, <2>1, Types DEF FlushException, KeepModes, SaveInDebugMode, SaveTrap, debugVars, IInv
  <2>2. CASE FlushEbreak(Input(e))
    BY <1>6, <2>2, Types DEF FlushEbreak, KeepModes, CsrKeep, csrVars, IInv
  <2>3. CASE FlushMret(Input(e))
    BY <1>6, <2>3, Types DEF FlushMret, RestoreMret, debugVars, IInv
  <2>4. CASE FlushDret(Input(e))
    BY <1>6, <2>4 DEF FlushDret, RestoreDret, debugVars
  <2>5. CASE FlushOnly(Input(e))
    BY <1>6, <2>5, Types DEF FlushOnly, KeepModes, CsrKeep, csrVars, IInv
  <2> QED BY <1>6, <2>1, <2>2, <2>3, <2>4, <2>5, Moves
<1> QED BY <1>1, <1>2, <1>3, <1>4, <1>5, <1>6, Types DEF IInv, CtrlState

(* The flops between DECODE and FLUSH.                                       *)
LEMMA Flops ==
  ASSUME IInv, NEW e \in Answer, Running(e)
  PROVE  /\ do_single_step_q' = do_single_step_d(Input(e))
         /\ enter_debug_mode_prio_q' = enter_debug_mode_prio_d(Input(e))
         /\ exc_req_q' = exc_req_d(Input(e)) /\ illegal_insn_q' = illegal_insn_d(Input(e))
         /\ load_err_q' = Input(e).load_err /\ store_err_q' = Input(e).store_err
         /\ do_single_step_d(Input(e)) <=> IF instr_valid_id_q THEN ~debug_mode_q /\ dcsr_q.step
                                                               ELSE do_single_step_q
         /\ enter_debug_mode_prio_d(Input(e)) <=>
              (debug_req \/ do_single_step_d(Input(e))) /\ ~debug_mode_q
         /\ enter_debug_mode(Input(e)) <=>
              (debug_req \/ do_single_step_d(Input(e)) \/ fetch_addr = tmatch_q) /\ ~debug_mode_q
         /\ handle_irq(Input(e)) <=>
              /\ ~debug_mode_q /\ ~nmi_mode_q
              /\ "nm" \in lines \/ (lines \ {"nm"} # {} /\ mstatus_q.mie)
<1>1. CtrlCycle(Input(e))
  BY Edge
<1>2. /\ do_single_step_d(Input(e)) <=> IF instr_valid_id_q THEN ~debug_mode_q /\ dcsr_q.step
                                                            ELSE do_single_step_q
      /\ enter_debug_mode_prio_d(Input(e)) <=>
           (debug_req \/ do_single_step_d(Input(e))) /\ ~debug_mode_q
  BY Wires DEF do_single_step_d, enter_debug_mode_prio_d
<1>3. enter_debug_mode(Input(e)) <=>
        (debug_req \/ do_single_step_d(Input(e)) \/ fetch_addr = tmatch_q) /\ ~debug_mode_q
  BY <1>2, Wires DEF enter_debug_mode, trigger_match
<1>4. handle_irq(Input(e)) <=>
        /\ ~debug_mode_q /\ ~nmi_mode_q
        /\ "nm" \in lines \/ (lines \ {"nm"} # {} /\ mstatus_q.mie)
  BY Wires DEF handle_irq, irq_pending
<1> QED BY <1>1, <1>2, <1>3, <1>4 DEF CtrlCycle

----------------------------------------------------------------------------
(* Types.                                                                    *)

LEMMA Scenario ==
  ASSUME InvType
  PROVE  /\ scenario.trigger \in PC
         /\ \A p \in PC : scenario.code[p] \subseteq Kind
         /\ scenario.lines \subseteq Line
BY ScenariosAssumption DEF InvType, ScenarioType

LEMMA Places ==
  /\ {Boot, ExcVector, IrqVector, NmiVector, DbgVector, DbgExcVector, Zero} \subseteq PC
  /\ \A p \in PC : After(p) \in PC /\ Target(p) \in PC
  /\ \A p \in PC : Region(After(p)) = Region(p) /\ Region(Target(p)) = Region(p)
  /\ NoPC \notin PC
<1> DEFINE Regions == {"main", "exc", "irq", "nmi", "dbg", "dbgexc", "zero"}
<1>1. PC = {<<r, k>> : r \in Regions, k \in 0 .. 1}
  BY DEF PC, Size
<1>2. \A r \in Regions : Size[r] \in {1, 2}
  BY DEF Size
<1>3. {Boot, ExcVector, IrqVector, NmiVector, DbgVector, DbgExcVector, Zero} \subseteq PC
  BY <1>1 DEF Boot, ExcVector, IrqVector, NmiVector, DbgVector, DbgExcVector, Zero
<1>4. ASSUME NEW p \in PC
      PROVE  /\ After(p) \in PC /\ Target(p) \in PC
             /\ Region(After(p)) = Region(p) /\ Region(Target(p)) = Region(p)
  <2>1. PICK r \in Regions, k \in 0 .. 1 : p = <<r, k>>
    BY <1>1
  <2>2. After(p) = <<r, (k + 1) % Size[r]>> /\ Target(p) = <<r, 0>>
    BY <2>1 DEF After, Target
  <2>3. (k + 1) % 1 = 0 /\ (k + 1) % 2 \in 0 .. 1
    BY <2>1
  <2>4. (k + 1) % Size[r] \in 0 .. 1
    BY <1>2, <2>1, <2>3
  <2> HIDE DEF Regions
  <2> QED BY <1>1, <2>1, <2>2, <2>4 DEF Region
<1>5. NoPC \notin PC
  BY <1>1 DEF NoPC, None
<1> QED BY <1>3, <1>4, <1>5

LEMMA Causes ==
  /\ \A e : exc_cause(Input(e)) \in ExcCause
  /\ \A l : Foremost(l) \in Line
BY DEF exc_cause, ExcCause, Foremost, Line

(* The registers of TrapCsrs, one at a time.                                 *)
Status == [mie : BOOLEAN, mpie : BOOLEAN, mpp : Priv]
Cause == ExcCause \cup Line \cup {None}
Stack == [mpie : BOOLEAN, mpp : Priv, epc : PC, cause : Cause]
Dcsr == [step : BOOLEAN, ebreakm : BOOLEAN, prv : Priv, cause : DbgCause]

LEMMA CsrTypes ==
  CsrTypeOK <=> /\ mstatus_q \in Status /\ mepc_q \in PC /\ mcause_q \in Cause
                /\ mstack_q \in Stack /\ priv_lvl_q \in Priv /\ dcsr_q \in Dcsr
                /\ depc_q \in PC /\ tmatch_q \in PC \cup {NoPC}
BY DEF CsrTypeOK, Status, Cause, Stack, Dcsr

LEMMA SaveTrapTypes ==
  ASSUME CsrTypeOK, NEW p \in PC, NEW c \in ExcCause \cup Line, SaveTrap(p, c)
  PROVE  CsrTypeOK'
<1>1. mstatus_q' \in Status /\ priv_lvl_q' \in Priv
  BY CsrTypes DEF SaveTrap, Status, Priv
<1>2. mepc_q' \in PC /\ mcause_q' \in Cause
  BY DEF SaveTrap, Cause
<1>3. mstack_q' \in Stack
  <2>1. mstatus_q.mpie \in BOOLEAN /\ mstatus_q.mpp \in Priv /\ mepc_q \in PC /\ mcause_q \in Cause
    BY CsrTypes DEF Status
  <2> QED BY <2>1 DEF SaveTrap, Stack
<1>4. dcsr_q' \in Dcsr /\ depc_q' \in PC /\ tmatch_q' \in PC \cup {NoPC}
  BY CsrTypes DEF SaveTrap, debugVars
<1> QED BY <1>1, <1>2, <1>3, <1>4 DEF CsrTypeOK, Status, Cause, Stack, Dcsr

LEMMA SaveDebugTypes ==
  ASSUME CsrTypeOK, NEW p \in PC, NEW c \in DbgCause, SaveDebug(p, c)
  PROVE  CsrTypeOK'
<1>1. dcsr_q' \in Dcsr
  <2>1. dcsr_q \in Dcsr /\ priv_lvl_q \in Priv
    BY CsrTypes
  <2> QED BY <2>1 DEF SaveDebug, Dcsr
<1>2. priv_lvl_q' \in Priv /\ depc_q' \in PC
  BY DEF SaveDebug, Priv
<1>3. /\ mstatus_q' \in Status /\ mepc_q' \in PC /\ mcause_q' \in Cause
      /\ mstack_q' \in Stack /\ tmatch_q' \in PC \cup {NoPC}
  BY CsrTypes DEF SaveDebug, trapVars
<1> QED BY <1>1, <1>2, <1>3 DEF CsrTypeOK, Status, Cause, Stack, Dcsr

LEMMA WriteCsrTypes ==
  ASSUME CsrTypeOK, NEW kind, NEW debug, NEW p \in PC, WriteCsr(kind, debug, p)
  PROVE  CsrTypeOK'
<1>1. mstatus_q' \in Status
  <2>1. mstatus_q \in Status
    BY CsrTypes
  <2>2. (kind = "set_mie") \in BOOLEAN
    OBVIOUS
  <2> QED BY <2>1, <2>2 DEF WriteCsr, Status
<1>2. dcsr_q' \in Dcsr
  <2>1. dcsr_q \in Dcsr
    BY CsrTypes
  <2>2. (kind = "set_step") \in BOOLEAN
    OBVIOUS
  <2> QED BY <2>1, <2>2 DEF WriteCsr, Dcsr
<1>3. /\ mepc_q' \in PC /\ mcause_q' \in Cause /\ mstack_q' \in Stack /\ priv_lvl_q' \in Priv
      /\ depc_q' \in PC /\ tmatch_q' \in PC \cup {NoPC}
  BY CsrTypes DEF WriteCsr
<1> QED BY <1>1, <1>2, <1>3 DEF CsrTypeOK, Status, Cause, Stack, Dcsr

LEMMA KeepTypes ==
  ASSUME CsrTypeOK, CsrKeep
  PROVE  CsrTypeOK'
BY DEF CsrKeep, csrVars, CsrTypeOK

LEMMA ReturnTypes ==
  ASSUME CsrTypeOK, NEW nmi, RestoreMret(nmi) \/ RestoreDret \/ SaveInDebugMode
  PROVE  CsrTypeOK'
<1>1. CASE RestoreMret(nmi)
  <2>1. /\ mstatus_q.mpie \in BOOLEAN /\ mstatus_q.mpp \in Priv
        /\ mstack_q.mpie \in BOOLEAN /\ mstack_q.mpp \in Priv
        /\ mstack_q.epc \in PC /\ mstack_q.cause \in Cause
    BY CsrTypes DEF Status, Stack
  <2>2. mstatus_q' \in Status
    <3>1. CASE nmi
      <4>1. mstatus_q' = [mie |-> mstatus_q.mpie, mpie |-> mstack_q.mpie, mpp |-> mstack_q.mpp]
        BY <1>1, <3>1 DEF RestoreMret
      <4> QED BY <2>1, <4>1 DEF Status
    <3>2. CASE ~nmi
      <4>1. mstatus_q' = [mie |-> mstatus_q.mpie, mpie |-> TRUE, mpp |-> "U"]
        BY <1>1, <3>2 DEF RestoreMret
      <4> QED BY <2>1, <4>1 DEF Status, Priv
    <3> QED BY <3>1, <3>2
  <2>3. mepc_q' \in PC /\ mcause_q' \in Cause /\ priv_lvl_q' \in Priv
    BY <1>1, <2>1, CsrTypes DEF RestoreMret
  <2>4. mstack_q' \in Stack /\ dcsr_q' \in Dcsr /\ depc_q' \in PC /\ tmatch_q' \in PC \cup {NoPC}
    BY <1>1, CsrTypes DEF RestoreMret, debugVars
  <2> QED BY <2>2, <2>3, <2>4 DEF CsrTypeOK, Status, Cause, Stack, Dcsr
<1>2. CASE RestoreDret
  <2>1. dcsr_q.prv \in Priv
    BY CsrTypes DEF Dcsr
  <2> QED BY <1>2, <2>1 DEF RestoreDret, debugVars, trapVars, CsrTypeOK
<1>3. CASE SaveInDebugMode
  BY <1>3 DEF SaveInDebugMode, debugVars, trapVars, Priv, CsrTypeOK
<1> QED BY <1>1, <1>2, <1>3

LEMMA StepCsrTypes ==
  ASSUME IInv, NEW e \in Answer, Running(e)
  PROVE  CsrTypeOK'
<1>1. CsrTypeOK /\ fetch_addr \in PC /\ pc_id \in PC /\ scenario.trigger \in PC
  BY Types, Scenario DEF IInv, InvType, TypeOK
<1>2. CASE ctrl_fsm_cs \in {"RESET", "BOOT_SET", "WAIT_SLEEP", "SLEEP", "FIRST_FETCH"}
  BY <1>1, <1>2, Moves, KeepTypes DEF Reset, BootSet, WaitSleep, Sleep, FirstFetch
<1>3. CASE ctrl_fsm_cs = "DECODE"
  BY <1>1, <1>3, Moves, Wires, KeepTypes, WriteCsrTypes DEF Decode
<1>4. CASE ctrl_fsm_cs = "IRQ_TAKEN"
  BY <1>1, <1>4, Moves, Wires, Causes, KeepTypes, SaveTrapTypes DEF IrqTaken
<1>5. CASE ctrl_fsm_cs = "DBG_TAKEN_IF"
  <2>1. PICK c \in DbgCause : SaveDebug(fetch_addr, c)
    BY <1>5, Moves, Wires DEF DbgTakenIf, DbgCause
  <2> QED BY <1>1, <2>1, SaveDebugTypes
<1>6. CASE ctrl_fsm_cs = "DBG_TAKEN_ID"
  <2>1. "ebreak" \in DbgCause
    BY DEF DbgCause
  <2> QED BY <1>1, <1>6, <2>1, Moves, Wires, KeepTypes, SaveDebugTypes DEF DbgTakenId
<1>7. CASE ctrl_fsm_cs = "FLUSH"
  <2>1. CASE FlushException(Input(e))
    BY <1>1, <2>1, Wires, Causes, SaveTrapTypes, ReturnTypes DEF FlushException
  <2>2. CASE FlushEbreak(Input(e)) \/ FlushOnly(Input(e))
    BY <1>1, <2>2, KeepTypes DEF FlushEbreak, FlushOnly
  <2>3. CASE FlushMret(Input(e)) \/ FlushDret(Input(e))
    BY <1>1, <2>3, ReturnTypes DEF FlushMret, FlushDret
  <2> QED BY <1>7, <2>1, <2>2, <2>3, Moves
<1> QED BY <1>2, <1>3, <1>4, <1>5, <1>6, <1>7, Types DEF CtrlState, IInv

(* What the tracking logic keeps, field by field.                            *)
LEMMA Tracking ==
  ASSUME NEW e, Running(e)
  PROVE  LET i == Input(e)
             goes_on == ~(monitor.pending /\ ctrl_fsm_cs # "DECODE" /\ ctrl_fsm_cs' = "DECODE")
         IN  /\ monitor' \in [pending : BOOLEAN, expect : BOOLEAN, seen : BOOLEAN,
                              twice : BOOLEAN, unasked : BOOLEAN]
             /\ monitor'.pending <=> (monitor.pending \/ exception_req(i)) /\ goes_on
             /\ monitor'.expect <=> (monitor.expect \/ exception_req_needs_pc_set(i)) /\ goes_on
             /\ monitor'.seen <=> (monitor.seen \/ exception_pc_set(i)) /\ goes_on
             /\ monitor'.twice <=> monitor.seen /\ ~to_debugger /\ pc_set(i)
             /\ monitor'.unasked <=> monitor.pending /\ ~monitor.expect /\ pc_set(i)
<1> DEFINE i == Input(e)
           goes_on == ~(monitor.pending /\ ctrl_fsm_cs # "DECODE" /\ ctrl_fsm_cs' = "DECODE")
           p == (monitor.pending \/ exception_req(i)) /\ goes_on
           x == (monitor.expect \/ exception_req_needs_pc_set(i)) /\ goes_on
           s == (monitor.seen \/ exception_pc_set(i)) /\ goes_on
           t == monitor.seen /\ ~to_debugger /\ pc_set(i)
           u == monitor.pending /\ ~monitor.expect /\ pc_set(i)
<1>1. monitor' = [pending |-> p, expect |-> x, seen |-> s, twice |-> t, unasked |-> u]
  BY Edge DEF Monitor
<1>2. p \in BOOLEAN /\ x \in BOOLEAN /\ s \in BOOLEAN /\ t \in BOOLEAN /\ u \in BOOLEAN
  OBVIOUS
<1> SUFFICES /\ monitor' \in [pending : BOOLEAN, expect : BOOLEAN, seen : BOOLEAN,
                              twice : BOOLEAN, unasked : BOOLEAN]
             /\ monitor'.pending <=> p
             /\ monitor'.expect <=> x
             /\ monitor'.seen <=> s
             /\ monitor'.twice <=> t
             /\ monitor'.unasked <=> u
  OBVIOUS
<1> HIDE DEF p, x, s, t, u
<1> QED BY <1>1, <1>2

LEMMA StepTypes ==
  ASSUME IInv, NEW e \in Answer, Running(e)
  PROVE  InvType'
<1> DEFINE i == Input(e)
<1>1. CtrlTypeOK'
  <2>1. ctrl_fsm_cs' \in CtrlState
    <3>1. CASE ctrl_fsm_cs \in {"RESET", "BOOT_SET", "WAIT_SLEEP", "SLEEP", "FIRST_FETCH"}
      BY <3>1, Moves DEF Reset, BootSet, WaitSleep, Sleep, FirstFetch, CtrlState
    <3>2. CASE ctrl_fsm_cs \in {"DECODE", "IRQ_TAKEN", "DBG_TAKEN_IF", "DBG_TAKEN_ID"}
      BY <3>2, Moves DEF Decode, IrqTaken, DbgTakenIf, DbgTakenId, CtrlState
    <3>3. CASE ctrl_fsm_cs = "FLUSH"
      BY <3>3, Moves DEF FlushException, FlushEbreak, FlushMret, FlushDret, FlushOnly, AfterFlush, CtrlState
    <3> QED BY <3>1, <3>2, <3>3, Types DEF IInv, CtrlState
  <2>2. nmi_mode_q' \in BOOLEAN /\ debug_mode_q' \in BOOLEAN
    <3>1. CASE ctrl_fsm_cs \in {"RESET", "BOOT_SET", "WAIT_SLEEP", "SLEEP", "FIRST_FETCH", "DECODE"}
      BY <3>1, Moves, Types DEF Reset, BootSet, WaitSleep, Sleep, FirstFetch, Decode, KeepModes, IInv
    <3>2. CASE ctrl_fsm_cs \in {"IRQ_TAKEN", "DBG_TAKEN_IF", "DBG_TAKEN_ID"}
      BY <3>2, Moves, Types DEF IrqTaken, DbgTakenIf, DbgTakenId, IInv
    <3>3. CASE ctrl_fsm_cs = "FLUSH"
      BY <3>3, Moves, Types DEF FlushException, FlushEbreak, FlushMret, FlushDret, FlushOnly, KeepModes, IInv
    <3> QED BY <3>1, <3>2, <3>3, Types DEF IInv, CtrlState
  <2>3. /\ do_single_step_q' \in BOOLEAN /\ enter_debug_mode_prio_q' \in BOOLEAN
        /\ load_err_q' \in BOOLEAN /\ store_err_q' \in BOOLEAN
    BY Flops, Wires, Types DEF do_single_step_d, enter_debug_mode_prio_d, IInv
  <2>4. illegal_insn_q' \in BOOLEAN /\ exc_req_q' \in BOOLEAN
    BY Flops DEF illegal_insn_d, exc_req_d
  <2> QED BY <2>1, <2>2, <2>3, <2>4 DEF CtrlTypeOK
<1>2. CsrTypeOK'
  BY StepCsrTypes
<1>3. lines' \subseteq Line /\ debug_req' \in BOOLEAN /\ scenario' = scenario
  BY Edge, Scenario DEF Outside, IInv
<1>4. fetch_enable_q' \in BOOLEAN /\ core_busy_q' \in BOOLEAN
  BY Edge, Types DEF Gate, ctrl_busy, IInv
<1>5. fetch_valid' \in BOOLEAN /\ instr_valid_id_q' \in BOOLEAN
  BY Edge DEF IfCycle
<1>6. branch_set_raw_q' \in BOOLEAN /\ branch_jump_set_done_q' \in BOOLEAN
  BY Edge DEF IdCycle, branch_set_raw_d
<1>7. fetch_addr' \in PC /\ pc_id' \in PC
  <2>1. pc_id' \in PC
    BY Edge, Types DEF IfCycle, IInv
  <2>2. ASSUME pc_set(i) PROVE redirect(i)[2] \in PC
    <3>1. mepc_q \in PC /\ depc_q \in PC /\ pc_id \in PC
      BY DEF IInv, InvType, TypeOK, CsrTypeOK
    <3> DEFINE places == PC
    <3>2. redirect(i) \in {<<"PC_BOOT", Boot>>, <<"PC_JUMP", Target(pc_id)>>,
             <<"PC_EXC", NmiVector>>, <<"PC_EXC", IrqVector>>, <<"PC_EXC", DbgVector>>,
             <<"PC_EXC", DbgExcVector>>, <<"PC_EXC", ExcVector>>, <<"PC_ERET", mepc_q>>,
             <<"PC_DRET", depc_q>>, <<None, NoPC>>}
      BY Wires DEF redirect
    <3>3. redirect(i) # <<None, NoPC>>
      BY <2>2 DEF pc_set, pc_mux
    <3>4. Target(pc_id) \in PC
      BY <3>1, Places
    <3> QED BY <3>1, <3>2, <3>3, <3>4, Places
  <2>3. fetch_addr' \in PC
    BY <2>2, Edge, Types, Places DEF IfCycle, IInv
  <2> QED BY <2>1, <2>3
<1>8. instr' \in [kind : Kind, fetch_err : BOOLEAN]
  <2>1. may_fail(fetch_addr) \in BOOLEAN
    <3>1. scenario.faults \in BOOLEAN
      BY ScenariosAssumption DEF IInv, InvType, ScenarioType
    <3> QED BY <3>1 DEF may_fail
  <2>2. scenario.code[fetch_addr] \subseteq Kind
    BY Scenario, Types DEF IInv
  <2>3. instr \in [kind : Kind, fetch_err : BOOLEAN]
    BY DEF IInv, InvType, TypeOK
  <2> QED BY <2>1, <2>2, <2>3, Edge DEF IfCycle
<1>9. id_fsm_q' \in {"FIRST_CYCLE", "MULTI_CYCLE"}
  <2>1. id_fsm_q \in {"FIRST_CYCLE", "MULTI_CYCLE"}
    BY DEF IInv, InvType, TypeOK
  <2> QED BY <2>1, Edge DEF IdCycle, id_fsm_d
<1>10. lsu_waits' \in {None, "load", "store"}
  BY Edge, Types DEF IdCycle, lsu_req, lsu_req_dec, IInv
<1>11. monitor' \in [pending : BOOLEAN, expect : BOOLEAN, seen : BOOLEAN, twice : BOOLEAN, unasked : BOOLEAN]
  BY Tracking
<1> QED BY <1>1, <1>2, <1>3, <1>4, <1>5, <1>6, <1>7, <1>8, <1>9, <1>10, <1>11 DEF InvType, TypeOK, IInv

----------------------------------------------------------------------------
(* The parts of the invariant, one after the other.                          *)

LEMMA NewInstruction ==
  ASSUME NEW e, Running(e), Refilled, instr_valid_id_q'
  PROVE  /\ pc_id' = fetch_addr /\ instr'.kind \in scenario'.code[pc_id']
         /\ instr'.fetch_err => may_fail(pc_id)'
<1>1. scenario' = scenario
  BY Edge DEF Outside
<1>2. /\ pc_id' = fetch_addr
      /\ instr' \in [kind : scenario.code[fetch_addr], fetch_err : {FALSE, may_fail(fetch_addr)}]
  BY DEF Refilled
<1>3. instr'.fetch_err => may_fail(fetch_addr)
  BY <1>2
<1> QED BY <1>1, <1>2, <1>3 DEF may_fail

LEMMA OldInstruction ==
  ASSUME NEW e, Running(e), UNCHANGED <<instr, pc_id>>
  PROVE  may_fail(pc_id)' = may_fail(pc_id) /\ scenario' = scenario
BY Edge DEF Outside, may_fail

LEMMA StepFetched ==
  ASSUME IInv, NEW e \in Answer, Running(e)
  PROVE  Fetched'
<1> DEFINE i == Input(e)
<1> SUFFICES ASSUME instr_valid_id_q'
             PROVE  /\ ctrl_fsm_cs' \in {"DECODE", "FLUSH"}
                    /\ instr'.kind \in scenario'.code[pc_id']
                    /\ instr'.fetch_err => may_fail(pc_id)'
                    /\ ~debug_mode_q' => pc_id' # tmatch_q'
  BY DEF Fetched
<1>1. ASSUME Refilled, ctrl_fsm_cs' = "DECODE", debug_mode_q' = debug_mode_q,
             ~debug_mode_q => fetch_addr # tmatch_q
      PROVE  /\ ctrl_fsm_cs' \in {"DECODE", "FLUSH"}
             /\ instr'.kind \in scenario'.code[pc_id']
             /\ instr'.fetch_err => may_fail(pc_id)'
             /\ ~debug_mode_q' => pc_id' # tmatch_q'
  BY <1>1, NewInstruction, Modes
<1>2. ctrl_fsm_cs \notin {"RESET", "BOOT_SET", "DBG_TAKEN_IF", "DBG_TAKEN_ID", "WAIT_SLEEP", "SLEEP", "FLUSH"}
  BY Starting, Halting, Sleeping, Flushing DEF Emptied
<1>3. CASE ctrl_fsm_cs = "FIRST_FETCH"
  <2>1. Refilled /\ ~enter_debug_mode(i) /\ ~handle_irq(i) /\ id_in_ready(i)
    BY <1>3, Fetching
  <2>2. ctrl_fsm_cs' = "DECODE" /\ debug_mode_q' = debug_mode_q
    BY <1>3, <2>1, Moves, Modes DEF FirstFetch
  <2>3. ~debug_mode_q => fetch_addr # tmatch_q
    BY <2>1, Flops
  <2> QED BY <1>1, <2>1, <2>2, <2>3
<1>4. CASE ctrl_fsm_cs = "IRQ_TAKEN"
  <2>1. Refilled
    BY <1>4, Interrupting DEF Emptied
  <2>2. ctrl_fsm_cs' = "DECODE" /\ debug_mode_q' = debug_mode_q
    BY <1>4, Moves, Modes DEF IrqTaken
  <2> QED BY <1>1, <1>4, <2>1, <2>2 DEF IInv, Leaving
<1>5. CASE ctrl_fsm_cs = "DECODE" /\ ~instr_valid_id_q
  <2>1. Refilled /\ ~enter_debug_mode(i) /\ ~handle_irq(i)
    BY <1>5, Waiting
  <2>2. ctrl_fsm_cs' = "DECODE" /\ debug_mode_q' = debug_mode_q
    BY <1>5, <2>1, Moves, Modes, Empty, Edge DEF Decode
  <2>3. ~debug_mode_q => fetch_addr # tmatch_q
    BY <2>1, Flops
  <2> QED BY <1>1, <2>1, <2>2, <2>3
<1>6. CASE ctrl_fsm_cs = "DECODE" /\ instr_valid_id_q /\ (special_req(i) \/ i.stall)
  <2>1. UNCHANGED <<instr, pc_id>>
    BY <1>6, Staying
  <2>2. ctrl_fsm_cs' \in {"DECODE", "FLUSH"} /\ debug_mode_q' = debug_mode_q
    BY <1>6, Moves, Modes DEF Decode
  <2> QED BY <1>6, <2>1, <2>2, Modes, OldInstruction DEF IInv, Fetched
<1>7. CASE ctrl_fsm_cs = "DECODE" /\ instr_valid_id_q /\ ~special_req(i) /\ ~i.stall
  <2>1. Refilled /\ ~enter_debug_mode(i)
    BY <1>7, Done
  <2>2. ctrl_fsm_cs' = "DECODE" /\ debug_mode_q' = debug_mode_q
    BY <1>7, Moves, Modes, Wires DEF Decode
  <2>3. ~debug_mode_q => fetch_addr # tmatch_q
    BY <2>1, Flops
  <2> QED BY <1>1, <2>1, <2>2, <2>3
<1> QED BY <1>2, <1>3, <1>4, <1>5, <1>6, <1>7, Types DEF IInv, CtrlState

LEMMA StepBegun ==
  ASSUME IInv, NEW e \in Answer, Running(e)
  PROVE  Begun'
<1> DEFINE i == Input(e)
<1>1. CASE ctrl_fsm_cs # "DECODE"
  <2>1. lsu_waits' = None /\ branch_set_raw_q' = FALSE
    BY <1>1, Edge, NotDecoding DEF IdCycle
  <2> QED BY <2>1 DEF Begun
<1>2. CASE ctrl_fsm_cs = "DECODE" /\ ~instr_valid_id_q
  <2>1. lsu_waits' = None /\ branch_set_raw_q' = FALSE
    BY <1>2, Edge, Empty DEF IdCycle
  <2> QED BY <2>1 DEF Begun
<1>3. CASE ctrl_fsm_cs = "DECODE" /\ instr_valid_id_q
  <2>1. IdCycle(i, e)
    BY Edge
  <2>2. ASSUME lsu_waits' # None
        PROVE  /\ instr.kind \in {"load", "store"} /\ lsu_waits' = instr.kind /\ ~instr.fetch_err
               /\ e.resp = None /\ id_fsm_q' = "MULTI_CYCLE" /\ i.stall
    <3>1. CASE lsu_req
      <4>1. instr_executing /\ id_fsm_q = "FIRST_CYCLE" /\ lsu_req_dec /\ lsu_waits' = instr.kind
        BY <2>1, <3>1 DEF IdCycle, lsu_req, instr_first_cycle
      <4>2. id_fsm_q' = "MULTI_CYCLE"
        BY <2>1, <4>1 DEF IdCycle, id_fsm_d, multi_cycle_next
      <4>3. lsu_waits = None
        BY <4>1 DEF IInv, Begun
      <4> QED BY <1>3, <4>1, <4>2, <4>3, Edge, Wires
              DEF Answers, stall_id, stall_mem, instr_first_cycle, instr_executing, lsu_req_dec
    <3>2. CASE ~lsu_req
      <4>1. lsu_waits' = lsu_waits /\ e.resp = None /\ lsu_waits # None
        BY <2>1, <2>2, <3>2 DEF IdCycle
      <4>2. /\ lsu_waits = instr.kind /\ ~instr.fetch_err /\ id_fsm_q = "MULTI_CYCLE"
            /\ instr.kind \in {"load", "store"} /\ instr_executing
        BY <1>3, <4>1, Types, Decoding, Edge DEF IInv, Begun
      <4>3. id_fsm_q' = "MULTI_CYCLE"
        BY <2>1, <4>1, <4>2 DEF IdCycle, id_fsm_d, multicycle_done, lsu_req_dec
      <4> QED BY <1>3, <4>1, <4>2, <4>3, Wires DEF stall_id, stall_mem, lsu_req_dec
    <3> QED BY <3>1, <3>2
  <2>3. ASSUME branch_set_raw_q'
        PROVE  instr.kind = "branch" /\ ~instr.fetch_err /\ id_fsm_q' = "MULTI_CYCLE" /\ i.stall
    <3>1. instr_executing /\ id_fsm_q = "FIRST_CYCLE" /\ instr.kind = "branch"
      BY <2>1, <2>3 DEF IdCycle, branch_set_raw_d
    <3>2. id_fsm_d(e) = "MULTI_CYCLE"
      BY <3>1 DEF id_fsm_d, multi_cycle_next
    <3> QED BY <2>1, <3>1, <3>2, Wires DEF IdCycle, stall_id, instr_executing
  <2>4. ASSUME lsu_waits' # None \/ branch_set_raw_q'
        PROVE  instr_valid_id_q' /\ ctrl_fsm_cs' = "DECODE" /\ instr' = instr
    <3>1. i.stall /\ instr.kind \in {"load", "store", "branch"} /\ ~instr.fetch_err
      BY <2>2, <2>3, <2>4
    <3>2. instr_valid_id_q' /\ instr' = instr
      BY <1>3, <3>1, Staying
    <3>3. ~i.load_err /\ ~i.store_err
      <4>1. CASE lsu_waits' # None
        BY <2>2, <4>1, Wires DEF None
      <4>2. CASE branch_set_raw_q'
        BY <1>3, <2>3, <4>2, Decoding, Edge
      <4> QED BY <2>4, <4>1, <4>2
    <3>4. ~special_req(i)
      BY <1>3, <3>1, <3>3, Decoding, Edge, IllegalKinds DEF Raises, Restarts, Errs
    <3> QED BY <1>3, <3>1, <3>2, <3>4, Moves DEF Decode
  <2> QED BY <2>2, <2>3, <2>4 DEF Begun
<1> QED BY <1>1, <1>2, <1>3

LEMMA SameLaw ==
  ASSUME UNCHANGED <<scenario, priv_lvl_q, debug_mode_q, instr>>
  PROVE  hart!Illegal(instr.kind)' <=> hart!Illegal(instr.kind)
BY DEF hart!Illegal

LEMMA StepFlushed ==
  ASSUME IInv, NEW e \in Answer, Running(e)
  PROVE  Flushed'
<1> DEFINE i == Input(e)
<1> SUFFICES ASSUME ctrl_fsm_cs' = "FLUSH"
             PROVE  /\ instr_valid_id_q'
                    /\ ~instr'.fetch_err => (illegal_insn_q' <=> hart!Illegal(instr.kind)')
                    /\ exc_req_q' <=> (instr'.fetch_err \/ hart!Illegal(instr.kind)' \/ instr'.kind \in {"ecall", "ebreak"})
                    /\ load_err_q' => instr'.kind = "load" /\ may_fail(pc_id)'
                    /\ store_err_q' => instr'.kind = "store" /\ may_fail(pc_id)'
                    /\ do_single_step_q' <=> ~debug_mode_q' /\ dcsr_q'.step
                    /\ enter_debug_mode_prio_q' => ~debug_mode_q' /\ (debug_req' \/ do_single_step_q')
  BY DEF Flushed
<1>1. ctrl_fsm_cs = "DECODE"
  BY Moves, Types DEF Reset, BootSet, WaitSleep, Sleep, FirstFetch, IrqTaken, DbgTakenIf, DbgTakenId,
     FlushException, FlushEbreak, FlushMret, FlushDret, FlushOnly, AfterFlush, IInv, CtrlState
<1>2. special_req(i)
  BY <1>1, Moves DEF Decode
<1>3. instr_valid_id_q
  BY <1>1, <1>2, Empty, Edge
<1>4. instr_valid_id_q' = TRUE /\ UNCHANGED <<instr, pc_id>>
  BY <1>1, <1>2, <1>3, Staying
<1>5. UNCHANGED <<scenario, priv_lvl_q, debug_mode_q>>
  BY <1>1, Modes, Edge DEF Outside
<1>6. hart!Illegal(instr.kind)' <=> hart!Illegal(instr.kind)
  BY <1>4, <1>5, SameLaw
<1>7. /\ ~instr.fetch_err => (illegal_insn_q' <=> hart!Illegal(instr.kind))
      /\ exc_req_q' <=> (instr.fetch_err \/ hart!Illegal(instr.kind) \/ instr.kind \in {"ecall", "ebreak"})
      /\ load_err_q' => instr.kind = "load" /\ may_fail(pc_id)
      /\ store_err_q' => instr.kind = "store" /\ may_fail(pc_id)
  BY <1>1, <1>3, Decoding, Flops, Edge DEF Raises
<1>8. do_single_step_q' <=> ~debug_mode_q' /\ dcsr_q'.step
  <2>1. do_single_step_q' <=> ~debug_mode_q /\ dcsr_q.step
    BY <1>3, Flops
  <2>2. ~debug_mode_q => dcsr_q' = dcsr_q
    BY <1>1, Modes
  <2> QED BY <1>5, <2>1, <2>2
<1>9. enter_debug_mode_prio_q' => ~debug_mode_q' /\ (debug_req' \/ do_single_step_q')
  <2>1. enter_debug_mode_prio_q' => (debug_req \/ do_single_step_q') /\ ~debug_mode_q
    BY Flops
  <2>2. debug_req /\ ~debug_mode_q => debug_req'
    BY Edge DEF Outside
  <2> QED BY <1>5, <2>1, <2>2
<1>10. may_fail(pc_id)' <=> may_fail(pc_id)
  BY <1>4, OldInstruction
<1> QED BY <1>4, <1>6, <1>7, <1>8, <1>9, <1>10

(* What waits in FLUSH for the debugger is not lost while an exception goes  *)
(* first.                                                                     *)
LEMMA AfterFlushing ==
  ASSUME IInv, NEW e \in Answer, Running(e), ctrl_fsm_cs = "FLUSH"
  PROVE  /\ ctrl_fsm_cs' \in {"DECODE", "DBG_TAKEN_IF", "DBG_TAKEN_ID", "WAIT_SLEEP"}
         /\ ctrl_fsm_cs' = "DBG_TAKEN_IF" =>
              /\ enter_debug_mode_prio_q /\ ~debug_mode_q /\ debug_mode_q' = debug_mode_q
              /\ debug_req' \/ do_single_step_q'
              /\ ~ebreak_to_debugger(Input(e))
         /\ ctrl_fsm_cs' = "DBG_TAKEN_ID" <=> ebreak_to_debugger(Input(e))
         /\ ctrl_fsm_cs' = "WAIT_SLEEP" =>
              ~exception(Input(e)) /\ instr.kind = "wfi" /\ ~enter_debug_mode_prio_q
         /\ do_single_step_q' <=> do_single_step_q
<1> DEFINE i == Input(e)
<1>1. instr_valid_id_q /\ (do_single_step_q <=> ~debug_mode_q /\ dcsr_q.step)
  BY DEF IInv, Flushed
<1>2. enter_debug_mode_prio_q => ~debug_mode_q /\ (debug_req \/ do_single_step_q)
  BY DEF IInv, Flushed
<1>3. do_single_step_q' <=> do_single_step_q
  BY <1>1, Flops
<1>4. enter_debug_mode_prio_q => debug_mode_q' = debug_mode_q /\ (debug_req' \/ do_single_step_q')
  BY <1>2, <1>3, Modes, Edge, Types DEF Outside, IInv
<1>5. ebreak_to_debugger(i) <=>
        exception(i) /\ exc_cause(i) = "breakpoint" /\ (debug_mode_q \/ ebreak_into_debug)
  BY DEF ebreak_to_debugger
<1>6. CASE ebreak_to_debugger(i)
  <2>1. FlushEbreak(i)
    BY <1>6, <1>5, Moves DEF FlushException, FlushMret, FlushDret, FlushOnly
  <2> QED BY <1>2, <1>3, <1>5, <1>6, <2>1 DEF FlushEbreak, AfterFlush
<1>7. CASE exception(i) /\ ~ebreak_to_debugger(i)
  <2>1. FlushException(i)
    BY <1>7, Moves DEF FlushEbreak, FlushMret, FlushDret, FlushOnly
  <2> QED BY <1>2, <1>3, <1>4, <1>7, <2>1 DEF FlushException, AfterFlush
<1>8. CASE ~exception(i)
  <2>1. CASE FlushMret(i) \/ FlushDret(i)
    BY <1>2, <1>3, <1>4, <1>5, <1>8, <2>1 DEF FlushMret, FlushDret, AfterFlush
  <2>2. CASE FlushOnly(i)
    BY <1>1, <1>2, <1>3, <1>4, <1>5, <1>8, <2>2, Wires DEF FlushOnly, AfterFlush, Is
  <2> QED BY <1>5, <1>8, <2>1, <2>2, Moves DEF FlushException, FlushEbreak
<1> QED BY <1>6, <1>7, <1>8

LEMMA StepLeaving ==
  ASSUME IInv, NEW e \in Answer, Running(e)
  PROVE  Leaving'
<1> DEFINE i == Input(e)
<1>1. debug_req /\ ~debug_mode_q => debug_req'
  BY Edge DEF Outside
<1>2. scenario' = scenario
  BY Edge DEF Outside
<1>3. ctrl_fsm_cs' \in {"RESET", "BOOT_SET"} => ~debug_mode_q' /\ ~nmi_mode_q' /\ ~do_single_step_q'
  <2>1. CASE ctrl_fsm_cs \in {"RESET", "BOOT_SET"}
    <3>1. ~instr_valid_id_q
      BY <2>1 DEF IInv, Fetched
    <3> QED BY <2>1, <3>1, Moves, Flops DEF Reset, BootSet, KeepModes, IInv, Leaving
  <2>2. CASE ctrl_fsm_cs \notin {"RESET", "BOOT_SET"}
    BY <2>2, Moves, Types DEF WaitSleep, Sleep, FirstFetch, Decode, IrqTaken, DbgTakenIf, DbgTakenId,
       FlushException, FlushEbreak, FlushMret, FlushDret, FlushOnly, AfterFlush, IInv, CtrlState
  <2> QED BY <2>1, <2>2
<1>4. ASSUME ctrl_fsm_cs' \in {"IRQ_TAKEN", "DBG_TAKEN_IF"}, ctrl_fsm_cs # "FLUSH"
      PROVE  /\ ctrl_fsm_cs \in {"FIRST_FETCH", "DECODE"} /\ ~instr_valid_id_q
             /\ IF enter_debug_mode(i) THEN ctrl_fsm_cs' = "DBG_TAKEN_IF"
                ELSE ctrl_fsm_cs' = "IRQ_TAKEN" /\ handle_irq(i)
             /\ fetch_addr' = fetch_addr
  <2>1. ctrl_fsm_cs \in {"FIRST_FETCH", "DECODE"}
    BY <1>4, Moves, Types DEF Reset, BootSet, WaitSleep, Sleep, IrqTaken, DbgTakenIf, DbgTakenId, IInv, CtrlState
  <2>2. CASE ctrl_fsm_cs = "FIRST_FETCH"
    <3>1. ~instr_valid_id_q
      BY <2>2 DEF IInv, Fetched
    <3>2. IF enter_debug_mode(i) THEN ctrl_fsm_cs' = "DBG_TAKEN_IF"
          ELSE ctrl_fsm_cs' = "IRQ_TAKEN" /\ handle_irq(i)
      BY <1>4, <2>2, Moves DEF FirstFetch
    <3>3. Refilled /\ ~instr_valid_id_q'
      BY <2>2, <3>2, Fetching
    <3> QED BY <2>2, <3>1, <3>2, <3>3 DEF Refilled
  <2>3. CASE ctrl_fsm_cs = "DECODE"
    <3>1. ~instr_valid_id_q
      BY <1>4, <2>3, Moves, Wires DEF Decode
    <3>2. IF enter_debug_mode(i) THEN ctrl_fsm_cs' = "DBG_TAKEN_IF"
          ELSE ctrl_fsm_cs' = "IRQ_TAKEN" /\ handle_irq(i)
      BY <1>4, <2>3, Moves, Empty, Edge DEF Decode
    <3>3. Refilled /\ ~instr_valid_id_q'
      BY <2>3, <3>1, <3>2, Waiting
    <3> QED BY <2>3, <3>1, <3>2, <3>3 DEF Refilled
  <2> QED BY <2>1, <2>2, <2>3
<1>5. ASSUME ctrl_fsm_cs' = "IRQ_TAKEN"
      PROVE  ~debug_mode_q' /\ ~do_single_step_q' /\ fetch_addr' # tmatch_q'
  <2>1. ctrl_fsm_cs # "FLUSH"
    BY <1>5, AfterFlushing
  <2>2. ~enter_debug_mode(i) /\ handle_irq(i) /\ fetch_addr' = fetch_addr /\ ctrl_fsm_cs \in {"FIRST_FETCH", "DECODE"}
    BY <1>4, <1>5, <2>1
  <2>3. ~debug_mode_q /\ ~do_single_step_d(i) /\ fetch_addr # tmatch_q
    BY <2>2, Flops
  <2> QED BY <2>2, <2>3, Modes, Flops
<1>6. ASSUME ctrl_fsm_cs' = "DBG_TAKEN_IF"
      PROVE  ~debug_mode_q' /\ (fetch_addr' = tmatch_q' \/ debug_req' \/ do_single_step_q')
  <2>1. CASE ctrl_fsm_cs = "FLUSH"
    BY <1>6, <2>1, AfterFlushing
  <2>2. CASE ctrl_fsm_cs # "FLUSH"
    <3>1. enter_debug_mode(i) /\ fetch_addr' = fetch_addr /\ ctrl_fsm_cs \in {"FIRST_FETCH", "DECODE"}
      BY <1>4, <1>6, <2>2
    <3>2. ~debug_mode_q /\ (fetch_addr = tmatch_q \/ debug_req \/ do_single_step_q')
      BY <3>1, Flops
    <3>3. debug_mode_q' = debug_mode_q /\ tmatch_q' = tmatch_q
      BY <3>1, <3>2, Modes
    <3> QED BY <1>1, <3>1, <3>2, <3>3
  <2> QED BY <2>1, <2>2
<1>7. ASSUME ctrl_fsm_cs' = "DBG_TAKEN_ID"
      PROVE  /\ "ebreak" \in scenario'.code[pc_id']
             /\ debug_mode_q' \/ (ebreak_into_debug' /\ pc_id' # tmatch_q')
  <2>1. ctrl_fsm_cs = "FLUSH"
    BY <1>7, Moves, Types DEF Reset, BootSet, WaitSleep, Sleep, FirstFetch, Decode, IrqTaken, DbgTakenIf, DbgTakenId, IInv, CtrlState
  <2>2. ebreak_to_debugger(i)
    BY <1>7, <2>1, AfterFlushing
  <2>3. instr.kind = "ebreak" /\ instr_valid_id_q
    BY <2>1, <2>2, Wires DEF ebreak_to_debugger, exc_cause, Is, IInv, Flushed
  <2>4. FlushEbreak(i)
    BY <2>1, <2>2, Moves DEF FlushException, FlushMret, FlushDret, FlushOnly, ebreak_to_debugger
  <2>5. debug_mode_q' = debug_mode_q /\ tmatch_q' = tmatch_q /\ ebreak_into_debug' = ebreak_into_debug
    BY <2>4 DEF FlushEbreak, KeepModes, CsrKeep, csrVars, ebreak_into_debug
  <2>6. pc_id' = pc_id
    BY <2>1, Flushing
  <2> QED BY <1>2, <2>2, <2>3, <2>5, <2>6 DEF IInv, Fetched, ebreak_to_debugger
<1>8. do_single_step_q' /\ ~debug_mode_q' => dcsr_q'.step
  <2> SUFFICES ASSUME do_single_step_q', ~debug_mode_q' PROVE dcsr_q'.step
    OBVIOUS
  <2>1. ctrl_fsm_cs \notin {"DBG_TAKEN_IF", "DBG_TAKEN_ID"}
    BY Modes
  <2>2. ~debug_mode_q
    BY <2>1, Modes, AfterFlushing DEF IInv, Flushed
  <2>3. dcsr_q.step
    BY <2>2, Flops DEF IInv, Leaving
  <2> QED BY <2>1, <2>2, <2>3, Modes
<1> QED BY <1>3, <1>5, <1>6, <1>7, <1>8 DEF Leaving

(* A request is pending from the cycle it is made to the return to DECODE,   *)
(* and one that expects no redirect finds none to do.                         *)
LEMMA StepMonitored ==
  ASSUME IInv, NEW e \in Answer, Running(e)
  PROVE  Monitored'
<1> DEFINE i == Input(e)
           goes_on == ~(monitor.pending /\ ctrl_fsm_cs # "DECODE" /\ ctrl_fsm_cs' = "DECODE")
<1>1. /\ monitor'.pending <=> (monitor.pending \/ exception_req(i)) /\ goes_on
      /\ monitor'.expect <=> (monitor.expect \/ exception_req_needs_pc_set(i)) /\ goes_on
      /\ monitor'.seen <=> (monitor.seen \/ exception_pc_set(i)) /\ goes_on
      /\ monitor'.twice <=> monitor.seen /\ ~to_debugger /\ pc_set(i)
      /\ monitor'.unasked <=> monitor.pending /\ ~monitor.expect /\ pc_set(i)
  BY Tracking
<1>2. Monitored
  BY DEF IInv
<1> HIDE DEF i
<1>3. ~monitor'.twice
  BY <1>1, <1>2 DEF Monitored, to_debugger
<1>4. ~monitor'.unasked
  <2> SUFFICES ASSUME monitor.pending, ~monitor.expect PROVE ~pc_set(i)
    BY <1>1
  <2>1. CASE ctrl_fsm_cs \in {"WAIT_SLEEP", "SLEEP"}
    BY <2>1, Sleeping DEF pc_set, i
  <2>2. CASE ctrl_fsm_cs = "FIRST_FETCH"
    BY <2>2, Fetching DEF pc_set, i
  <2>3. CASE ctrl_fsm_cs = "FLUSH" /\ ~exc_req_q /\ ~load_err_q /\ ~store_err_q /\ instr.kind \notin {"mret", "dret"}
    BY <2>3, Flushing DEF pc_set, i, exception
  <2> QED BY <1>2, <2>1, <2>2, <2>3 DEF Monitored
<1>5. ASSUME monitor'.seen
      PROVE  ctrl_fsm_cs' = "DBG_TAKEN_IF"
  <2>1. CASE monitor.seen
    <3>1. ctrl_fsm_cs = "DBG_TAKEN_IF" /\ monitor.pending
      BY <1>2, <2>1 DEF Monitored
    <3> QED BY <1>1, <1>5, <3>1, Moves DEF DbgTakenIf
  <2>2. CASE ~monitor.seen
    <3>1. monitor.pending /\ pc_mux(i) \in {"PC_EXC", "PC_ERET", "PC_DRET"}
      BY <1>1, <1>5, <2>2 DEF exception_pc_set
    <3>2. ctrl_fsm_cs \notin {"RESET", "BOOT_SET", "WAIT_SLEEP", "SLEEP", "FIRST_FETCH"}
      BY <3>1, Starting, Sleeping, Fetching DEF i, None
    <3>3. ctrl_fsm_cs # "DECODE"
      BY <3>1, Waiting, Staying, Done DEF i, None
    <3>4. ctrl_fsm_cs' # "DECODE"
      BY <1>1, <1>5, <3>1, <3>3
    <3>5. ctrl_fsm_cs = "FLUSH"
      BY <3>2, <3>3, <3>4, Moves, Types DEF IrqTaken, DbgTakenIf, DbgTakenId, IInv, CtrlState
    <3>6. ctrl_fsm_cs' # "DBG_TAKEN_ID"
      BY <3>1, <3>5, AfterFlushing, Flushing DEF i, None
    <3>7. ctrl_fsm_cs' # "WAIT_SLEEP"
      BY <3>1, <3>5, AfterFlushing, Flushing DEF i, None
    <3> QED BY <3>4, <3>5, <3>6, <3>7, AfterFlushing
  <2> QED BY <2>1, <2>2
<1>6. ASSUME ctrl_fsm_cs' \in {"FLUSH", "IRQ_TAKEN", "DBG_TAKEN_IF", "DBG_TAKEN_ID"}
      PROVE  monitor'.pending
  <2>1. goes_on
    BY <1>6
  <2>2. CASE ctrl_fsm_cs \in {"FLUSH", "IRQ_TAKEN", "DBG_TAKEN_IF", "DBG_TAKEN_ID"}
    BY <1>1, <1>2, <2>1, <2>2 DEF Monitored
  <2>3. CASE ctrl_fsm_cs = "FIRST_FETCH"
    <3>1. enter_debug_mode(i) \/ handle_irq(i)
      BY <1>6, <2>3, Moves DEF FirstFetch, i
    <3> QED BY <1>1, <2>1, <3>1 DEF exception_req
  <2>4. CASE ctrl_fsm_cs = "DECODE"
    <3>1. special_req(i) \/ enter_debug_mode(i) \/ handle_irq(i)
      BY <1>6, <2>4, Moves DEF Decode, i
    <3> QED BY <1>1, <2>1, <3>1 DEF exception_req
  <2>5. CASE ctrl_fsm_cs \in {"RESET", "BOOT_SET", "WAIT_SLEEP", "SLEEP"}
    BY <1>6, <2>5, Moves DEF Reset, BootSet, WaitSleep, Sleep
  <2> QED BY <2>2, <2>3, <2>4, <2>5, Types DEF IInv, CtrlState
<1>7. ASSUME monitor'.pending, ~monitor'.expect
      PROVE  \/ ctrl_fsm_cs' \in {"WAIT_SLEEP", "SLEEP", "FIRST_FETCH"}
             \/ /\ ctrl_fsm_cs' = "FLUSH" /\ ~exc_req_q' /\ ~load_err_q' /\ ~store_err_q'
                /\ instr'.kind \notin {"mret", "dret"} /\ ~enter_debug_mode_prio_q'
  <2>1. goes_on /\ ~monitor.expect /\ ~exception_req_needs_pc_set(i)
    BY <1>1, <1>7
  <2>2. ~enter_debug_mode(i) /\ ~handle_irq(i) /\ ~special_req_pc_change(i)
    BY <2>1 DEF exception_req_needs_pc_set
  <2>3. monitor.pending \/ special_req(i)
    BY <1>1, <1>7, <2>2 DEF exception_req
  <2>4. CASE ctrl_fsm_cs = "DECODE"
    <3>1. ~monitor.pending
      BY <1>2, <2>1, <2>4 DEF Monitored
    <3>2. special_req(i)
      BY <2>3, <3>1
    <3>3. instr_valid_id_q
      BY <2>4, <3>2, Empty, Edge DEF i
    <3>4. ctrl_fsm_cs' = "FLUSH"
      BY <2>4, <3>2, Moves DEF Decode, i
    <3>5. ~exc_req_q' /\ ~load_err_q' /\ ~store_err_q' /\ instr.kind \notin {"mret", "dret"}
      BY <2>2, <2>4, <3>3, Flops, Decoding, Edge, Wires DEF i, special_req_pc_change, exc_req_lsu
    <3>6. ~enter_debug_mode_prio_q'
      BY <2>2, Flops DEF i
    <3>7. instr' = instr
      BY <2>4, <3>2, <3>3, Staying DEF i
    <3> QED BY <3>4, <3>5, <3>6, <3>7
  <2>5. CASE ctrl_fsm_cs # "DECODE"
    <3>1. special_req(i) => ctrl_fsm_cs = "FLUSH"
      BY <2>5, NotDecoding, Edge DEF i
    <3>2. monitor.pending
      BY <1>2, <2>3, <3>1 DEF Monitored
    <3>3. ctrl_fsm_cs' # "DECODE"
      BY <2>1, <2>5, <3>2
    <3>4. CASE ctrl_fsm_cs = "WAIT_SLEEP"
      BY <3>4, Moves DEF WaitSleep
    <3>5. CASE ctrl_fsm_cs = "SLEEP"
      BY <3>5, Moves DEF Sleep
    <3>6. CASE ctrl_fsm_cs = "FIRST_FETCH"
      BY <2>2, <3>3, <3>6, Moves DEF FirstFetch, i
    <3>7. CASE ctrl_fsm_cs = "FLUSH"
      <4>1. ~enter_debug_mode_prio_q /\ ~exc_req_q /\ ~load_err_q /\ ~store_err_q
        BY <1>2, <2>1, <3>2, <3>7 DEF Monitored
      <4>2. ~ebreak_to_debugger(i)
        BY <4>1 DEF ebreak_to_debugger, exception
      <4> QED BY <3>3, <3>7, <4>1, <4>2, AfterFlushing DEF i
    <3> QED BY <1>2, <2>1, <3>2, <3>4, <3>5, <3>6, <3>7 DEF Monitored
  <2> QED BY <2>4, <2>5
<1> QED BY <1>3, <1>4, <1>5, <1>6, <1>7 DEF Monitored

LEMMA StepRunning ==
  ASSUME IInv, NEW e \in Answer, Running(e)
  PROVE  IInv'
BY StepTypes, StepFetched, StepBegun, StepFlushed, StepLeaving, StepMonitored DEF IInv

(* While the clock stands still only the requests from outside change, and   *)
(* the debugger does not withdraw one it waits for.                           *)
LEMMA StepStopped ==
  ASSUME IInv, Stopped
  PROVE  IInv'
<1>1. /\ UNCHANGED coreVars /\ scenario' = scenario
      /\ debug_req /\ ~debug_mode_q => debug_req'
      /\ lines' \subseteq scenario.lines /\ debug_req' \in BOOLEAN
      /\ fetch_enable_q' \in {fetch_enable_q, TRUE}
  BY DEF Stopped, Outside, Gate
<1>2. core_busy_q' \in BOOLEAN
  BY DEF Stopped, Gate, ctrl_busy
<1>3. InvType'
  <2>1. CtrlTypeOK' /\ CsrTypeOK'
    BY <1>1 DEF IInv, InvType, TypeOK, CtrlTypeOK, CsrTypeOK, coreVars, ctrlVars, csrVars
  <2>2. lines' \subseteq Line /\ scenario' \in Scenarios /\ fetch_enable_q' \in BOOLEAN
    BY <1>1, Scenario, Types DEF IInv, InvType
  <2>3. UNCHANGED <<ifVars, idVars, monitor>>
    BY <1>1 DEF coreVars
  <2> QED BY <1>1, <1>2, <2>1, <2>2, <2>3 DEF IInv, InvType, TypeOK, ifVars, idVars
<1>4. /\ hart!Illegal(instr.kind)' <=> hart!Illegal(instr.kind)
      /\ may_fail(pc_id)' <=> may_fail(pc_id)
      /\ ebreak_into_debug' <=> ebreak_into_debug
  BY <1>1 DEF hart!Illegal, may_fail, ebreak_into_debug, coreVars, ctrlVars, csrVars, ifVars
<1>5. Fetched' /\ Begun' /\ Monitored'
  BY <1>1, <1>4 DEF IInv, Fetched, Begun, Monitored, coreVars, ctrlVars, csrVars, ifVars, idVars
<1>6. Flushed'
  BY <1>1, <1>4 DEF IInv, Flushed, coreVars, ctrlVars, csrVars, ifVars
<1>7. Leaving'
  BY <1>1, <1>4 DEF IInv, Leaving, coreVars, ctrlVars, csrVars, ifVars
<1> QED BY <1>3, <1>5, <1>6, <1>7 DEF IInv

LEMMA InitInv ==
  Init => IInv
<1> SUFFICES ASSUME Init PROVE IInv
  OBVIOUS
<1>1. InvType
  BY Places DEF Init, CtrlInit, CsrInit, InvType, TypeOK, CtrlTypeOK, CsrTypeOK, CtrlState, Priv, DbgCause,
     Kind, None
<1>2. Fetched /\ Begun /\ Flushed /\ Leaving /\ Monitored
  BY DEF Init, CtrlInit, CsrInit, Fetched, Begun, Flushed, Leaving, Monitored
<1> QED BY <1>1, <1>2 DEF IInv

(* The inductive invariant holds of every run, for every set of programs.    *)
THEOREM Invariance == Spec => []IInv
<1>1. IInv /\ [Next]_vars => IInv'
  <2> SUFFICES ASSUME IInv, [Next]_vars PROVE IInv'
    OBVIOUS
  <2>1. CASE Stopped
    BY <2>1, StepStopped
  <2>2. ASSUME NEW e \in Answer, Running(e)
        PROVE  IInv'
    BY <2>2, StepRunning
  <2>3. CASE UNCHANGED vars
    <3>1. UNCHANGED <<coreVars, scenario, lines, debug_req, fetch_enable_q, core_busy_q>>
      BY <2>3 DEF vars
    <3>2. InvType' /\ Fetched' /\ Begun' /\ Monitored'
      BY <3>1 DEF IInv, InvType, TypeOK, CtrlTypeOK, CsrTypeOK, Fetched, Begun, Monitored, may_fail,
         coreVars, ctrlVars, csrVars, ifVars, idVars
    <3>3. Flushed' /\ Leaving'
      BY <3>1 DEF IInv, Flushed, Leaving, may_fail, ebreak_into_debug, hart!Illegal,
         coreVars, ctrlVars, csrVars, ifVars, idVars
    <3> QED BY <3>2, <3>3 DEF IInv
  <2> QED BY <2>1, <2>2, <2>3 DEF Next
<1> QED BY <1>1, InitInv, PTL DEF Spec

(* Every register of the controller, the trap CSRs and the pipeline holds    *)
(* what it is meant to.                                                       *)
THEOREM TypesHold == Spec => []TypeOK
BY Invariance, PTL DEF IInv, InvType

(* CVE2NoDoubleSpecialReqPCSet: a request to leave the program redirects     *)
(* fetch once, but for a move into debug mode.                                *)
THEOREM OneRedirect == Spec => []NoDoubleSpecialReqPCSet
<1>1. IInv => NoDoubleSpecialReqPCSet
  BY DEF IInv, Monitored, NoDoubleSpecialReqPCSet
<1> QED BY <1>1, Invariance, PTL

(* CVE2NoPCSetOnSpecialReqIfNotExpected: a wfi or a CSR write that restarts  *)
(* the pipeline redirects nothing.                                            *)
THEOREM NoUnexpectedRedirect == Spec => []NoPCSetOnSpecialReqIfNotExpected
<1>1. IInv => NoPCSetOnSpecialReqIfNotExpected
  BY DEF IInv, Monitored, NoPCSetOnSpecialReqIfNotExpected
<1> QED BY <1>1, Invariance, PTL

----------------------------------------------------------------------------
(* The two states of the FSM of the ID stage.                                *)

LEMMA Grouped ==
  ASSUME NoMisgrouped, IInv, instr_valid_id_q
  PROVE  instr.kind # "misgrouped"
BY Types DEF NoMisgrouped, IInv, InvType, Fetched

(* An instruction that is not done stalls and raises nothing.                *)
LEMMA Slow ==
  ASSUME NoMisgrouped, IInv, Straight, NEW e \in Answer, Running(e), id_fsm_d(e) = "MULTI_CYCLE"
  PROVE  /\ ctrl_fsm_cs = "DECODE" /\ instr_valid_id_q
         /\ ~instr.fetch_err /\ instr.kind \in MultiCycleKind
         /\ Input(e).stall /\ ~special_req(Input(e))
         /\ instr.kind \in {"branch", "jump"} => id_fsm_q = "FIRST_CYCLE"
<1>1. ctrl_fsm_cs = "DECODE" /\ instr_valid_id_q
  BY NotDecoding, Empty, Edge DEF Straight
<1>2. id_fsm_q \in {"FIRST_CYCLE", "MULTI_CYCLE"}
  BY DEF IInv, InvType, TypeOK
<1>3. ~instr.fetch_err /\ instr_executing
  <2>1. ~instr_executing => id_fsm_q = "MULTI_CYCLE"
    BY DEF id_fsm_d
  <2> QED BY <1>1, <2>1, Decoding, Edge DEF Straight
<1>4. instr.kind \in MultiCycleKind
  <2>1. CASE id_fsm_q = "MULTI_CYCLE"
    BY <2>1 DEF Straight
  <2>2. CASE id_fsm_q = "FIRST_CYCLE"
    <3>1. multi_cycle_next(e)
      BY <1>3, <2>2 DEF id_fsm_d
    <3> QED BY <1>1, <3>1, Grouped DEF multi_cycle_next, lsu_req_dec, vrf_req_dec, MultiCycleKind
  <2> QED BY <1>2, <2>1, <2>2
<1>5. ASSUME id_fsm_q = "MULTI_CYCLE"
      PROVE  ~multicycle_done(e)
  BY <1>3, <1>5 DEF id_fsm_d
<1>6. Input(e).stall
  <2>1. CASE instr.kind \in {"mul", "branch", "jump", "vector"}
    BY <1>3, <2>1, Wires DEF stall_id, vrf_req_dec
  <2>2. CASE instr.kind \in {"load", "store"}
    BY <1>1, <1>2, <1>5, <2>2, Wires DEF stall_id, stall_mem, lsu_req_dec, instr_first_cycle, multicycle_done
  <2> QED BY <1>4, <2>1, <2>2 DEF MultiCycleKind
<1>7. ~Errs(e)
  <2> SUFFICES ASSUME Errs(e) PROVE FALSE
    OBVIOUS
  <2>1. e.resp = "err" /\ id_fsm_q = "MULTI_CYCLE" /\ instr.kind \in {"load", "store"}
    BY <1>1, Decoding, Edge DEF Errs
  <2> QED BY <1>5, <2>1 DEF multicycle_done, lsu_req_dec, None
<1>8. ~special_req(Input(e))
  BY <1>1, <1>3, <1>4, <1>7, Decoding, Edge, IllegalKinds DEF Raises, Restarts, MultiCycleKind
<1>9. instr.kind \in {"branch", "jump"} => id_fsm_q = "FIRST_CYCLE"
  <2>1. instr.kind \in {"branch", "jump"} => multicycle_done(e)
    BY DEF multicycle_done, lsu_req_dec, vrf_req_dec, ex_valid
  <2> QED BY <1>2, <1>5, <2>1
<1> QED BY <1>1, <1>3, <1>4, <1>6, <1>8, <1>9

LEMMA StepStraight ==
  ASSUME NoMisgrouped, IInv, Straight, NEW e \in Answer, Running(e)
  PROVE  Straight'
<1> DEFINE i == Input(e)
<1>1. id_fsm_q \in {"FIRST_CYCLE", "MULTI_CYCLE"} /\ id_fsm_q' \in {"FIRST_CYCLE", "MULTI_CYCLE"}
  BY StepTypes DEF IInv, InvType, TypeOK
<1>2. /\ id_fsm_q' = id_fsm_d(e) /\ branch_set_raw_q' = branch_set_raw_d
      /\ branch_jump_set_done_q' = ((branch_set_raw_q \/ jump_set_raw \/ branch_jump_set_done_q)
                                      /\ ~instr_valid_clear(i))
  BY Edge DEF IdCycle
<1>3. ASSUME id_fsm_q' = "MULTI_CYCLE"
      PROVE  /\ ctrl_fsm_cs = "DECODE" /\ instr_valid_id_q /\ ~instr.fetch_err
             /\ instr.kind \in MultiCycleKind /\ ~special_req(i) /\ i.stall
             /\ instr.kind \in {"branch", "jump"} => id_fsm_q = "FIRST_CYCLE"
             /\ instr_valid_id_q' = TRUE /\ UNCHANGED <<instr, pc_id>> /\ ctrl_fsm_cs' = "DECODE"
             /\ fetch_addr' = IF i.branch_set \/ i.jump_set THEN Target(pc_id) ELSE fetch_addr
  <2>1. /\ ctrl_fsm_cs = "DECODE" /\ instr_valid_id_q /\ ~instr.fetch_err
        /\ instr.kind \in MultiCycleKind /\ ~special_req(i) /\ i.stall
        /\ instr.kind \in {"branch", "jump"} => id_fsm_q = "FIRST_CYCLE"
    BY <1>2, <1>3, Slow
  <2>2. /\ instr_valid_id_q' = TRUE /\ UNCHANGED <<instr, pc_id>>
        /\ fetch_addr' = IF i.branch_set \/ i.jump_set THEN Target(pc_id) ELSE fetch_addr
    BY <2>1, Staying
  <2>3. ctrl_fsm_cs' = "DECODE"
    BY <2>1, Moves DEF Decode
  <2> QED BY <2>1, <2>2, <2>3
<1>4. ASSUME instr_executing, id_fsm_q = "FIRST_CYCLE", instr.kind \in {"branch", "jump"}
      PROVE  id_fsm_q' = "MULTI_CYCLE"
  BY <1>2, <1>4 DEF id_fsm_d, multi_cycle_next
<1>5. id_fsm_q' = "MULTI_CYCLE" =>
        instr_valid_id_q' /\ ctrl_fsm_cs' = "DECODE" /\ ~instr'.fetch_err /\ instr'.kind \in MultiCycleKind
  BY <1>3
<1>6. branch_set_raw_q' = (id_fsm_q' = "MULTI_CYCLE" /\ instr'.kind = "branch")
  <2>1. branch_set_raw_q' => id_fsm_q' = "MULTI_CYCLE" /\ instr'.kind = "branch"
    BY <1>2, <1>3, <1>4 DEF branch_set_raw_d
  <2>2. id_fsm_q' = "MULTI_CYCLE" /\ instr'.kind = "branch" => branch_set_raw_q'
    BY <1>2, <1>3, Decoding, Edge DEF branch_set_raw_d
  <2>3. branch_set_raw_q' \in BOOLEAN
    BY StepTypes DEF InvType, TypeOK
  <2> QED BY <2>1, <2>2, <2>3
<1>7. ASSUME branch_jump_set_done_q'
      PROVE  id_fsm_q' = "MULTI_CYCLE" /\ instr'.kind = "jump"
  <2>1. branch_set_raw_q \/ jump_set_raw \/ branch_jump_set_done_q
    BY <1>2, <1>7
  <2>2. ~instr_valid_clear(i)
    BY <1>2, <1>7
  <2>3. CASE jump_set_raw
    BY <1>3, <1>4, <2>3 DEF jump_set_raw
  <2>4. CASE branch_set_raw_q \/ branch_jump_set_done_q
    <3>1. /\ id_fsm_q = "MULTI_CYCLE" /\ instr.kind \in {"branch", "jump"} /\ ~instr.fetch_err
          /\ instr_valid_id_q /\ ctrl_fsm_cs = "DECODE"
      BY <2>4 DEF Straight
    <3>2. id_fsm_q' = "FIRST_CYCLE"
      BY <1>1, <1>3, <3>1
    <3>3. ~i.stall
      BY <1>2, <3>1, <3>2, Wires DEF stall_id, stall_mem, lsu_req_dec
    <3>4. ~special_req(i)
      BY <3>1, Decoding, Edge, IllegalKinds DEF Raises, Restarts, Errs
    <3> QED BY <2>2, <3>3, <3>4 DEF instr_valid_clear, retain_id
  <2> QED BY <2>1, <2>3, <2>4
<1>8. ASSUME instr_valid_id_q'
      PROVE  fetch_addr' = IF id_fsm_q' = "MULTI_CYCLE" /\ instr'.kind = "jump" THEN Target(pc_id') ELSE After(pc_id')
  <2>1. CASE Refilled /\ id_fsm_q' = "FIRST_CYCLE"
    BY <1>8, <2>1 DEF Refilled
  <2>2. CASE ctrl_fsm_cs = "DECODE" /\ instr_valid_id_q /\ (special_req(i) \/ i.stall)
    <3>1. /\ UNCHANGED <<instr, pc_id>>
          /\ fetch_addr' = IF i.branch_set \/ i.jump_set THEN Target(pc_id) ELSE fetch_addr
      BY <2>2, Staying
    <3>2. CASE instr.kind = "jump" /\ ~instr.fetch_err
      <4>1. ~special_req(i) /\ i.stall
        BY <2>2, <3>2, Decoding, Edge, IllegalKinds DEF Raises, Restarts, Errs
      <4>2. id_fsm_q' = "MULTI_CYCLE"
        BY <1>2, <3>2, <4>1, Wires DEF stall_id, stall_mem, lsu_req_dec
      <4>3. id_fsm_q = "FIRST_CYCLE" /\ ~branch_jump_set_done_q
        BY <1>3, <3>2, <4>2 DEF Straight
      <4>4. i.jump_set
        BY <2>2, <3>2, <4>3, Decoding, Edge, Wires DEF jump_set, jump_set_raw
      <4> QED BY <3>1, <3>2, <4>2, <4>4
    <3>3. CASE ~(instr.kind = "jump" /\ ~instr.fetch_err)
      <4>1. ~i.jump_set /\ ~(id_fsm_q = "MULTI_CYCLE" /\ instr.kind = "jump")
        BY <2>2, <3>3, Decoding, Edge, Wires DEF Straight, jump_set, jump_set_raw
      <4>2. ~i.branch_set
        <5> SUFFICES ASSUME i.branch_set PROVE FALSE
          OBVIOUS
        <5>1. branch_set_raw_q
          BY Wires DEF branch_set
        <5>2. id_fsm_q = "MULTI_CYCLE" /\ instr.kind = "branch" /\ ~instr.fetch_err
          BY <5>1 DEF Straight
        <5>3. ~special_req(i) /\ i.stall
          BY <2>2, Decoding, Edge
        <5>4. id_fsm_q' = "MULTI_CYCLE"
          BY <1>2, <5>2, <5>3, Wires DEF stall_id, stall_mem, lsu_req_dec
        <5> QED BY <1>3, <5>2, <5>4
      <4>3. ~(id_fsm_q' = "MULTI_CYCLE" /\ instr'.kind = "jump")
        BY <1>3, <3>3
      <4> QED BY <2>2, <3>1, <4>1, <4>2, <4>3 DEF Straight
    <3> QED BY <3>2, <3>3
  <2>3. CASE ctrl_fsm_cs = "DECODE" /\ instr_valid_id_q /\ ~special_req(i) /\ ~i.stall
    BY <1>1, <1>3, <1>8, <2>1, <2>3, Done
  <2>4. CASE ctrl_fsm_cs = "DECODE" /\ ~instr_valid_id_q
    BY <1>1, <1>3, <2>1, <2>4, Waiting
  <2>5. CASE ctrl_fsm_cs = "FIRST_FETCH"
    BY <1>1, <1>3, <2>1, <2>5, Fetching
  <2>6. CASE ctrl_fsm_cs = "IRQ_TAKEN"
    BY <1>1, <1>3, <1>8, <2>1, <2>6, Interrupting DEF Emptied
  <2>7. CASE ctrl_fsm_cs \in {"RESET", "BOOT_SET", "DBG_TAKEN_IF", "DBG_TAKEN_ID", "WAIT_SLEEP", "SLEEP", "FLUSH"}
    BY <1>8, <2>7, Starting, Halting, Sleeping, Flushing DEF Emptied
  <2> QED BY <2>2, <2>3, <2>4, <2>5, <2>6, <2>7, Types DEF IInv, CtrlState
<1> QED BY <1>5, <1>6, <1>7, <1>8 DEF Straight

(* An instruction that enters ID starts in its first cycle, whatever its     *)
(* predecessor was, in every program without a vector instruction on a        *)
(* misaligned register group.                                                 *)
THEOREM InstructionsStartAfresh ==
  ASSUME NoMisgrouped
  PROVE  Spec => StartsInFirstCycle
<1>1. Init => Straight
  BY DEF Init, Straight
<1>2. IInv /\ Straight /\ [Next]_vars => Straight'
  <2> SUFFICES ASSUME IInv, Straight, [Next]_vars PROVE Straight'
    OBVIOUS
  <2>1. CASE UNCHANGED coreVars
    BY <2>1 DEF Straight, coreVars, ctrlVars, ifVars, idVars
  <2>2. CASE \E e \in Answer : Running(e)
    BY <2>2, StepStraight
  <2> QED BY <2>1, <2>2 DEF Next, Stopped, vars
<1>3. IInv /\ Straight /\ [Next]_vars =>
        [(instr_valid_id_q' /\ (~instr_valid_id_q \/ pc_id' # pc_id)) => id_fsm_q' = "FIRST_CYCLE"]_vars
  <2> SUFFICES ASSUME IInv, Straight, [Next]_vars,
                      instr_valid_id_q', ~instr_valid_id_q \/ pc_id' # pc_id, ~UNCHANGED vars
               PROVE  id_fsm_q' = "FIRST_CYCLE"
    OBVIOUS
  <2>1. ~Stopped
    BY DEF Stopped, coreVars, ifVars
  <2>2. PICK e \in Answer : Running(e)
    BY <2>1 DEF Next
  <2>3. id_fsm_q' = id_fsm_d(e) /\ id_fsm_q' \in {"FIRST_CYCLE", "MULTI_CYCLE"}
    BY <2>2, Edge, StepTypes DEF IdCycle, InvType, TypeOK
  <2>4. id_fsm_d(e) # "MULTI_CYCLE"
    <3> SUFFICES ASSUME id_fsm_d(e) = "MULTI_CYCLE" PROVE FALSE
      OBVIOUS
    <3>1. ctrl_fsm_cs = "DECODE" /\ instr_valid_id_q /\ Input(e).stall
      BY <2>2, Slow
    <3> QED BY <2>2, <3>1, Staying
  <2> QED BY <2>3, <2>4
<1> QED BY <1>1, <1>2, <1>3, Invariance, PTL DEF Spec, StartsInFirstCycle

----------------------------------------------------------------------------
(* NMI handlers.                                                             *)

LEMMA HandlerRuns ==
  ASSUME NmiHandlersDoNotTrap, IInv, InHandler, nmi_mode_q, ~debug_mode_q
  PROVE  /\ instr_valid_id_q => instr.kind \in NmiKind /\ ~Raises /\ ~may_fail(pc_id)
         /\ ctrl_fsm_cs # "DBG_TAKEN_ID"
<1>1. scenario \in Scenarios /\ pc_id \in PC
  BY Types DEF IInv, InvType
<1>2. instr_valid_id_q => Region(pc_id) = "nmi" /\ priv_lvl_q = "M"
  BY DEF InHandler
<1>3. instr_valid_id_q => instr.kind \in NmiKind
  BY <1>1, <1>2 DEF NmiHandlersDoNotTrap, IInv, Fetched
<1>4. instr_valid_id_q => ~may_fail(pc_id)
  BY <1>2 DEF may_fail
<1>5. instr_valid_id_q => ~Raises
  BY <1>2, <1>3, <1>4, IllegalKinds DEF Raises, NmiKind, IInv, Fetched
<1>6. ctrl_fsm_cs # "DBG_TAKEN_ID"
  <2> SUFFICES ASSUME ctrl_fsm_cs = "DBG_TAKEN_ID" PROVE FALSE
    OBVIOUS
  <2>1. Region(pc_id) = "nmi" /\ "ebreak" \in scenario.code[pc_id]
    BY DEF InHandler, IInv, Leaving
  <2> QED BY <1>1, <2>1 DEF NmiHandlersDoNotTrap, NmiKind
<1> QED BY <1>3, <1>4, <1>5, <1>6

LEMMA Exceptional ==
  ASSUME IInv, NEW e \in Answer, Running(e), ctrl_fsm_cs = "FLUSH"
  PROVE  exception(Input(e)) <=> Raises \/ load_err_q \/ store_err_q
BY DEF exception, Raises, IInv, Flushed

LEMMA StepHandler ==
  ASSUME NmiHandlersDoNotTrap, IInv, InHandler, NEW e \in Answer, Running(e)
  PROVE  InHandler'
<1> DEFINE i == Input(e)
<1> SUFFICES ASSUME nmi_mode_q'
             PROVE  IF debug_mode_q' THEN Region(depc_q') = "nmi" /\ dcsr_q'.prv = "M"
                    ELSE /\ Region(fetch_addr') = "nmi" /\ priv_lvl_q' = "M"
                         /\ instr_valid_id_q' \/ ctrl_fsm_cs' = "DBG_TAKEN_ID" => Region(pc_id') = "nmi"
  BY DEF InHandler, Region
<1>1. fetch_addr \in PC /\ pc_id \in PC
  BY Types DEF IInv
<1>2. ASSUME nmi_mode_q, debug_mode_q, debug_mode_q' = debug_mode_q, depc_q' = depc_q, dcsr_q'.prv = dcsr_q.prv
      PROVE  debug_mode_q' /\ Region(depc_q') = "nmi" /\ dcsr_q'.prv = "M"
  BY <1>2 DEF InHandler
<1>3. ASSUME nmi_mode_q, ~debug_mode_q, Refilled, priv_lvl_q' = priv_lvl_q, ctrl_fsm_cs' # "DBG_TAKEN_ID"
      PROVE  /\ Region(fetch_addr') = "nmi" /\ priv_lvl_q' = "M"
             /\ instr_valid_id_q' \/ ctrl_fsm_cs' = "DBG_TAKEN_ID" => Region(pc_id') = "nmi"
  BY <1>1, <1>3, Places DEF InHandler, Refilled
<1>4. ASSUME nmi_mode_q, ~debug_mode_q, instr_valid_id_q' = FALSE, fetch_addr' = fetch_addr,
             priv_lvl_q' = priv_lvl_q, ctrl_fsm_cs' # "DBG_TAKEN_ID"
      PROVE  /\ Region(fetch_addr') = "nmi" /\ priv_lvl_q' = "M"
             /\ instr_valid_id_q' \/ ctrl_fsm_cs' = "DBG_TAKEN_ID" => Region(pc_id') = "nmi"
  BY <1>4 DEF InHandler
<1>5. CASE ctrl_fsm_cs \in {"RESET", "BOOT_SET"}
  BY <1>5, Moves DEF Reset, BootSet, KeepModes, IInv, Leaving
<1>6. CASE ctrl_fsm_cs \in {"WAIT_SLEEP", "SLEEP"}
  <2>1. /\ nmi_mode_q' = nmi_mode_q /\ debug_mode_q' = debug_mode_q /\ UNCHANGED csrVars
        /\ ctrl_fsm_cs' # "DBG_TAKEN_ID"
    BY <1>6, Moves DEF WaitSleep, Sleep, KeepModes, CsrKeep
  <2>2. instr_valid_id_q' = FALSE /\ fetch_addr' = fetch_addr
    BY <1>6, Sleeping DEF Emptied
  <2> QED BY <1>2, <1>4, <2>1, <2>2, Types DEF csrVars, IInv
<1>7. CASE ctrl_fsm_cs = "FIRST_FETCH"
  <2>1. /\ nmi_mode_q' = nmi_mode_q /\ debug_mode_q' = debug_mode_q /\ UNCHANGED csrVars
        /\ ctrl_fsm_cs' # "DBG_TAKEN_ID"
    BY <1>7, Moves DEF FirstFetch, KeepModes, CsrKeep
  <2>2. Refilled
    BY <1>7, Fetching
  <2> QED BY <1>2, <1>3, <2>1, <2>2, Types DEF csrVars, IInv
<1>8. CASE ctrl_fsm_cs = "IRQ_TAKEN"
  <2>1. ctrl_fsm_cs' = "DECODE" /\ debug_mode_q' = debug_mode_q /\ ~debug_mode_q
    BY <1>8, Moves DEF IrqTaken, IInv, Leaving
  <2>2. CASE handle_irq(i)
    <3>1. ~nmi_mode_q
      BY <2>2, Flops
    <3>2. "nm" \in lines /\ priv_lvl_q' = "M"
      BY <1>8, <2>2, <3>1, Moves, Wires DEF IrqTaken, SaveTrap
    <3>3. fetch_addr' = NmiVector /\ instr_valid_id_q' = FALSE
      BY <1>8, <2>2, <3>2, Interrupting DEF Emptied
    <3> QED BY <2>1, <3>2, <3>3 DEF NmiVector, Region
  <2>3. CASE ~handle_irq(i)
    <3>1. nmi_mode_q /\ UNCHANGED csrVars
      BY <1>8, <2>3, Moves DEF IrqTaken, CsrKeep
    <3>2. Refilled
      BY <1>8, <2>3, Interrupting
    <3> QED BY <1>3, <2>1, <3>1, <3>2 DEF csrVars
  <2> QED BY <2>2, <2>3
<1>9. CASE ctrl_fsm_cs = "DBG_TAKEN_IF"
  <2>1. nmi_mode_q /\ debug_mode_q' = TRUE /\ ~debug_mode_q
    BY <1>9, Moves DEF DbgTakenIf, IInv, Leaving
  <2>2. depc_q' = fetch_addr /\ dcsr_q'.prv = priv_lvl_q
    <3>1. dcsr_q \in Dcsr
      BY CsrTypes DEF IInv, InvType, TypeOK
    <3>2. PICK cause : SaveDebug(fetch_addr, cause)
      BY <1>9, Moves, Wires DEF DbgTakenIf
    <3> QED BY <3>1, <3>2 DEF SaveDebug, Dcsr
  <2> QED BY <2>1, <2>2 DEF InHandler
<1>10. CASE ctrl_fsm_cs = "DBG_TAKEN_ID"
  <2>1. nmi_mode_q
    BY <1>10, Moves DEF DbgTakenId
  <2>2. debug_mode_q
    BY <1>10, <2>1, HandlerRuns
  <2>3. debug_mode_q' = TRUE /\ UNCHANGED csrVars
    BY <1>10, <2>2, Moves DEF DbgTakenId, CsrKeep
  <2> QED BY <2>1, <2>2, <2>3 DEF csrVars, InHandler
<1>11. CASE ctrl_fsm_cs = "DECODE"
  <2>1. /\ nmi_mode_q /\ debug_mode_q' = debug_mode_q /\ priv_lvl_q' = priv_lvl_q /\ depc_q' = depc_q
        /\ ctrl_fsm_cs' # "DBG_TAKEN_ID"
    BY <1>11, Moves, Modes DEF Decode
  <2>2. dcsr_q'.prv = dcsr_q.prv
    <3>1. dcsr_q \in Dcsr
      BY CsrTypes DEF IInv, InvType, TypeOK
    <3>2. CASE Input(e).csr_we
      BY <1>11, <3>1, <3>2, Moves DEF Decode, WriteCsr, Dcsr
    <3>3. CASE ~Input(e).csr_we
      BY <1>11, <3>3, Moves DEF Decode, CsrKeep, csrVars
    <3> QED BY <3>2, <3>3
  <2>3. CASE debug_mode_q
    BY <1>2, <2>1, <2>2, <2>3
  <2>4. CASE ~debug_mode_q /\ ~instr_valid_id_q
    BY <1>3, <1>11, <2>1, <2>4, Waiting
  <2>5. CASE ~debug_mode_q /\ instr_valid_id_q /\ (special_req(i) \/ i.stall)
    <3>1. fetch_addr' \in {fetch_addr, Target(pc_id)} /\ pc_id' = pc_id
      BY <1>11, <2>5, Staying
    <3> QED BY <1>1, <2>1, <2>5, <3>1, Places DEF InHandler
  <2>6. CASE ~debug_mode_q /\ instr_valid_id_q /\ ~special_req(i) /\ ~i.stall
    <3>1. Refilled \/ (instr_valid_id_q' = FALSE /\ fetch_addr' = Target(pc_id))
      BY <1>11, <2>6, Done
    <3>2. CASE Refilled
      BY <1>3, <2>1, <2>6, <3>2
    <3>3. CASE instr_valid_id_q' = FALSE /\ fetch_addr' = Target(pc_id)
      BY <1>1, <2>1, <2>6, <3>3, Places DEF InHandler
    <3> QED BY <3>1, <3>2, <3>3
  <2> QED BY <2>3, <2>4, <2>5, <2>6
<1>12. CASE ctrl_fsm_cs = "FLUSH"
  <2>1. nmi_mode_q
    BY <1>12, Moves DEF FlushException, FlushEbreak, FlushMret, FlushDret, FlushOnly, KeepModes
  <2>2. instr_valid_id_q
    BY <1>12 DEF IInv, Flushed
  <2>3. CASE ~debug_mode_q
    <3>1. ~exception(i) /\ instr.kind # "dret"
      BY <1>12, <2>1, <2>2, <2>3, HandlerRuns, Exceptional DEF NmiKind, IInv, Flushed
    <3>2. FlushOnly(i)
      BY <1>12, <3>1, Moves, Wires DEF FlushException, FlushEbreak, FlushMret, FlushDret, ebreak_to_debugger, Is
    <3>3. /\ debug_mode_q' = debug_mode_q /\ priv_lvl_q' = priv_lvl_q
          /\ ctrl_fsm_cs' # "DBG_TAKEN_ID"
      BY <3>2 DEF FlushOnly, KeepModes, CsrKeep, csrVars, AfterFlush
    <3>4. instr_valid_id_q' = FALSE /\ fetch_addr' = fetch_addr
      BY <1>12, <2>2, <3>1, <3>2, Flushing, Wires DEF FlushOnly, Is
    <3> QED BY <1>4, <2>1, <2>3, <3>3, <3>4
  <2>4. CASE debug_mode_q
    <3>1. CASE FlushDret(i)
      <4>1. priv_lvl_q' = dcsr_q.prv /\ debug_mode_q' = FALSE /\ instr.kind = "dret" /\ ~exception(i)
        BY <3>1, Wires DEF FlushDret, RestoreDret, Is
      <4>2. fetch_addr' = depc_q /\ instr_valid_id_q' = FALSE
        BY <1>12, <4>1, Flushing
      <4>3. ctrl_fsm_cs' # "DBG_TAKEN_ID"
        BY <1>12, <4>1, AfterFlushing DEF ebreak_to_debugger
      <4> QED BY <2>1, <2>4, <4>1, <4>2, <4>3 DEF InHandler
    <3>2. CASE FlushException(i) \/ FlushEbreak(i) \/ FlushOnly(i)
      <4>1. debug_mode_q' = debug_mode_q /\ dcsr_q' = dcsr_q /\ depc_q' = depc_q
        BY <2>4, <3>2 DEF FlushException, FlushEbreak, FlushOnly, KeepModes, CsrKeep, csrVars, SaveInDebugMode, debugVars
      <4> QED BY <1>2, <2>1, <2>4, <4>1
    <3>3. CASE FlushMret(i)
      BY <3>3 DEF FlushMret
    <3> QED BY <1>12, <3>1, <3>2, <3>3, Moves
  <2> QED BY <2>3, <2>4
<1> QED BY <1>5, <1>6, <1>7, <1>8, <1>9, <1>10, <1>11, <1>12, Types DEF IInv, CtrlState

----------------------------------------------------------------------------
(* The refinement.  A cycle of the core is a step of the hart or none.       *)

LEMMA HartVocabulary ==
  /\ hart!Boot = Boot /\ hart!ExcVector = ExcVector /\ hart!IrqVector = IrqVector
  /\ hart!NmiVector = NmiVector /\ hart!DbgVector = DbgVector /\ hart!DbgExcVector = DbgExcVector
  /\ hart!Zero = Zero
  /\ hart!ExcCause = ExcCause /\ hart!NoPC = NoPC /\ hart!None = None
  /\ \A p : hart!After(p) = After(p) /\ hart!Target(p) = Target(p)
  /\ \A l : hart!Foremost(l) = Foremost(l)
BY DEF hart!Boot, Boot, hart!ExcVector, ExcVector, hart!IrqVector, IrqVector, hart!NmiVector, NmiVector,
   hart!DbgVector, DbgVector, hart!DbgExcVector, DbgExcVector, hart!Zero, Zero, hart!ExcCause, ExcCause, hart!NoPC, NoPC,
   hart!None, None, hart!After, After, hart!Size, Size, hart!Target, Target, hart!Foremost, Foremost

(* The registers that traps and the debugger save into are seen only through *)
(* the mapping.                                                               *)
Saved == <<scenario, priv_lvl_q, mstatus_q.mie, arch_trap, nmi_mode_q, arch_back, debug_mode_q,
           arch_dback, arch_dcsr, tmatch_q>>

LEMMA SameSaved ==
  ASSUME UNCHANGED <<scenario, csrVars, nmi_mode_q, debug_mode_q>>
  PROVE  UNCHANGED Saved
BY DEF Saved, csrVars, arch_trap, stacked, current, arch_back, arch_dback, arch_dcsr

LEMMA Stutter ==
  ASSUME UNCHANGED Saved, arch_pc' = arch_pc, arch_stepped' <=> arch_stepped
  PROVE  UNCHANGED hart!hartVars
<1>1. arch_stepped' = arch_stepped
  BY DEF arch_stepped
<1> QED BY <1>1 DEF Saved, hart!hartVars

(* With nothing in ID the hart stands where fetch does, and an instruction   *)
(* that arrives there changes nothing.                                        *)
LEMMA Arriving ==
  ASSUME IInv, NEW e \in Answer, Running(e), Refilled, ~instr_valid_id_q, UNCHANGED Saved,
         ctrl_fsm_cs \in {"FIRST_FETCH", "DECODE", "IRQ_TAKEN"},
         ctrl_fsm_cs' \in {"FIRST_FETCH", "DECODE", "IRQ_TAKEN", "DBG_TAKEN_IF"},
         instr_valid_id_q' => ctrl_fsm_cs' = "DECODE" /\ ~(do_single_step_q /\ ~debug_mode_q)
  PROVE  UNCHANGED hart!hartVars
<1>1. ~in_id /\ arch_pc = fetch_addr
  BY DEF in_id, arch_pc
<1>2. do_single_step_q' <=> do_single_step_q
  BY Flops
<1>3. debug_mode_q' = debug_mode_q
  BY Modes
<1>4. CASE instr_valid_id_q'
  <2>1. in_id' /\ pc_id' = fetch_addr
    BY <1>4 DEF in_id, Refilled
  <2> QED BY <1>1, <1>4, <2>1, Stutter DEF arch_pc, arch_stepped
<1>5. CASE ~instr_valid_id_q'
  <2>1. ~in_id' /\ fetch_addr' = fetch_addr
    BY <1>5 DEF in_id, Refilled
  <2> QED BY <1>1, <1>2, <1>3, <1>5, <2>1, Stutter DEF arch_pc, arch_stepped
<1> QED BY <1>4, <1>5

LEMMA HartStarts ==
  ASSUME IInv, NEW e \in Answer, Running(e),
         ctrl_fsm_cs \in {"RESET", "BOOT_SET", "WAIT_SLEEP", "SLEEP", "FIRST_FETCH"}
  PROVE  UNCHANGED hart!hartVars
<1>1. ~instr_valid_id_q
  BY DEF IInv, Fetched
<1>2. UNCHANGED <<scenario, csrVars, nmi_mode_q, debug_mode_q>>
  BY Moves, Edge DEF Reset, BootSet, WaitSleep, Sleep, FirstFetch, KeepModes, CsrKeep, Outside
<1>3. UNCHANGED Saved
  BY <1>2, SameSaved
<1>4. do_single_step_q' <=> do_single_step_q
  BY <1>1, Flops
<1>5. CASE ctrl_fsm_cs \in {"RESET", "BOOT_SET", "WAIT_SLEEP", "SLEEP"}
  <2>1. ~in_id /\ arch_pc = IF ctrl_fsm_cs \in {"RESET", "BOOT_SET"} THEN Boot ELSE fetch_addr
    BY <1>1, <1>5 DEF in_id, arch_pc
  <2>2. /\ instr_valid_id_q' = FALSE
        /\ fetch_addr' = IF ctrl_fsm_cs \in {"RESET", "BOOT_SET"} THEN Boot ELSE fetch_addr
    BY <1>5, Starting, Sleeping DEF Emptied
  <2>3. /\ ctrl_fsm_cs' \in {"RESET", "BOOT_SET", "FIRST_FETCH", "SLEEP"}
        /\ ctrl_fsm_cs' \in {"RESET", "BOOT_SET"} => ctrl_fsm_cs \in {"RESET", "BOOT_SET"}
    BY <1>5, Moves DEF Reset, BootSet, WaitSleep, Sleep
  <2>4. ~in_id'
    BY <2>2, <2>3 DEF in_id
  <2>5. arch_pc' = arch_pc
    BY <2>1, <2>2, <2>3, <2>4 DEF arch_pc
  <2> QED BY <1>2, <1>3, <1>4, <2>1, <2>4, <2>5, Stutter DEF arch_stepped
<1>6. CASE ctrl_fsm_cs = "FIRST_FETCH"
  <2>1. /\ Refilled
        /\ instr_valid_id_q' => ~enter_debug_mode(Input(e)) /\ ~handle_irq(Input(e)) /\ id_in_ready(Input(e))
    BY <1>6, Fetching
  <2>2. instr_valid_id_q' => ctrl_fsm_cs' = "DECODE" /\ ~(do_single_step_q /\ ~debug_mode_q)
    BY <1>1, <1>6, <2>1, Moves, Flops DEF FirstFetch
  <2>3. ctrl_fsm_cs' \in {"FIRST_FETCH", "DECODE", "IRQ_TAKEN", "DBG_TAKEN_IF"}
    BY <1>6, Moves DEF FirstFetch
  <2> QED BY <1>1, <1>3, <1>6, <2>1, <2>2, <2>3, Arriving
<1> QED BY <1>5, <1>6

LEMMA HartWaits ==
  ASSUME IInv, NEW e \in Answer, Running(e), ctrl_fsm_cs = "DECODE", ~instr_valid_id_q
  PROVE  UNCHANGED hart!hartVars
<1>1. UNCHANGED <<scenario, csrVars, nmi_mode_q, debug_mode_q>>
  BY Moves, Edge, Empty DEF Decode, KeepModes, CsrKeep, Outside
<1>2. UNCHANGED Saved
  BY <1>1, SameSaved
<1>3. Refilled /\ (instr_valid_id_q' => ~enter_debug_mode(Input(e)) /\ ~handle_irq(Input(e)))
  BY Waiting
<1>4. instr_valid_id_q' => ctrl_fsm_cs' = "DECODE" /\ ~(do_single_step_q /\ ~debug_mode_q)
  BY <1>3, Moves, Flops, Empty, Edge DEF Decode
<1>5. ctrl_fsm_cs' \in {"FIRST_FETCH", "DECODE", "IRQ_TAKEN", "DBG_TAKEN_IF"}
  BY Moves, Empty, Edge DEF Decode
<1> QED BY <1>2, <1>3, <1>4, <1>5, Arriving

(* IRQ_TAKEN: the interrupt that is pending now, or none any more.           *)
LEMMA HartInterrupted ==
  ASSUME IInv, NEW e \in Answer, Running(e), ctrl_fsm_cs = "IRQ_TAKEN"
  PROVE  hart!Interrupt \/ hart!Nmi \/ UNCHANGED hart!hartVars
<1> DEFINE i == Input(e)
<1>1. ~debug_mode_q /\ ~do_single_step_q /\ fetch_addr # tmatch_q
  BY DEF IInv, Leaving
<1>2. ~instr_valid_id_q
  BY DEF IInv, Fetched
<1>3. ~in_id /\ arch_pc = fetch_addr /\ ~arch_stepped
  BY <1>1, <1>2 DEF in_id, arch_pc, arch_stepped
<1>4. scenario' = scenario
  BY Edge DEF Outside
<1>5. ctrl_fsm_cs' = "DECODE" /\ debug_mode_q' = debug_mode_q
  BY Moves DEF IrqTaken
<1>6. ~do_single_step_q'
  BY <1>1, <1>2, Flops
<1>7. CASE ~handle_irq(i)
  <2>1. UNCHANGED <<csrVars, nmi_mode_q>>
    BY <1>7, Moves, Types DEF IrqTaken, CsrKeep, IInv
  <2>2. UNCHANGED Saved
    BY <1>4, <1>5, <2>1, SameSaved
  <2>3. Refilled
    BY <1>7, Interrupting
  <2> QED BY <1>1, <1>2, <1>5, <2>2, <2>3, Arriving
<1>8. CASE handle_irq(i)
  <2>1. /\ ~nmi_mode_q /\ ("nm" \in lines \/ (lines \ {"nm"} # {} /\ mstatus_q.mie))
        /\ nmi_mode_q' = ("nm" \in lines) /\ SaveTrap(fetch_addr, Foremost(lines))
    BY <1>8, Flops, Moves, Wires DEF IrqTaken
  <2>2. /\ instr_valid_id_q' = FALSE
        /\ fetch_addr' = IF "nm" \in lines THEN NmiVector ELSE IrqVector
    BY <1>8, Interrupting DEF Emptied
  <2>3. ~in_id' /\ arch_pc' = fetch_addr' /\ ~arch_stepped'
    BY <1>5, <1>6, <2>2 DEF in_id, arch_pc, arch_stepped
  <2>4. hart!Ready
    BY <1>1, <1>3 DEF hart!Ready
  <2>5. /\ priv_lvl_q' = "M" /\ mstatus_q'.mie = FALSE
        /\ UNCHANGED <<arch_dback, arch_dcsr, tmatch_q>>
    BY <2>1 DEF SaveTrap, debugVars, arch_dback, arch_dcsr
  <2>6. arch_stepped' = arch_stepped
    BY <1>3, <2>3 DEF arch_stepped
  <2>7. CASE "nm" \in lines
    <3>1. arch_trap' = arch_trap
      BY <2>1, <2>7 DEF SaveTrap, arch_trap, stacked, current
    <3>2. arch_back' = [pc |-> arch_pc, priv |-> priv_lvl_q, mie |-> mstatus_q.mie]
      BY <1>3, <2>1, <2>7 DEF SaveTrap, arch_back
    <3> QED BY <1>1, <1>4, <1>5, <2>1, <2>2, <2>3, <2>4, <2>5, <2>6, <2>7, <3>1, <3>2, HartVocabulary
            DEF hart!Nmi, hart!Here
  <2>8. CASE "nm" \notin lines
    <3>1. arch_trap' = [mpie |-> mstatus_q.mie, mpp |-> priv_lvl_q, mepc |-> arch_pc, mcause |-> Foremost(lines)]
      BY <1>3, <2>1, <2>8 DEF SaveTrap, arch_trap, current
    <3>2. arch_back' = arch_back /\ nmi_mode_q' = nmi_mode_q
      BY <2>1, <2>8, Types DEF arch_back, IInv
    <3>3. mstatus_q.mie /\ lines # {}
      BY <2>1, <2>8
    <3> QED BY <1>1, <1>4, <1>5, <2>1, <2>2, <2>3, <2>4, <2>5, <2>6, <2>8, <3>1, <3>2, <3>3, HartVocabulary
            DEF hart!Interrupt, hart!EnterTrap
  <2> QED BY <2>7, <2>8
<1> QED BY <1>7, <1>8

(* DBG_TAKEN_IF: the hart halts before the next instruction.                 *)
LEMMA HartHalts ==
  ASSUME IInv, NEW e \in Answer, Running(e), ctrl_fsm_cs = "DBG_TAKEN_IF"
  PROVE  hart!Halt
<1> DEFINE i == Input(e)
           cause == CASE fetch_addr = tmatch_q -> "trigger"
                      [] fetch_addr # tmatch_q /\ debug_req -> "haltreq"
                      [] OTHER -> "step"
<1>1. ~debug_mode_q /\ (fetch_addr = tmatch_q \/ debug_req \/ do_single_step_q)
  BY DEF IInv, Leaving
<1>2. do_single_step_q => dcsr_q.step
  BY <1>1 DEF IInv, Leaving
<1>3. ~instr_valid_id_q
  BY DEF IInv, Fetched
<1>4. ~in_id /\ arch_pc = fetch_addr /\ (arch_stepped <=> do_single_step_q) /\ arch_dcsr.step = dcsr_q.step
  BY <1>1, <1>3 DEF in_id, arch_pc, arch_stepped, arch_dcsr
<1>5. /\ ctrl_fsm_cs' = "DECODE" /\ debug_mode_q' = TRUE /\ nmi_mode_q' = nmi_mode_q
      /\ SaveDebug(fetch_addr, cause)
  BY Moves, Wires DEF DbgTakenIf, trigger_match
<1>6. instr_valid_id_q' = FALSE /\ fetch_addr' = DbgVector
  BY Halting DEF Emptied
<1>7. ~in_id' /\ arch_pc' = DbgVector /\ arch_stepped' = FALSE
  BY <1>5, <1>6 DEF in_id, arch_pc, arch_stepped
<1>8. scenario' = scenario
  BY Edge DEF Outside
<1> HIDE DEF cause
<1>9. /\ priv_lvl_q' = "M" /\ UNCHANGED <<mstatus_q, mepc_q, mcause_q, mstack_q, tmatch_q>>
      /\ dcsr_q' = [dcsr_q EXCEPT !.prv = priv_lvl_q, !.cause = cause] /\ depc_q' = fetch_addr
  BY <1>5 DEF SaveDebug, trapVars
<1>10. dcsr_q \in Dcsr
  BY CsrTypes DEF IInv, InvType, TypeOK
<1>11. arch_dback' = [pc |-> fetch_addr, priv |-> priv_lvl_q] /\ arch_dcsr' = [arch_dcsr EXCEPT !.cause = cause]
  <2>1. dcsr_q'.prv = priv_lvl_q /\ dcsr_q'.cause = cause
        /\ dcsr_q'.step = dcsr_q.step /\ dcsr_q'.ebreakm = dcsr_q.ebreakm
    BY <1>9, <1>10 DEF Dcsr
  <2> QED BY <1>9, <2>1 DEF arch_dback, arch_dcsr
<1>12. arch_trap' = arch_trap /\ arch_back' = arch_back
  BY <1>5, <1>9 DEF arch_trap, stacked, current, arch_back
<1>13. hart!EnterDebug(cause)
  BY <1>4, <1>5, <1>7, <1>8, <1>9, <1>11, <1>12, HartVocabulary DEF hart!EnterDebug
<1> QED BY <1>1, <1>2, <1>4, <1>13 DEF hart!Halt, cause

(* DBG_TAKEN_ID: an ebreak halts the hart, or starts the debugger over.      *)
LEMMA HartBreaks ==
  ASSUME IInv, NEW e \in Answer, Running(e), ctrl_fsm_cs = "DBG_TAKEN_ID"
  PROVE  hart!Ebreak \/ hart!DebugEbreak
<1> DEFINE i == Input(e)
<1>1. /\ "ebreak" \in scenario.code[pc_id]
      /\ debug_mode_q \/ (ebreak_into_debug /\ pc_id # tmatch_q)
  BY DEF IInv, Leaving
<1>2. in_id /\ arch_pc = pc_id /\ arch_stepped = FALSE
  BY DEF in_id, arch_pc, arch_stepped
<1>3. /\ ctrl_fsm_cs' = "DECODE" /\ debug_mode_q' = TRUE /\ nmi_mode_q' = nmi_mode_q
      /\ IF debug_mode_q THEN CsrKeep ELSE SaveDebug(pc_id, "ebreak")
  BY <1>1, Moves, Wires DEF DbgTakenId
<1>4. instr_valid_id_q' = FALSE /\ fetch_addr' = DbgVector
  BY Halting DEF Emptied
<1>5. ~in_id' /\ arch_pc' = DbgVector /\ arch_stepped' = FALSE
  BY <1>3, <1>4 DEF in_id, arch_pc, arch_stepped
<1>6. scenario' = scenario
  BY Edge DEF Outside
<1>7. CASE debug_mode_q
  <2>1. UNCHANGED <<scenario, csrVars, nmi_mode_q, debug_mode_q>>
    BY <1>3, <1>6, <1>7, Types DEF CsrKeep, IInv
  <2>2. UNCHANGED Saved
    BY <2>1, SameSaved
  <2> QED BY <1>1, <1>2, <1>5, <1>7, <2>2, HartVocabulary DEF hart!DebugEbreak, Saved
<1>8. CASE ~debug_mode_q
  <2>1. /\ priv_lvl_q' = "M" /\ UNCHANGED <<mstatus_q, mepc_q, mcause_q, mstack_q, tmatch_q>>
        /\ dcsr_q' = [dcsr_q EXCEPT !.prv = priv_lvl_q, !.cause = "ebreak"] /\ depc_q' = pc_id
    BY <1>3, <1>8 DEF SaveDebug, trapVars
  <2>2. dcsr_q \in Dcsr
    BY CsrTypes DEF IInv, InvType, TypeOK
  <2>3. arch_dback' = [pc |-> pc_id, priv |-> priv_lvl_q] /\ arch_dcsr' = [arch_dcsr EXCEPT !.cause = "ebreak"]
    <3>1. dcsr_q'.prv = priv_lvl_q /\ dcsr_q'.cause = "ebreak"
          /\ dcsr_q'.step = dcsr_q.step /\ dcsr_q'.ebreakm = dcsr_q.ebreakm
      BY <2>1, <2>2 DEF Dcsr
    <3> QED BY <2>1, <3>1 DEF arch_dback, arch_dcsr
  <2>4. arch_trap' = arch_trap /\ arch_back' = arch_back
    BY <1>3, <2>1 DEF arch_trap, stacked, current, arch_back
  <2>5. hart!EnterDebug("ebreak")
    BY <1>2, <1>3, <1>5, <1>6, <2>1, <2>3, <2>4, HartVocabulary DEF hart!EnterDebug
  <2>6. priv_lvl_q = "M" /\ arch_dcsr.ebreakm
    BY <1>1, <1>8 DEF ebreak_into_debug, arch_dcsr
  <2> QED BY <1>1, <1>2, <1>8, <2>5, <2>6 DEF hart!Ebreak, hart!Ready
<1> QED BY <1>7, <1>8

(* FLUSH takes the instruction out of ID.                                    *)
LEMMA HartFlushed ==
  ASSUME IInv, NEW e \in Answer, Running(e), ctrl_fsm_cs = "FLUSH"
  PROVE  /\ instr_valid_id_q /\ instr.kind \in scenario.code[pc_id]
         /\ in_id <=> exception(Input(e)) \/ instr.kind \in {"mret", "dret"}
         /\ arch_pc = IF in_id THEN pc_id ELSE fetch_addr
         /\ in_id => hart!Ready
         /\ scenario' = scenario
         /\ do_single_step_q <=> ~debug_mode_q /\ dcsr_q.step
         /\ ~ebreak_to_debugger(Input(e)) =>
              /\ ~in_id' /\ arch_pc' = fetch_addr'
              /\ ~debug_mode_q \/ debug_mode_q' = debug_mode_q =>
                   arch_stepped' = (dcsr_q.step /\ ~debug_mode_q)
<1> DEFINE i == Input(e)
<1>1. instr_valid_id_q /\ (do_single_step_q <=> ~debug_mode_q /\ dcsr_q.step)
  BY DEF IInv, Flushed
<1>2. instr.kind \in scenario.code[pc_id] /\ (~debug_mode_q => pc_id # tmatch_q)
  BY <1>1 DEF IInv, Fetched
<1>3. in_id <=> exception(i) \/ instr.kind \in {"mret", "dret"}
  BY <1>1 DEF in_id, exception
<1>4. arch_pc = IF in_id THEN pc_id ELSE fetch_addr
  BY DEF arch_pc
<1>5. in_id => hart!Ready
  <2>1. in_id => ~arch_stepped
    BY DEF arch_stepped
  <2> QED BY <1>2, <1>4, <2>1 DEF hart!Ready
<1>6. scenario' = scenario
  BY Edge DEF Outside
<1>7. ASSUME ~ebreak_to_debugger(i)
      PROVE  /\ ~in_id' /\ arch_pc' = fetch_addr'
             /\ ~debug_mode_q \/ debug_mode_q' = debug_mode_q =>
                  arch_stepped' = (dcsr_q.step /\ ~debug_mode_q)
  <2>1. ctrl_fsm_cs' \in {"DECODE", "DBG_TAKEN_IF", "WAIT_SLEEP"}
    BY <1>7, AfterFlushing
  <2>2. instr_valid_id_q' = FALSE
    BY Flushing
  <2>3. ~in_id' /\ arch_pc' = fetch_addr'
    BY <2>1, <2>2 DEF in_id, arch_pc
  <2>4. do_single_step_q' <=> ~debug_mode_q /\ dcsr_q.step
    BY <1>1, AfterFlushing
  <2>5. ~debug_mode_q => debug_mode_q' = FALSE
    BY Modes
  <2>6. ~debug_mode_q \/ debug_mode_q' = debug_mode_q =>
          (arch_stepped' <=> dcsr_q.step /\ ~debug_mode_q)
    BY <2>3, <2>4, <2>5 DEF arch_stepped
  <2> QED BY <2>3, <2>6 DEF arch_stepped
<1> QED BY <1>1, <1>2, <1>3, <1>4, <1>5, <1>6, <1>7

LEMMA CauseOfTrap ==
  ASSUME IInv, NEW e \in Answer, Running(e), ctrl_fsm_cs = "FLUSH", exception(Input(e))
  PROVE  exc_cause(Input(e)) \in hart!Causes(instr.kind) \cap hart!ExcCause
<1> DEFINE i == Input(e)
<1>1. exc_cause(i) \in hart!ExcCause
  BY Causes, HartVocabulary
<1>2. instr_valid_id_q /\ (Raises \/ load_err_q \/ store_err_q)
  BY Exceptional DEF IInv, Flushed
<1>0. i.instr_valid = instr_valid_id_q /\ i.fetch_err = instr.fetch_err /\ i.kind = instr.kind
  BY Wires
<1>3. CASE instr.fetch_err
  <2>1. i.instr_valid /\ i.fetch_err
    BY <1>0, <1>2, <1>3
  <2>2. exc_cause(i) = "insn_fault"
    BY <2>1 DEF exc_cause
  <2> QED BY <1>1, <2>2 DEF hart!Causes
<1>4. CASE ~instr.fetch_err /\ hart!Illegal(instr.kind)
  <2>1. illegal_insn_q
    BY <1>4 DEF IInv, Flushed
  <2>2. ~(i.instr_valid /\ i.fetch_err)
    BY <1>0, <1>4
  <2>3. exc_cause(i) = "illegal"
    BY <2>1, <2>2 DEF exc_cause
  <2> QED BY <1>1, <1>4, <2>3, IllegalKinds DEF hart!Causes
<1>5. CASE ~instr.fetch_err /\ ~hart!Illegal(instr.kind)
  <2>1. ~illegal_insn_q
    BY <1>5 DEF IInv, Flushed
  <2>2. /\ load_err_q => instr.kind = "load"
        /\ store_err_q => instr.kind = "store"
        /\ instr.kind \in {"ecall", "ebreak", "load", "store"}
    BY <1>2, <1>5 DEF Raises, IInv, Flushed
  <2>3. /\ instr.kind = "ecall" => exc_cause(i) = IF priv_lvl_q = "M" THEN "ecall_m" ELSE "ecall_u"
        /\ instr.kind = "ebreak" => exc_cause(i) = "breakpoint"
        /\ instr.kind = "load" => exc_cause(i) = "load_fault"
        /\ instr.kind = "store" => exc_cause(i) = "store_fault"
    BY <1>2, <1>5, <2>1, <2>2, Wires DEF exc_cause, Is, Raises
  <2> QED BY <1>1, <1>5, <2>2, <2>3 DEF hart!Causes
<1> QED BY <1>3, <1>4, <1>5

LEMMA HartTraps ==
  ASSUME NmiHandlersDoNotTrap, IInv, InHandler, NEW e \in Answer, Running(e), ctrl_fsm_cs = "FLUSH",
         exception(Input(e)), ~ebreak_to_debugger(Input(e))
  PROVE  \E cause \in hart!ExcCause :
           hart!Exception(instr.kind, cause) \/ hart!DebugException(instr.kind, cause)
<1> DEFINE i == Input(e)
<1>1. PICK cause \in hart!ExcCause : cause = exc_cause(i) /\ cause \in hart!Causes(instr.kind)
  BY CauseOfTrap
<1>2. /\ debug_mode_q' = debug_mode_q /\ nmi_mode_q' = nmi_mode_q
      /\ IF debug_mode_q THEN SaveInDebugMode ELSE SaveTrap(pc_id, cause)
  BY <1>1, Moves, Wires DEF FlushException, FlushEbreak, FlushMret, FlushDret, FlushOnly, KeepModes
<1>3. fetch_addr' = IF debug_mode_q THEN DbgExcVector ELSE ExcVector
  BY Flushing
<1>4. /\ in_id /\ arch_pc = pc_id /\ hart!Ready /\ scenario' = scenario
      /\ ~in_id' /\ arch_pc' = fetch_addr' /\ arch_stepped' = (dcsr_q.step /\ ~debug_mode_q)
  BY <1>2, HartFlushed
<1>5. CASE debug_mode_q
  <2>1. cause # "breakpoint"
    BY <1>1, <1>5 DEF ebreak_to_debugger
  <2>2. priv_lvl_q' = "M" /\ UNCHANGED <<mstatus_q, mepc_q, mcause_q, mstack_q, dcsr_q, depc_q, tmatch_q>>
    BY <1>2, <1>5 DEF SaveInDebugMode, trapVars, debugVars
  <2>3. UNCHANGED <<arch_trap, arch_back, arch_dback, arch_dcsr>>
    BY <1>2, <2>2 DEF arch_trap, stacked, current, arch_back, arch_dback, arch_dcsr
  <2>4. arch_stepped = FALSE /\ arch_stepped' = FALSE
    BY <1>4, <1>5, <1>2 DEF arch_stepped
  <2>5. hart!DebugException(instr.kind, cause)
    BY <1>1, <1>2, <1>3, <1>4, <1>5, <2>1, <2>2, <2>3, <2>4, HartVocabulary DEF hart!DebugException
  <2> QED BY <2>5
<1>6. CASE ~debug_mode_q
  <2>1. ~nmi_mode_q
    <3>1. instr_valid_id_q /\ (Raises \/ load_err_q \/ store_err_q)
      BY Exceptional DEF IInv, Flushed
    <3> QED BY <1>6, <3>1, HandlerRuns DEF IInv, Flushed
  <2>2. /\ priv_lvl_q' = "M" /\ mstatus_q'.mie = FALSE /\ UNCHANGED <<dcsr_q, depc_q, tmatch_q>>
        /\ mstatus_q'.mpie = mstatus_q.mie /\ mstatus_q'.mpp = priv_lvl_q
        /\ mepc_q' = pc_id /\ mcause_q' = cause
    BY <1>2, <1>6 DEF SaveTrap, debugVars
  <2>3. /\ arch_trap' = [mpie |-> mstatus_q.mie, mpp |-> priv_lvl_q, mepc |-> arch_pc, mcause |-> cause]
        /\ UNCHANGED <<arch_back, arch_dback, arch_dcsr>>
    BY <1>2, <1>4, <2>1, <2>2 DEF arch_trap, current, arch_back, arch_dback, arch_dcsr
  <2>4. hart!EnterTrap(cause, hart!ExcVector)
    BY <1>2, <1>3, <1>4, <1>6, <2>2, <2>3, HartVocabulary DEF hart!EnterTrap
  <2>5. hart!Executed
    BY <1>4 DEF hart!Executed, arch_dcsr
  <2>6. hart!Exception(instr.kind, cause)
    BY <1>1, <1>4, <1>6, <2>4, <2>5 DEF hart!Exception
  <2> QED BY <2>6
<1> QED BY <1>5, <1>6

LEMMA HartReturns ==
  ASSUME IInv, NEW e \in Answer, Running(e), ctrl_fsm_cs = "FLUSH",
         ~exception(Input(e)), instr.kind = "mret"
  PROVE  hart!Mret \/ hart!NmiReturn
<1> DEFINE i == Input(e)
<1>1. instr_valid_id_q
  BY DEF IInv, Flushed
<1>2. nmi_mode_q' = FALSE /\ debug_mode_q' = debug_mode_q /\ RestoreMret(nmi_mode_q)
  BY <1>1, Moves, Wires DEF FlushException, FlushEbreak, FlushMret, FlushDret, FlushOnly, ebreak_to_debugger, Is
<1>3. fetch_addr' = mepc_q
  BY Flushing
<1>4. ~ebreak_to_debugger(i)
  BY DEF ebreak_to_debugger
<1>5. /\ in_id /\ arch_pc = pc_id /\ hart!Ready /\ scenario' = scenario
      /\ ~in_id' /\ arch_pc' = fetch_addr' /\ arch_stepped' = (dcsr_q.step /\ ~debug_mode_q)
  BY <1>2, <1>4, HartFlushed
<1>6. ~hart!Illegal("mret")
  BY Exceptional DEF Raises
<1>7. hart!Executed
  BY <1>5 DEF hart!Executed, arch_dcsr
<1>8. /\ priv_lvl_q' = mstatus_q.mpp /\ mstatus_q'.mie = mstatus_q.mpie
      /\ UNCHANGED <<mstack_q, dcsr_q, depc_q, tmatch_q>>
  BY <1>2 DEF RestoreMret, debugVars
<1>9. arch_dback' = arch_dback /\ arch_dcsr' = arch_dcsr
  BY <1>8 DEF arch_dback, arch_dcsr
<1>10. CASE nmi_mode_q
  <2>1. /\ mstatus_q'.mpie = mstack_q.mpie /\ mstatus_q'.mpp = mstack_q.mpp
        /\ mepc_q' = mstack_q.epc /\ mcause_q' = mstack_q.cause
    BY <1>2, <1>10 DEF RestoreMret
  <2>2. arch_trap' = arch_trap
    BY <1>2, <1>10, <2>1 DEF arch_trap, stacked, current
  <2>3. arch_back' = hart!Nowhere
    BY <1>2, HartVocabulary DEF arch_back, hart!Nowhere
  <2>4. arch_back.pc = mepc_q /\ arch_back.priv = mstatus_q.mpp /\ arch_back.mie = mstatus_q.mpie
    BY <1>10 DEF arch_back
  <2>5. hart!NmiReturn
    BY <1>2, <1>3, <1>5, <1>6, <1>7, <1>8, <1>9, <1>10, <2>2, <2>3, <2>4 DEF hart!NmiReturn
  <2> QED BY <2>5
<1>11. CASE ~nmi_mode_q
  <2>1. mstatus_q'.mpie = TRUE /\ mstatus_q'.mpp = "U" /\ UNCHANGED <<mepc_q, mcause_q>>
    BY <1>2, <1>11 DEF RestoreMret
  <2>2. arch_trap' = [mpie |-> TRUE, mpp |-> "U", mepc |-> arch_trap.mepc, mcause |-> arch_trap.mcause]
    BY <1>2, <1>11, <2>1 DEF arch_trap, current
  <2>3. arch_back' = arch_back /\ nmi_mode_q' = nmi_mode_q
    BY <1>2, <1>11, Types DEF arch_back, IInv
  <2>4. arch_trap.mepc = mepc_q /\ arch_trap.mpp = mstatus_q.mpp /\ arch_trap.mpie = mstatus_q.mpie
    BY <1>11 DEF arch_trap, current
  <2>5. hart!Mret
    BY <1>2, <1>3, <1>5, <1>6, <1>7, <1>8, <1>9, <1>11, <2>2, <2>3, <2>4 DEF hart!Mret
  <2> QED BY <2>5
<1> QED BY <1>10, <1>11

LEMMA HartResumes ==
  ASSUME IInv, NEW e \in Answer, Running(e), ctrl_fsm_cs = "FLUSH",
         ~exception(Input(e)), instr.kind = "dret"
  PROVE  hart!Dret
<1> DEFINE i == Input(e)
<1>1. instr_valid_id_q
  BY DEF IInv, Flushed
<1>2. debug_mode_q' = FALSE /\ nmi_mode_q' = nmi_mode_q /\ RestoreDret
  BY <1>1, Moves, Wires DEF FlushException, FlushEbreak, FlushMret, FlushDret, FlushOnly, ebreak_to_debugger, Is
<1>3. fetch_addr' = depc_q
  BY Flushing
<1>4. ~ebreak_to_debugger(i)
  BY DEF ebreak_to_debugger
<1>5. scenario' = scenario /\ ~in_id' /\ arch_pc' = fetch_addr'
  BY <1>4, HartFlushed
<1>6. debug_mode_q
  BY Exceptional, IllegalKinds DEF Raises
<1>7. ~do_single_step_q'
  BY <1>6, HartFlushed, AfterFlushing
<1>8. arch_stepped' = FALSE
  BY <1>7 DEF arch_stepped
<1>9. priv_lvl_q' = dcsr_q.prv /\ UNCHANGED <<mstatus_q, mepc_q, mcause_q, mstack_q, dcsr_q, depc_q, tmatch_q>>
  BY <1>2 DEF RestoreDret, trapVars, debugVars
<1>10. UNCHANGED <<arch_trap, arch_back, arch_dback, arch_dcsr>>
  BY <1>2, <1>9 DEF arch_trap, stacked, current, arch_back, arch_dback, arch_dcsr
<1> QED BY <1>2, <1>3, <1>5, <1>6, <1>8, <1>9, <1>10 DEF hart!Dret, arch_dback

(* What FLUSH has left to do for a wfi, a CSR write or an ebreak that halts. *)
LEMMA HartRests ==
  ASSUME IInv, NEW e \in Answer, Running(e), ctrl_fsm_cs = "FLUSH",
         ebreak_to_debugger(Input(e)) \/ (~exception(Input(e)) /\ instr.kind \notin {"mret", "dret"})
  PROVE  UNCHANGED hart!hartVars
<1> DEFINE i == Input(e)
<1>1. instr_valid_id_q
  BY DEF IInv, Flushed
<1>2. FlushEbreak(i) \/ FlushOnly(i)
  BY <1>1, Moves, Wires DEF FlushException, FlushEbreak, FlushMret, FlushDret, FlushOnly, ebreak_to_debugger, Is
<1>3. UNCHANGED <<scenario, csrVars, nmi_mode_q, debug_mode_q>>
  BY <1>2, HartFlushed DEF FlushEbreak, FlushOnly, KeepModes, CsrKeep
<1>4. UNCHANGED Saved
  BY <1>3, SameSaved
<1>5. fetch_addr' = fetch_addr /\ pc_id' = pc_id
  BY Flushing
<1>6. CASE ebreak_to_debugger(i)
  <2>1. in_id /\ arch_pc = pc_id
    BY <1>6, HartFlushed DEF ebreak_to_debugger
  <2>2. in_id' /\ arch_pc' = pc_id'
    <3>1. ctrl_fsm_cs' = "DBG_TAKEN_ID"
      BY <1>6, AfterFlushing
    <3> QED BY <3>1 DEF in_id, arch_pc
  <2> QED BY <1>4, <1>5, <2>1, <2>2, Stutter DEF arch_stepped
<1>7. CASE ~ebreak_to_debugger(i)
  <2>1. ~in_id /\ arch_pc = fetch_addr
    BY <1>7, HartFlushed
  <2>2. ~in_id' /\ arch_pc' = fetch_addr'
    BY <1>7, HartFlushed
  <2>3. do_single_step_q' <=> do_single_step_q
    BY AfterFlushing
  <2> QED BY <1>3, <1>4, <1>5, <2>1, <2>2, <2>3, Stutter DEF arch_stepped
<1> QED BY <1>6, <1>7

(* DECODE with an instruction in ID: it stands where the hart does.          *)
LEMMA HartReady ==
  ASSUME IInv, ctrl_fsm_cs = "DECODE", instr_valid_id_q
  PROVE  /\ in_id /\ arch_pc = pc_id /\ arch_stepped = FALSE
         /\ hart!Ready /\ instr.kind \in scenario.code[pc_id]
<1>1. in_id /\ arch_pc = pc_id /\ arch_stepped = FALSE
  BY DEF in_id, arch_pc, arch_stepped
<1>2. instr.kind \in scenario.code[pc_id] /\ (~debug_mode_q => pc_id # tmatch_q)
  BY DEF IInv, Fetched
<1> QED BY <1>1, <1>2 DEF hart!Ready

(* It stays to be trapped, to return or to wait for a unit.                  *)
LEMMA HartStays ==
  ASSUME IInv, NEW e \in Answer, Running(e), ctrl_fsm_cs = "DECODE", instr_valid_id_q,
         \/ special_req_pc_change(Input(e))
         \/ ~special_req(Input(e)) /\ Input(e).stall
  PROVE  UNCHANGED hart!hartVars
<1> DEFINE i == Input(e)
<1>1. in_id /\ arch_pc = pc_id /\ arch_stepped = FALSE
  BY HartReady
<1>2. special_req_pc_change(i) => special_req(i)
  BY DEF special_req
<1>3. instr_valid_id_q' = TRUE /\ UNCHANGED <<instr, pc_id>>
  BY <1>2, Staying
<1>4. ~i.csr_we
  <2> SUFFICES ASSUME i.csr_we PROVE FALSE
    OBVIOUS
  <2>1. instr.kind \in CsrAccess /\ ~Raises
    BY Decoding, Edge
  <2>2. ~special_req_pc_change(i)
    BY <2>1, Decoding, Edge DEF Errs, CsrAccess, MachineCsr, DebugCsr
  <2>3. ~i.stall
    BY <2>1, Wires DEF CsrAccess, MachineCsr, DebugCsr, stall_id, stall_mem, lsu_req_dec, vrf_req_dec
  <2> QED BY <2>2, <2>3
<1>5. UNCHANGED <<scenario, csrVars, nmi_mode_q, debug_mode_q>>
  BY <1>4, Moves, Edge DEF Decode, KeepModes, CsrKeep, Outside
<1>6. UNCHANGED Saved
  BY <1>5, SameSaved
<1>7. in_id' /\ arch_pc' = pc_id'
  <2>1. CASE special_req_pc_change(i)
    <3>1. ctrl_fsm_cs' = "FLUSH"
      BY <1>2, <2>1, Moves DEF Decode
    <3>2. exc_req_q' \/ load_err_q' \/ store_err_q' \/ instr.kind \in {"mret", "dret"}
      BY <2>1, Decoding, Edge, Flops DEF Errs
    <3> QED BY <1>3, <3>1, <3>2 DEF in_id, arch_pc
  <2>2. CASE ~special_req(i)
    <3>1. ctrl_fsm_cs' = "DECODE"
      BY <2>2, Moves, Wires DEF Decode
    <3> QED BY <1>3, <3>1 DEF in_id, arch_pc
  <2> QED BY <2>1, <2>2
<1>8. arch_stepped' = FALSE
  BY <1>7 DEF arch_stepped
<1> QED BY <1>1, <1>3, <1>6, <1>7, <1>8, Stutter

(* A CSR instruction writes what the programmer expects and nothing else.    *)
LEMMA HartWrites ==
  ASSUME IInv, NEW e \in Answer, Running(e), ctrl_fsm_cs = "DECODE", instr_valid_id_q, ~Raises
  PROVE  /\ mstatus_q'.mie = IF instr.kind = "set_mie" THEN TRUE
                             ELSE IF instr.kind = "clear_mie" THEN FALSE ELSE mstatus_q.mie
         /\ arch_dcsr' = CASE instr.kind = "set_step" -> [arch_dcsr EXCEPT !.step = TRUE]
                           [] instr.kind = "clear_step" -> [arch_dcsr EXCEPT !.step = FALSE]
                           [] instr.kind = "set_ebreakm" -> [arch_dcsr EXCEPT !.ebreakm = TRUE]
                           [] OTHER -> arch_dcsr
         /\ tmatch_q' = IF instr.kind = "set_trigger" /\ debug_mode_q THEN scenario.trigger ELSE tmatch_q
         /\ UNCHANGED <<scenario, priv_lvl_q, arch_trap, nmi_mode_q, arch_back, debug_mode_q, arch_dback>>
<1> DEFINE kind == instr.kind
<1>1. Input(e).csr_we <=> kind \in CsrAccess
  BY Decoding, Edge
<1>2. IF kind \in CsrAccess THEN WriteCsr(kind, debug_mode_q, scenario.trigger) ELSE CsrKeep
  BY <1>1, Moves, Wires DEF Decode
<1>3. UNCHANGED <<scenario, nmi_mode_q, debug_mode_q>>
  BY Moves, Edge DEF Decode, KeepModes, Outside
<1>4. UNCHANGED <<mepc_q, mcause_q, mstack_q, priv_lvl_q, depc_q>>
  BY <1>2 DEF WriteCsr, CsrKeep, csrVars
<1>5. /\ mstatus_q \in [mie : BOOLEAN, mpie : BOOLEAN, mpp : Priv]
      /\ dcsr_q \in [step : BOOLEAN, ebreakm : BOOLEAN, prv : Priv, cause : DbgCause]
  BY DEF IInv, InvType, TypeOK, CsrTypeOK
<1>6. mstatus_q' = IF kind \in {"set_mie", "clear_mie"} THEN [mstatus_q EXCEPT !.mie = (kind = "set_mie")]
                   ELSE mstatus_q
  BY <1>2 DEF WriteCsr, CsrKeep, csrVars, CsrAccess, MachineCsr
<1>7. dcsr_q' = CASE kind \in {"set_step", "clear_step"} -> [dcsr_q EXCEPT !.step = (kind = "set_step")]
                  [] kind = "set_ebreakm" -> [dcsr_q EXCEPT !.ebreakm = TRUE]
                  [] OTHER -> dcsr_q
  BY <1>2 DEF WriteCsr, CsrKeep, csrVars, CsrAccess, DebugCsr
<1>8. tmatch_q' = IF kind = "set_trigger" /\ debug_mode_q THEN scenario.trigger ELSE tmatch_q
  BY <1>2 DEF WriteCsr, CsrKeep, csrVars, CsrAccess, MachineCsr
<1>9. /\ mstatus_q'.mie = IF kind = "set_mie" THEN TRUE ELSE IF kind = "clear_mie" THEN FALSE ELSE mstatus_q.mie
      /\ mstatus_q'.mpie = mstatus_q.mpie /\ mstatus_q'.mpp = mstatus_q.mpp
      /\ nmi_mode_q => mstatus_q'.mpie = mstatus_q.mpie
  BY <1>5, <1>6
<1>10. /\ dcsr_q'.step = IF kind = "set_step" THEN TRUE ELSE IF kind = "clear_step" THEN FALSE ELSE dcsr_q.step
       /\ dcsr_q'.ebreakm = IF kind = "set_ebreakm" THEN TRUE ELSE dcsr_q.ebreakm
       /\ dcsr_q'.prv = dcsr_q.prv /\ dcsr_q'.cause = dcsr_q.cause
  <2>1. CASE kind \in {"set_step", "clear_step"}
    BY <1>5, <1>7, <2>1
  <2>2. CASE kind = "set_ebreakm"
    BY <1>5, <1>7, <2>2
  <2>3. CASE kind \notin {"set_step", "clear_step", "set_ebreakm"}
    <3>1. dcsr_q' = dcsr_q
      BY <1>7, <2>3
    <3> QED BY <2>3, <3>1
  <2> QED BY <2>1, <2>2, <2>3
<1>11. arch_dcsr' = CASE kind = "set_step" -> [arch_dcsr EXCEPT !.step = TRUE]
                      [] kind = "clear_step" -> [arch_dcsr EXCEPT !.step = FALSE]
                      [] kind = "set_ebreakm" -> [arch_dcsr EXCEPT !.ebreakm = TRUE]
                      [] OTHER -> arch_dcsr
  <2>1. /\ arch_dcsr = [step |-> dcsr_q.step, ebreakm |-> dcsr_q.ebreakm, cause |-> dcsr_q.cause]
        /\ arch_dcsr' = [step |-> dcsr_q'.step, ebreakm |-> dcsr_q'.ebreakm, cause |-> dcsr_q'.cause]
    BY DEF arch_dcsr
  <2>2. CASE kind = "set_step"
    BY <1>10, <2>1, <2>2
  <2>3. CASE kind = "clear_step"
    BY <1>10, <2>1, <2>3
  <2>4. CASE kind = "set_ebreakm"
    BY <1>10, <2>1, <2>4
  <2>5. CASE kind \notin {"set_step", "clear_step", "set_ebreakm"}
    BY <1>10, <2>1, <2>5
  <2> QED BY <2>2, <2>3, <2>4, <2>5
<1>12. UNCHANGED <<arch_trap, arch_back, arch_dback>>
  BY <1>3, <1>4, <1>9, <1>10 DEF arch_trap, stacked, current, arch_back, arch_dback
<1> QED BY <1>3, <1>4, <1>8, <1>9, <1>11, <1>12

(* It takes effect: handed to FLUSH to restart or to sleep, or done.         *)
LEMMA HartRetires ==
  ASSUME IInv, Straight, NEW e \in Answer, Running(e), ctrl_fsm_cs = "DECODE", instr_valid_id_q,
         ~special_req_pc_change(Input(e)), special_req(Input(e)) \/ ~Input(e).stall
  PROVE  hart!Retire(instr.kind)
<1> DEFINE i == Input(e)
<1>1. in_id /\ arch_pc = pc_id /\ hart!Ready
  BY HartReady
<1>2. ~Raises /\ ~Errs(e) /\ instr.kind \notin {"mret", "dret"}
  BY Decoding, Edge
<1>3. ~hart!Illegal(instr.kind) /\ instr.kind \notin {"ecall", "ebreak", "mret", "dret"} /\ ~instr.fetch_err
  BY <1>2 DEF Raises
<1>4. do_single_step_q' <=> ~debug_mode_q /\ dcsr_q.step
  BY Flops
<1>5. debug_mode_q' = debug_mode_q
  BY Modes
<1>6. /\ arch_pc' = IF instr.kind \in {"branch", "jump"} THEN Target(pc_id) ELSE After(pc_id)
      /\ in_id' => debug_mode_q \/ ~dcsr_q.step
  <2>1. CASE special_req(i)
    <3>1. instr.kind = "wfi" \/ Restarts
      BY <2>1, Decoding, Edge
    <3>2. instr.kind \notin {"branch", "jump"}
      BY <3>1 DEF Restarts
    <3>3. ctrl_fsm_cs' = "FLUSH" /\ UNCHANGED instr
      BY <2>1, Moves, Staying DEF Decode
    <3>4. ~exc_req_q' /\ ~load_err_q' /\ ~store_err_q'
      BY <1>2, Decoding, Edge, Flops DEF Errs
    <3>5. ~in_id'
      BY <1>2, <3>3, <3>4 DEF in_id
    <3>6. fetch_addr' = fetch_addr
      BY <2>1, <3>2, Staying, Decoding, Edge
    <3>7. fetch_addr = After(pc_id)
      BY <3>2 DEF Straight
    <3> QED BY <3>2, <3>3, <3>5, <3>6, <3>7 DEF arch_pc
  <2>2. CASE ~special_req(i) /\ ~i.stall
    <3>1. ctrl_fsm_cs' = "DECODE"
      BY <2>2, Moves, Wires DEF Decode
    <3>2. instr.kind \in {"branch", "jump"} => id_fsm_q = "MULTI_CYCLE"
      <4> SUFFICES ASSUME instr.kind \in {"branch", "jump"}, id_fsm_q # "MULTI_CYCLE" PROVE FALSE
        OBVIOUS
      <4>1. instr_executing /\ id_fsm_q = "FIRST_CYCLE"
        BY <1>3, Decoding, Edge DEF IInv, InvType, TypeOK
      <4>2. id_fsm_d(e) = "MULTI_CYCLE"
        BY <4>1 DEF id_fsm_d, multi_cycle_next
      <4>3. stall_id(e)
        BY <4>1, <4>2 DEF stall_id
      <4> QED BY <2>2, <4>3, Wires
    <3>3. instr.kind = "branch" => i.branch_set
      BY <3>2, Wires DEF Straight, branch_set
    <3>4. i.branch_set => instr.kind = "branch"
      BY Decoding, Edge
    <3>5. i.jump_set => instr.kind = "jump"
      BY Decoding, Edge
    <3>6. instr.kind = "jump" => fetch_addr = Target(pc_id)
      BY <3>2 DEF Straight
    <3>7. instr.kind \notin {"branch", "jump"} => fetch_addr = After(pc_id)
      BY DEF Straight
    <3>8. CASE i.branch_set \/ i.jump_set
      <4>1. instr_valid_id_q' = FALSE /\ fetch_addr' = Target(pc_id)
        BY <2>2, <3>8, Done
      <4>2. ~in_id' /\ arch_pc' = fetch_addr'
        BY <3>1, <4>1 DEF in_id, arch_pc
      <4> QED BY <3>4, <3>5, <3>8, <4>1, <4>2
    <3>9. CASE ~(i.branch_set \/ i.jump_set)
      <4>1. Refilled /\ (instr_valid_id_q' => ~enter_debug_mode(i))
        BY <2>2, <3>9, Done
      <4>2. in_id' <=> instr_valid_id_q'
        BY <3>1 DEF in_id
      <4>3. arch_pc' = fetch_addr
        BY <3>1, <4>1, <4>2 DEF arch_pc, Refilled
      <4>4. in_id' => debug_mode_q \/ ~dcsr_q.step
        BY <4>1, <4>2, Flops
      <4> QED BY <3>3, <3>6, <3>7, <3>9, <4>3, <4>4
    <3> QED BY <3>8, <3>9
  <2> QED BY <2>1, <2>2
<1>7. arch_stepped' = (dcsr_q.step /\ ~debug_mode_q)
  BY <1>4, <1>5, <1>6 DEF arch_stepped
<1>8. hart!Executed
  BY <1>7 DEF hart!Executed, arch_dcsr
<1>9. arch_pc' = IF instr.kind \in {"branch", "jump"} THEN hart!Target(arch_pc) ELSE hart!After(arch_pc)
  BY <1>1, <1>6, HartVocabulary
<1> QED BY <1>1, <1>2, <1>3, <1>8, <1>9, HartWrites DEF hart!Retire

(* Every cycle is an action of the hart, or none.                            *)
LEMMA HartSteps ==
  ASSUME NmiHandlersDoNotTrap, IInv, Straight, InHandler, NEW e \in Answer, Running(e)
  PROVE  [hart!Next]_(hart!hartVars)
<1>1. CASE ctrl_fsm_cs \in {"RESET", "BOOT_SET", "WAIT_SLEEP", "SLEEP", "FIRST_FETCH"}
  BY <1>1, HartStarts
<1>2. CASE ctrl_fsm_cs = "IRQ_TAKEN"
  BY <1>2, HartInterrupted DEF hart!Next
<1>3. CASE ctrl_fsm_cs = "DBG_TAKEN_IF"
  BY <1>3, HartHalts DEF hart!Next
<1>4. CASE ctrl_fsm_cs = "DBG_TAKEN_ID"
  BY <1>4, HartBreaks DEF hart!Next
<1>5. CASE ctrl_fsm_cs = "DECODE" /\ ~instr_valid_id_q
  BY <1>5, HartWaits
<1>6. CASE ctrl_fsm_cs = "DECODE" /\ instr_valid_id_q
  <2>1. instr.kind \in scenario.code[arch_pc]
    BY <1>6, HartReady
  <2>2. CASE \/ special_req_pc_change(Input(e))
             \/ ~special_req(Input(e)) /\ Input(e).stall
    BY <1>6, <2>2, HartStays
  <2>3. CASE /\ ~special_req_pc_change(Input(e))
             /\ special_req(Input(e)) \/ ~Input(e).stall
    <3>1. hart!Retire(instr.kind)
      BY <1>6, <2>3, HartRetires
    <3> QED BY <2>1, <3>1 DEF hart!Next, hart!Instruction
  <2> QED BY <2>2, <2>3
<1>7. CASE ctrl_fsm_cs = "FLUSH"
  <2>1. in_id => instr.kind \in scenario.code[arch_pc]
    BY <1>7, HartFlushed
  <2>2. CASE exception(Input(e)) /\ ~ebreak_to_debugger(Input(e))
    <3>1. PICK cause \in hart!ExcCause :
            hart!Exception(instr.kind, cause) \/ hart!DebugException(instr.kind, cause)
      BY <1>7, <2>2, HartTraps
    <3>2. hart!Instruction(instr.kind)
      BY <3>1 DEF hart!Instruction
    <3>3. instr.kind \in scenario.code[arch_pc]
      BY <1>7, <2>1, <2>2, HartFlushed
    <3> QED BY <3>2, <3>3 DEF hart!Next
  <2>3. CASE ~exception(Input(e)) /\ instr.kind = "mret"
    <3>1. hart!Mret \/ hart!NmiReturn
      BY <1>7, <2>3, HartReturns
    <3>2. instr.kind \in scenario.code[arch_pc]
      BY <1>7, <2>1, <2>3, HartFlushed
    <3> QED BY <2>3, <3>1, <3>2 DEF hart!Next, hart!Instruction
  <2>4. CASE ~exception(Input(e)) /\ instr.kind = "dret"
    <3>1. hart!Dret
      BY <1>7, <2>4, HartResumes
    <3>2. instr.kind \in scenario.code[arch_pc]
      BY <1>7, <2>1, <2>4, HartFlushed
    <3> QED BY <2>4, <3>1, <3>2 DEF hart!Next, hart!Instruction
  <2>5. CASE \/ ebreak_to_debugger(Input(e))
             \/ ~exception(Input(e)) /\ instr.kind \notin {"mret", "dret"}
    BY <1>7, <2>5, HartRests
  <2> QED BY <2>2, <2>3, <2>4, <2>5
<1> QED BY <1>1, <1>2, <1>3, <1>4, <1>5, <1>6, <1>7, Types DEF IInv, CtrlState

(* A stopped core does not move.                                             *)
LEMMA HartStopped ==
  ASSUME Stopped \/ UNCHANGED vars
  PROVE  UNCHANGED hart!hartVars
<1>1. UNCHANGED <<scenario, csrVars, nmi_mode_q, debug_mode_q>>
  BY DEF Stopped, Outside, coreVars, ctrlVars, vars
<1>2. UNCHANGED <<ctrl_fsm_cs, instr_valid_id_q, instr, pc_id, fetch_addr, exc_req_q, load_err_q,
                  store_err_q, do_single_step_q>>
  BY DEF Stopped, coreVars, ctrlVars, ifVars, vars
<1>3. in_id' <=> in_id
  BY <1>2 DEF in_id
<1>4. arch_pc' = arch_pc /\ (arch_stepped' <=> arch_stepped)
  BY <1>1, <1>2, <1>3 DEF arch_pc, arch_stepped
<1> QED BY <1>1, <1>4, SameSaved, Stutter

LEMMA HartInit ==
  Init => hart!Init
<1> SUFFICES ASSUME Init PROVE hart!Init
  OBVIOUS
<1>1. /\ arch_pc = Boot /\ arch_stepped = FALSE
      /\ priv_lvl_q = "M" /\ mstatus_q.mie = FALSE /\ tmatch_q = NoPC
      /\ nmi_mode_q = FALSE /\ debug_mode_q = FALSE
  BY DEF Init, CtrlInit, CsrInit, arch_pc, arch_stepped
<1>2. /\ arch_trap = [mpie |-> FALSE, mpp |-> "M", mepc |-> Zero, mcause |-> None]
      /\ arch_back = [pc |-> Boot, priv |-> "M", mie |-> FALSE]
      /\ arch_dback = [pc |-> Zero, priv |-> "M"]
      /\ arch_dcsr = [step |-> FALSE, ebreakm |-> FALSE, cause |-> None]
  BY DEF Init, CtrlInit, CsrInit, arch_trap, current, arch_back, arch_dback, arch_dcsr
<1> QED BY <1>1, <1>2, HartVocabulary DEF hart!Init, hart!Nowhere

(* The theorem ImplementsHart asks for, in every scenario without misgrouped *)
(* registers whose NMI handlers do not trap: the cycles of the core, with      *)
(* whatever instruction fetch, the units, the interrupt lines and the           *)
(* debugger do, are instructions, traps and returns in program order.            *)
THEOREM Implements ==
  ASSUME NoMisgrouped, NmiHandlersDoNotTrap
  PROVE  Spec => ImplementsHart
<1>1. Init => Straight /\ InHandler
  BY DEF Init, CtrlInit, Straight, InHandler
<1>2. IInv /\ Straight /\ InHandler /\ [Next]_vars => (Straight /\ InHandler)'
  <2> SUFFICES ASSUME IInv, Straight, InHandler, [Next]_vars
               PROVE  Straight' /\ InHandler'
    OBVIOUS
  <2>1. CASE UNCHANGED vars \/ Stopped
    BY <2>1 DEF Straight, InHandler, vars, Stopped, Outside, coreVars, ctrlVars, csrVars, ifVars, idVars
  <2>2. ASSUME NEW e \in Answer, Running(e)
        PROVE  Straight' /\ InHandler'
    BY <2>2, StepStraight, StepHandler
  <2> QED BY <2>1, <2>2 DEF Next
<1>3. IInv /\ Straight /\ InHandler /\ [Next]_vars => [hart!Next]_(hart!hartVars)
  <2> SUFFICES ASSUME IInv, Straight, InHandler, [Next]_vars
               PROVE  [hart!Next]_(hart!hartVars)
    OBVIOUS
  <2>1. CASE UNCHANGED vars \/ Stopped
    BY <2>1, HartStopped
  <2>2. ASSUME NEW e \in Answer, Running(e)
        PROVE  [hart!Next]_(hart!hartVars)
    BY <2>2, HartSteps
  <2> QED BY <2>1, <2>2 DEF Next
<1> QED BY <1>1, <1>2, <1>3, HartInit, Invariance, PTL DEF Spec, ImplementsHart, hart!Spec
=============================================================================
