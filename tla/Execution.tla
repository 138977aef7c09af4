------------------------------- MODULE Execution -------------------------------
(***************************************************************************)
(* The ID stage with its two-state FSM, the IF/ID pipeline register, the      *)
(* controller and the trap registers, and around them instruction fetch, the   *)
(* load/store unit, the interrupt lines and the debugger.  One step of Next     *)
(* is one edge of the free-running clock; the core sees it if its gate is open.  *)
(* Fetch is what InstructionStream promises: the instructions in order from the   *)
(* last redirect on, each after some time.                                          *)
(***************************************************************************)
EXTENDS Controller

CONSTANT Scenarios    \* programs and their environments, see ScenarioType

VARIABLES scenario,
          lines, debug_req,            \* interrupt lines masked by mie, and the debugger's line
          fetch_enable_q, core_busy_q, \* of the clock gate
          fetch_valid, fetch_addr,     \* the output of instruction fetch
          instr_valid_id_q, instr, pc_id,  \* the IF/ID pipeline register
          id_fsm_q, branch_set_raw_q, branch_jump_set_done_q,
          lsu_waits,                   \* the kind of access the load/store unit is busy with
          monitor                      \* the state the controller's assertions keep

ifVars == <<fetch_valid, fetch_addr, instr_valid_id_q, instr, pc_id>>
idVars == <<id_fsm_q, branch_set_raw_q, branch_jump_set_done_q, lsu_waits>>
coreVars == <<ctrlVars, csrVars, ifVars, idVars, monitor>>
vars == <<coreVars, scenario, lines, debug_req, fetch_enable_q, core_busy_q>>

(* What may stand at each address, and what may happen to the program:        *)
(* lines that may rise, and withdrawn ones; faults; a debugger that halts the  *)
(* core and the breakpoint it may set; tw of mstatus.                            *)
ScenarioType == [code : [PC -> SUBSET Kind], lines : SUBSET Line, withdraw : BOOLEAN,
                 faults : BOOLEAN, debugger : BOOLEAN, trigger : PC, tw : BOOLEAN]

ASSUME ScenariosAssumption == Scenarios \subseteq ScenarioType

(* A vector instruction on a misaligned register group leaves the FSM of the *)
(* ID stage behind: a program without one is asked for where that matters.    *)
NoMisgrouped == \A s \in Scenarios : \A p \in PC : "misgrouped" \notin s.code[p]

(* An exception in an NMI handler would overwrite what its mret restores: no *)
(* instruction of a handler traps, nor does a debugger's register appear.      *)
NmiKind == Kind \ {"illegal", "misgrouped", "ecall", "ebreak", "dret", "set_step", "clear_step", "set_ebreakm"}
NmiHandlersDoNotTrap == \A s \in Scenarios : \A p \in PC : Region(p) = "nmi" => s.code[p] \subseteq NmiKind

(* Within an NMI handler nothing fails.                                      *)
may_fail(pc) == scenario.faults /\ Region(pc) # "nmi"

----------------------------------------------------------------------------
(* Wires of the ID stage.  e holds the answers of the units in this cycle:    *)
(* resp of the load/store unit, ex_valid of the multiplier, vector_done.        *)
lsu_req_dec == instr.kind \in {"load", "store"}
vrf_req_dec == instr.kind \in {"vector", "misgrouped"}

instr_executing == instr_valid_id_q /\ ~instr.fetch_err /\ controller_run
instr_first_cycle == instr_valid_id_q /\ id_fsm_q = "FIRST_CYCLE"
lsu_req == instr_executing /\ instr_first_cycle /\ lsu_req_dec

ex_valid(e) == instr.kind = "mul" => e.ex_valid
M_multicycle_done_ok(e) ==
  IF lsu_req_dec THEN e.resp = "ok"
  ELSE IF vrf_req_dec /\ instr_executing THEN e.vector_done ELSE ex_valid(e)
M_multicycle_done_lsu(e) == IF lsu_req_dec \/ vrf_req_dec THEN e.resp # None ELSE ex_valid(e)

multicycle_done(e) == IF lsu_req_dec THEN e.resp # None
                      ELSE IF vrf_req_dec /\ instr_executing THEN e.vector_done ELSE ex_valid(e)

multi_cycle_next(e) ==
  \/ lsu_req_dec \/ instr.kind \in {"branch", "jump"}
  \/ instr.kind = "mul" /\ ~ex_valid(e)
  \/ vrf_req_dec
id_fsm_d(e) ==
  CASE ~instr_executing -> id_fsm_q
    [] instr_executing /\ id_fsm_q = "FIRST_CYCLE" ->
         IF multi_cycle_next(e) THEN "MULTI_CYCLE" ELSE "FIRST_CYCLE"
    [] OTHER -> IF multicycle_done(e) THEN "FIRST_CYCLE" ELSE "MULTI_CYCLE"

stall_mem(e) == instr_valid_id_q /\ lsu_req_dec /\ (e.resp = None \/ instr_first_cycle)
stall_id(e) ==
  \/ stall_mem(e)
  \/ /\ instr_executing /\ id_fsm_d(e) = "MULTI_CYCLE"
     /\ instr.kind \in {"mul", "branch", "jump"} \/ vrf_req_dec

branch_set_raw_d == instr_executing /\ id_fsm_q = "FIRST_CYCLE" /\ instr.kind = "branch"
jump_set_raw == instr_executing /\ id_fsm_q = "FIRST_CYCLE" /\ instr.kind = "jump"
branch_set == branch_set_raw_q /\ ~branch_jump_set_done_q
jump_set == jump_set_raw /\ ~branch_jump_set_done_q

illegal_csr_insn == illegal_csr(instr.kind, debug_mode_q)
illegal_insn ==
  \/ instr_valid_id_q /\ (illegal_csr_insn \/ instr.kind = "illegal")
  \/ vrf_req_dec /\ instr_executing /\ instr.kind = "misgrouped"

csr_op_en(e) == instr.kind \in CsrAccess /\ instr_executing /\ ~stall_id(e)
(* Writes and sets of mstatus, and clears of the debugger's registers.       *)
csr_pipe_flush(e) == csr_op_en(e) /\ instr.kind \in {"set_mie", "clear_step"}

Input(e) ==
  [instr_valid |-> instr_valid_id_q, kind |-> instr.kind, fetch_err |-> instr.fetch_err,
   illegal_insn |-> illegal_insn, csr_pipe_flush |-> csr_pipe_flush(e),
   csr_we |-> csr_op_en(e) /\ ~illegal_csr_insn, breakpoint |-> scenario.trigger,
   stall |-> stall_id(e), branch_set |-> branch_set, jump_set |-> jump_set,
   load_err |-> e.resp = "err" /\ lsu_waits = "load",
   store_err |-> e.resp = "err" /\ lsu_waits = "store",
   pc_if |-> fetch_addr, pc_id |-> pc_id, lines |-> lines, debug_req |-> debug_req,
   tw |-> scenario.tw, fetch_enable |-> fetch_enable_q]

----------------------------------------------------------------------------
Init ==
  /\ scenario \in Scenarios
  /\ CtrlInit /\ CsrInit
  /\ lines = {} /\ debug_req = FALSE
  /\ fetch_enable_q = FALSE /\ core_busy_q = FALSE
  /\ fetch_valid = FALSE /\ fetch_addr = Boot
  /\ instr_valid_id_q = FALSE /\ pc_id = Boot
  /\ instr = [kind |-> "alu", fetch_err |-> FALSE]
  /\ id_fsm_q = "FIRST_CYCLE" /\ branch_set_raw_q = FALSE /\ branch_jump_set_done_q = FALSE
  /\ lsu_waits = None
  /\ monitor = [pending |-> FALSE, expect |-> FALSE, seen |-> FALSE, twice |-> FALSE, unasked |-> FALSE]

(* The answer of the load/store unit comes a cycle after the request or      *)
(* later, and a fault only where something can fail.                          *)
Answers(e) ==
  /\ e.resp # None => lsu_waits # None
  /\ e.resp = "err" => may_fail(pc_id)
  /\ e.ex_valid => instr.kind = "mul"
  /\ e.vector_done => (vrf_req_dec /\ instr_executing)

IdCycle(i, e) ==
  /\ id_fsm_q' = id_fsm_d(e)
  /\ branch_set_raw_q' = branch_set_raw_d
  /\ branch_jump_set_done_q' = ((branch_set_raw_q \/ jump_set_raw \/ branch_jump_set_done_q)
                                  /\ ~instr_valid_clear(i))
  /\ lsu_waits' = IF lsu_req THEN instr.kind ELSE IF e.resp # None THEN None ELSE lsu_waits

(* The pipeline register takes what fetch has, but an instruction that meets *)
(* a redirect is squashed.                                                    *)
IfCycle(i) ==
  LET new == fetch_valid /\ id_in_ready(i)
  IN  /\ instr_valid_id_q' = ((new /\ ~pc_set(i)) \/ (instr_valid_id_q /\ ~instr_valid_clear(i)))
      /\ IF new THEN /\ pc_id' = fetch_addr
                     /\ instr' \in [kind : scenario.code[fetch_addr],
                                    fetch_err : {FALSE, may_fail(fetch_addr)}]
                ELSE UNCHANGED <<instr, pc_id>>
      /\ fetch_addr' = IF pc_set(i) THEN redirect(i)[2] ELSE IF new THEN After(fetch_addr) ELSE fetch_addr
      /\ IF fetch_valid /\ ~new /\ ~pc_set(i) THEN fetch_valid' = TRUE ELSE fetch_valid' \in BOOLEAN

----------------------------------------------------------------------------
(* The tracking logic behind the assertions of the controller: a request to   *)
(* leave the program is pending, needs a redirect, has had one.                *)
exception_req(i) == special_req(i) \/ enter_debug_mode(i) \/ handle_irq(i)
exception_req_needs_pc_set(i) == enter_debug_mode(i) \/ handle_irq(i) \/ special_req_pc_change(i)
exception_pc_set(i) == monitor.pending /\ pc_mux(i) \in {"PC_EXC", "PC_ERET", "PC_DRET"}
to_debugger == ctrl_fsm_cs \in {"DBG_TAKEN_IF", "DBG_TAKEN_ID"}

Monitor(i) ==
  LET goes_on == ~(monitor.pending /\ ctrl_fsm_cs # "DECODE" /\ ctrl_fsm_cs' = "DECODE")
  IN  monitor' =
        [pending |-> (monitor.pending \/ exception_req(i)) /\ goes_on,
         expect |-> (monitor.expect \/ exception_req_needs_pc_set(i)) /\ goes_on,
         seen |-> (monitor.seen \/ exception_pc_set(i)) /\ goes_on,
         twice |-> monitor.seen /\ ~to_debugger /\ pc_set(i),
         unasked |-> monitor.pending /\ ~monitor.expect /\ pc_set(i)]

----------------------------------------------------------------------------
(* Lines rise at any time and, unless withdrawn, stay until their handler    *)
(* runs; the debugger keeps its request up until the core has halted.          *)
Outside ==
  /\ lines' \in SUBSET scenario.lines
  /\ \A l \in lines \ lines' :
       scenario.withdraw \/ Region(fetch_addr) = (IF l = "nm" THEN "nmi" ELSE "irq")
  /\ debug_req' \in BOOLEAN
  /\ debug_req' => scenario.debugger
  /\ (debug_req /\ ~debug_mode_q) => debug_req'
  /\ UNCHANGED scenario

clock_en == fetch_enable_q /\ (core_busy_q \/ debug_req \/ lines # {})

(* Fetch or the load/store unit may keep the core busy after the controller. *)
Gate(i) ==
  /\ fetch_enable_q' \in {fetch_enable_q, TRUE}
  /\ core_busy_q' \in {ctrl_busy(i), TRUE}

Running(e) ==
  /\ clock_en /\ Answers(e)
  /\ \E i \in {Input(e)} :
       CtrlCycle(i) /\ IdCycle(i, e) /\ IfCycle(i) /\ Monitor(i) /\ Gate(i)
  /\ Outside

Quiet == [resp |-> None, ex_valid |-> FALSE, vector_done |-> FALSE]

Stopped ==
  /\ ~clock_en
  /\ Gate(Input(Quiet)) /\ Outside
  /\ UNCHANGED coreVars

Answer == [resp : {None, "ok", "err"}, ex_valid : BOOLEAN, vector_done : BOOLEAN]

Next == Stopped \/ \E e \in Answer : Running(e)

Spec == Init /\ [][Next]_vars

(* The core is started; its clock ticks while enabled, and fetch delivers;   *)
(* every unit answers in the end.                                             *)
FairSpec ==
  /\ Spec
  /\ WF_vars(Stopped /\ fetch_enable_q' = TRUE)
  /\ WF_vars(\E e \in Answer : Running(e) /\ fetch_valid' = TRUE)
  /\ WF_vars(\E e \in Answer : e # Quiet /\ Running(e))

----------------------------------------------------------------------------
(* Every register holds what it is meant to.                                 *)
TypeOK ==
  /\ CtrlTypeOK /\ CsrTypeOK
  /\ lines \subseteq Line
  /\ {debug_req, fetch_enable_q, core_busy_q, fetch_valid, instr_valid_id_q,
      branch_set_raw_q, branch_jump_set_done_q} \subseteq BOOLEAN
  /\ {fetch_addr, pc_id} \subseteq PC
  /\ instr \in [kind : Kind, fetch_err : BOOLEAN]
  /\ id_fsm_q \in {"FIRST_CYCLE", "MULTI_CYCLE"}
  /\ lsu_waits \in {None, "load", "store"}

(* The instruction at pc_id has yet to take effect: no longer so in FLUSH    *)
(* after wfi or a CSR write, and still in DBG_TAKEN_ID.                       *)
in_id ==
  \/ ctrl_fsm_cs = "DBG_TAKEN_ID"
  \/ /\ instr_valid_id_q
     /\ ctrl_fsm_cs = "FLUSH" => exc_req_q \/ load_err_q \/ store_err_q \/ instr.kind \in {"mret", "dret"}

arch_pc == IF ctrl_fsm_cs \in {"RESET", "BOOT_SET"} THEN Boot
           ELSE IF in_id THEN pc_id ELSE fetch_addr
stacked == [mpie |-> mstack_q.mpie, mpp |-> mstack_q.mpp, mepc |-> mstack_q.epc, mcause |-> mstack_q.cause]
current == [mpie |-> mstatus_q.mpie, mpp |-> mstatus_q.mpp, mepc |-> mepc_q, mcause |-> mcause_q]
arch_trap == IF nmi_mode_q THEN stacked ELSE current
arch_back == IF nmi_mode_q THEN [pc |-> mepc_q, priv |-> mstatus_q.mpp, mie |-> mstatus_q.mpie]
             ELSE [pc |-> Boot, priv |-> "M", mie |-> FALSE]
arch_dback == [pc |-> depc_q, priv |-> dcsr_q.prv]
arch_dcsr == [step |-> dcsr_q.step, ebreakm |-> dcsr_q.ebreakm, cause |-> dcsr_q.cause]
arch_stepped == do_single_step_q /\ ~debug_mode_q /\ ~in_id

hart == INSTANCE Hart WITH
  pc <- arch_pc, priv <- priv_lvl_q, mie <- mstatus_q.mie, trap <- arch_trap,
  nmi <- nmi_mode_q, back <- arch_back, debug <- debug_mode_q, dback <- arch_dback,
  dcsr <- arch_dcsr, trigger <- tmatch_q, stepped <- arch_stepped

(* Whatever the order in which interrupts, NMIs, the debugger, exceptions    *)
(* and slow instructions meet in the pipeline, the program sees precise traps *)
(* (the FSM of cve2_controller and the save logic of cve2_cs_registers).       *)
ImplementsHart == hart!Spec

(* The controller's assertion CVE2NoDoubleSpecialReqPCSet: a request to leave *)
(* the program redirects fetch once, but for a move into debug mode.           *)
NoDoubleSpecialReqPCSet == ~monitor.twice

(* CVE2NoPCSetOnSpecialReqIfNotExpected: a request that needs no redirect, a  *)
(* wfi or a CSR write, gets none.                                              *)
NoPCSetOnSpecialReqIfNotExpected == ~monitor.unasked

(* An instruction that enters ID starts in its first cycle: what its         *)
(* predecessor left in the FSM of cve2_id_stage does not reach it.             *)
StartsInFirstCycle ==
  [][(instr_valid_id_q' /\ (~instr_valid_id_q \/ pc_id' # pc_id)) => id_fsm_q' = "FIRST_CYCLE"]_vars

(* "Interrupts including NMI are ignored, [...] while single stepping" (the   *)
(* comment on handle_irq).                                                     *)
InterruptsIgnoredWhileStepping == dcsr_q.step => ctrl_fsm_cs # "IRQ_TAKEN"

(* No instruction stays in the ID stage for ever: what it waits for comes,   *)
(* and the FSM sees it.                                                        *)
InstructionsEnd == id_fsm_q = "MULTI_CYCLE" ~> id_fsm_q = "FIRST_CYCLE"

interruptible == ~debug_mode_q /\ ~nmi_mode_q /\ ("nm" \in lines \/ (lines # {} /\ mstatus_q.mie))
(* An interrupt that stays requested and enabled is served: whatever is in   *)
(* the pipeline, DECODE comes to a point where it is taken.                    *)
InterruptsServed == interruptible ~> (ctrl_fsm_cs = "IRQ_TAKEN" \/ ~interruptible)

(* The debugger's request halts the core, whatever it is doing, asleep too   *)
(* (enter_debug_mode of the controller).                                       *)
HaltsOnRequest == debug_req ~> debug_mode_q

(* A wfi ends when an interrupt is pending, enabled in mstatus or not: the    *)
(* clock gate opens and SLEEP is left.                                         *)
SleepEnds == (ctrl_fsm_cs = "SLEEP" /\ lines # {}) ~> (ctrl_fsm_cs # "SLEEP" \/ lines = {})
=============================================================================
