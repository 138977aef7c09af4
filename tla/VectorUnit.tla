------------------------------- MODULE VectorUnit -------------------------------
(***************************************************************************)
(* A vector instruction in the ID stage, the vector register file interface  *)
(* that carries it out with the AGU and the load/store unit, the switch that *)
(* shares the data port between the two, and the memory, which also holds    *)
(* the vector registers, from address 0 on.  One step of Next is one clock   *)
(* edge; the inputs of the cycle are gnt and rvalid.                         *)
(***************************************************************************)
EXTENDS VrfInterface, Agu, DmemSwitch, LsuInterface, Sequences

CONSTANTS NumBytes,       \* size of the address space
          Scenarios,      \* a program, how many cycles in a row the memory may
                          \* withhold a grant, and whether it may answer later
                          \* than in the cycle after the grant
          ImmResult       \* what the adder gives for a vsse outside a split access

VARIABLES ls_fsm_cs, handle_misaligned_q, pmp_err_q, lsu_err_q, rdata_q, ctrl_q, addr_last_q

VARIABLES scenario, \* the one of this behaviour
          insn,     \* the instruction in the ID stage
          first,    \* its first cycle
          issued,   \* instructions issued so far
          mem,      \* memory, where it differs from its initial contents
          before,   \* ghost: memory when the last instruction completed
          bus,      \* requests granted and not answered, oldest first
          waited,   \* cycles the current request has been withheld its grant
          request,  \* ghost: the request of the last cycle, and whether it was granted
          stray     \* ghost: an answer was routed to the unit that did not ask

LSU == INSTANCE LoadStoreUnit

vars == <<vrfVars, LSU!lsuVars, addr_q, prev_op_q, addr_counter, scenario, insn, first, issued,
          mem, before, bus, waited, request, stray>>

RegBytes == 4 * RegWords
Instructions == UNION {{s.program[k] : k \in DOMAIN s.program} : s \in Scenarios}
ISA == INSTANCE VectorInstructions WITH mem <- before
Zero == <<>>    \* a register byte at reset, or one with nothing of use in it
None == ISA!None
NoRequest == [none |-> TRUE]

ASSUME UnitAssumption ==
  /\ NumBytes \in Nat \ {0} /\ NumBytes % 4 = 0
  /\ \A s \in Scenarios : s.wait \in Nat /\ s.late \in BOOLEAN
  /\ ImmResult \in 0 .. NumBytes - 1
  /\ \A n \in Instructions :
       /\ n \in ISA!InstructionType /\ n.base < NumBytes
       /\ n.name \in ISA!Loads \cup ISA!Stores => n.base >= VrfBytes

(* A memory that answers late is borne by stores only: they wait for each    *)
(* answer, where other instructions go on in the cycle after the grant.      *)
OnlyStoresAreLate ==
  \A s \in Scenarios : s.late => \A k \in DOMAIN s.program : s.program[k].name \in ISA!Stores

(* A vector load or store is withheld its grant for a cycle at most: it has  *)
(* one word to keep what it asked with.                                      *)
MemoryWaitsOnce ==
  \A s \in Scenarios : s.wait > 1 =>
    \A k \in DOMAIN s.program : s.program[k].name \notin ISA!Loads \cup ISA!Stores

(* Arithmetic and moves on register groups: a group lies in the eight        *)
(* registers its counter walks through, and a source is the destination or   *)
(* shares no register with it.                                                *)
LaneNames == {"vadd_vv", "vadd_vx", "vmacc_vv", "vmacc_vx", "vmv_v_v"}

Words(n) == (n.bytes + 3) \div 4

Sources(n) == CASE n.name = "vmv_v_v" -> {n.vs1}
                [] n.name \in {"vadd_vv", "vmacc_vv"} -> {n.vs1, n.vs2}
                [] OTHER -> {n.vs2}

InItsBank(n, r) == RegWords * (r % 8) + Words(n) <= BankWords

Apart(n, r) == RegWords * (r - n.vd) >= Words(n) \/ RegWords * (n.vd - r) >= Words(n)

Lane(n) ==
  /\ n.name \in LaneNames
  /\ n.bytes \div 4 < MaxIterations
  /\ InItsBank(n, n.vd)
  /\ \A r \in Sources(n) : InItsBank(n, r) /\ (r = n.vd \/ Apart(n, r))

(* Slides on such groups.  Only a slide down may be over its own source, and *)
(* a slide up leaves something of the destination to be written.             *)
SlideNames == {"vslideup", "vslidedown"}

Sliding(n) ==
  /\ n.name \in SlideNames
  /\ n.offset < n.bytes /\ n.bytes \div 4 < MaxIterations
  /\ InItsBank(n, n.vd) /\ InItsBank(n, n.vs2)
  /\ Apart(n, n.vs2) \/ (n.name = "vslidedown" /\ n.vs2 = n.vd)

----------------------------------------------------------------------------
(* What the decoder makes of the instruction.                               *)

memory_op == insn.name \in ISA!Loads \cup ISA!Stores
slide_op == insn.name \in {"vslideup", "vslidedown"}
unit_stride == insn.name \in {"vle", "vse"}
mult_ops == insn.name \in {"vadd_vv", "vmacc_vv", "vmacc_vx"}

sel_operation ==
  CASE insn.name \in ISA!Loads \cup {"vmv_v_x"} -> {"rd"}
    [] insn.name \in ISA!Stores -> {"rs3"}
    [] insn.name = "vadd_vv" -> {"rs1", "rs2", "rd"}
    [] insn.name = "vmacc_vv" -> {"rs1", "rs2", "rs3", "rd"}
    [] insn.name = "vmacc_vx" -> {"rs2", "rs3", "rd"}
    [] insn.name = "vmv_v_v" -> {"rs1", "rd"}
    [] OTHER -> {"rs2", "rd"}

Decoded == [memory_op |-> memory_op, sel |-> sel_operation, mult_ops |-> mult_ops,
            slide_op |-> slide_op, is_slide_up |-> insn.name = "vslideup"]
NotDecoded == [memory_op |-> FALSE, sel |-> {}, mult_ops |-> FALSE, slide_op |-> FALSE,
               is_slide_up |-> FALSE]

vector_op == insn # None
regs == [rs1 |-> insn.vs1, rs2 |-> insn.vs2, rd |-> insn.vd]

(* Only a strided access says how wide its elements are.                    *)
data_type == IF ~vector_op THEN "word"
             ELSE IF unit_stride \/ insn.elem = 4 THEN "word"
             ELSE IF insn.elem = 2 THEN "half" ELSE "byte"

(* The adder: last address plus four for the second half of a split access, *)
(* else plus the stride.  The decoder sets it up for a strided load only: a *)
(* strided store keeps the default, which subtracts two immediates.         *)
adder_result ==
  LET stride == IF LSU!addr_incr_req_o THEN 4 ELSE insn.stride
  IN  IF insn.name # "vsse" THEN (addr_last_q + stride) % NumBytes
      ELSE IF LSU!addr_incr_req_o THEN (addr_last_q - 4) % NumBytes ELSE ImmResult

scalar_addr == IF vector_op /\ memory_op THEN adder_result ELSE 0

(* One lane of the ALU: slides and moves pass an operand on.                *)
alu_byte(c, k) ==
  CASE insn.name \in {"vslideup", "vslidedown", "vmv_v_v"} -> rs2_q[k]
    [] insn.name = "vmv_v_x" -> ISA!Scalar
    [] OTHER -> ISA!Result(IF "rs1" \in sel_operation THEN rs1_q[k] ELSE ISA!Scalar, rs2_q[k],
                           IF "rs3" \in sel_operation THEN c[k] ELSE ISA!Scalar)

----------------------------------------------------------------------------
(* The wires of one cycle.                                                 *)

Routed(rvalid) == IF vrf_rvalid(vector_op, rvalid) THEN "VRF" ELSE "LSU"

rdata(rvalid) == IF rvalid /\ ~Head(bus).we THEN Head(bus).data ELSE [k \in WordLanes |-> Zero]

lsu_resp_valid(rvalid) == LSU!lsu_resp_valid_o([rvalid |-> lsu_rvalid(vector_op, rvalid)])

lsu_if_addr == lsu_addr(vector_op, LSU!addr_incr_req_o, scalar_addr)

(* What the sequencer sees of the instruction and of the answers, what is   *)
(* written back, and the same with what is chosen on the data port.         *)
VrfWires(rvalid) ==
  [req |-> vector_op,
   bytes |-> IF vector_op THEN insn.bytes ELSE 0,
   op |-> IF vector_op THEN Decoded ELSE NotDecoded,
   slide_offset |-> IF vector_op THEN insn.offset ELSE 0,
   rvalid |-> vrf_rvalid(vector_op, rvalid), rdata |-> rdata(rvalid),
   lsu_offset |-> lsu_if_addr % 4, lsu_done |-> lsu_resp_valid(rvalid)]

vrf_wdata_wb(wires, rvalid) ==
  LET loaded == LSU!lsu_rdata_o([rdata |-> rdata(rvalid)]).bytes
  IN  [k \in WordLanes |->
         IF memory_op THEN IF k \in DOMAIN loaded THEN loaded[k] ELSE Zero
         ELSE IF vector_op THEN alu_byte(rdata_c_o(wires), k) ELSE Zero]

VrfInput(gnt, rvalid) ==
  LET w == VrfWires(rvalid)
      has_mem == vrf_has_mem(vector_op, lsu_req_o(w), LSU!busy_o)
  IN  [req |-> w.req, bytes |-> w.bytes, op |-> w.op, slide_offset |-> w.slide_offset,
       rvalid |-> w.rvalid, rdata |-> w.rdata, lsu_offset |-> w.lsu_offset, lsu_done |-> w.lsu_done,
       has_mem |-> has_mem, gnt |-> has_mem /\ gnt, lsu_gnt |-> ~has_mem /\ gnt,
       wdata |-> vrf_wdata_wb(w, rvalid)]

LsuInput(i, rvalid) ==
  [lsu_req |-> vector_op /\ lsu_req_o(i), lsu_we |-> vector_op /\ insn.name \in ISA!Stores,
   lsu_type |-> data_type, lsu_sign_ext |-> FALSE, lsu_wdata |-> rdata_c_o(i),
   vec_be |-> IF vector_op THEN data_be_o(i) ELSE WordLanes,
   addr |-> lsu_if_addr, gnt |-> i.lsu_gnt, rvalid |-> lsu_rvalid(vector_op, rvalid),
   err |-> FALSE, rdata |-> rdata(rvalid), pmp_err |-> FALSE]

(* The request on the data port, of the unit the switch has chosen; what a  *)
(* read puts on the data and byte enable wires is of no use to anyone.      *)
PortRequest(unit, addr, we, be, wdata) ==
  [unit |-> unit, addr |-> addr, we |-> we,
   be |-> IF we THEN be ELSE {}, wdata |-> IF we THEN wdata ELSE Zero]

Request(i, l) ==
  IF i.has_mem
    THEN IF ~data_req_o(i) THEN NoRequest
         ELSE PortRequest("VRF", mem_if_addr(regs, data_access(i)), data_we_o(i), data_be_o(i), data_wdata_o(i))
    ELSE IF ~LSU!data_req_o(l) THEN NoRequest
         ELSE PortRequest("LSU", LSU!w_aligned(l.addr), l.lsu_we, LSU!data_be(l), LSU!data_wdata(l))

----------------------------------------------------------------------------
Init == /\ VrfInit(Zero) /\ LSU!LsuInit(Zero)
        /\ AguInit /\ SwitchInit /\ LsuInterfaceInit
        /\ scenario \in Scenarios
        /\ insn = None /\ first = FALSE /\ issued = 0
        /\ mem = <<>> /\ before = <<>>
        /\ bus = <<>> /\ waited = 0 /\ request = NoRequest /\ stray = FALSE

(* The memory takes a request with its data and reads at once; the answer   *)
(* comes later, in order.                                                   *)
Memory(r, gnt, rvalid) ==
  LET rest == IF rvalid THEN Tail(bus) ELSE bus
      taken == r # NoRequest /\ gnt
      written == {r.addr + k : k \in r.be}
  IN  /\ bus' = IF ~taken THEN rest
                ELSE Append(rest, [unit |-> r.unit, we |-> r.we,
                                   data |-> IF r.we THEN Zero
                                            ELSE [k \in WordLanes |-> ISA!Read(mem, r.addr + k)]])
      /\ mem' = IF ~taken \/ ~r.we THEN mem
                ELSE [a \in DOMAIN mem \cup written |->
                        IF a \in written THEN r.wdata[a % 4] ELSE mem[a]]
      /\ waited' = IF r # NoRequest /\ ~gnt THEN waited + 1 ELSE 0
      /\ request' = IF r = NoRequest THEN NoRequest ELSE [r |-> r, granted |-> gnt]
      /\ stray' = (rvalid /\ Head(bus).unit # Routed(rvalid))

(* The AGU loads its counters when the instruction starts, with the address *)
(* the adder makes of the first register and the offset of a slide.         *)
Counters(i) ==
  IF agu_load_o(i)
    THEN AguLoad(regs, slide_op, insn.name = "vslideup",
                 slide_start_addr(regs, insn.name = "vslideup") + insn.offset)
    ELSE IF agu_incr_o(i) THEN AguIncr(data_access(i)) ELSE UNCHANGED addr_q

(* An instruction leaves when the unit is done with it, not in its first    *)
(* cycle, and another may follow at once.                                   *)
Stage(i) ==
  LET done == vector_op /\ ~first /\ vector_done_o(i)
  IN  /\ IF vector_op /\ ~done THEN insn' = insn
         ELSE insn' \in {None} \cup {scenario.program[k] : k \in DOMAIN scenario.program \cap {issued + 1}}
      /\ first' = (insn' # None /\ (done \/ ~vector_op))
      /\ issued' = IF first' THEN issued + 1 ELSE issued
      /\ before' = IF done THEN mem' ELSE before

(* The quantifiers over one value stand for the wires of the cycle.         *)
Cycle(gnt, rvalid) ==
  \E i \in {VrfInput(gnt, rvalid)} : \E l \in {LsuInput(i, rvalid)} : \E r \in {Request(i, l)} :
    /\ gnt => r # NoRequest
    /\ r # NoRequest /\ waited = scenario.wait => gnt
    /\ VrfCycle(i, Zero) /\ LSU!LsuCycle(l)
    /\ Counters(i)
    /\ SwitchCycle(vector_op, i.has_mem, lsu_resp_valid(rvalid))
    /\ LsuInterfaceCycle(data_load_addr_o(i), insn.base, lsu_resp_valid(rvalid),
                         unit_stride, scalar_addr, NumBytes)
    /\ Memory(r, gnt, rvalid)
    /\ Stage(i)
    /\ UNCHANGED scenario

Answers == IF bus = <<>> THEN {FALSE} ELSE IF scenario.late THEN BOOLEAN ELSE {TRUE}

Next == \E gnt \in BOOLEAN, rvalid \in Answers : Cycle(gnt, rvalid)

Spec == Init /\ [][Next]_vars

(* The memory answers in the end.                                           *)
Answered == bus # <<>> /\ \E gnt \in BOOLEAN : Cycle(gnt, TRUE)

FairSpec == Spec /\ WF_vars(Next) /\ WF_vars(Answered)

----------------------------------------------------------------------------
(* Types of the registers that control the unit.                            *)
TypeOK ==
  /\ vrf_state \in VrfStates
  /\ num_iterations_q \in 0 .. MaxIterations - 1
  /\ offset_q \in 0 .. 3 /\ slide_offset_q \in 0 .. 3 /\ lsu_offset_q \in 0 .. 3
  /\ curr_demux_sel \in {0, 1} /\ delay_state \in {"none", "write", "read"}
  /\ addr_q \in [Ports -> 0 .. BankWords - 1]
  /\ addr_counter \in 0 .. NumBytes - 1 /\ addr_last_q \in 0 .. NumBytes - 1
  /\ insn \in Instructions \cup {None} /\ waited \in 0 .. scenario.wait
  /\ ls_fsm_cs \in LSU!LsuStates

(* Instructions take effect as the abstract machine says: each writes the   *)
(* whole of its destination, nothing beside it, with the values its sources *)
(* had when it began.                                                       *)
InstructionsTakeEffect == ISA!ASpec

(* A request that is not granted stays on the port unchanged, data and all. *)
RequestHeld ==
  [][(request # NoRequest /\ ~request.granted) =>
       request' # NoRequest /\ request'.r = request.r]_vars

(* The switch hands every answer to the unit that asked.                    *)
AnswersReachTheirUnit == ~stray

(* A finished instruction leaves the units idle and no answer behind that   *)
(* the next one would take for its own.                                     *)
LeavesNothingBehind ==
  (insn = None \/ first) => vrf_state = "IDLE" /\ ls_fsm_cs = "IDLE" /\ bus = <<>>

(* Every vector instruction ends.                                           *)
EveryInstructionEnds == insn # None ~> insn = None \/ first
=============================================================================
