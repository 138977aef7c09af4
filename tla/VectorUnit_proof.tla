---------------------------- MODULE VectorUnit_proof ----------------------------
(***************************************************************************)
(* The vector unit with the load/store unit, the switch and memory, for     *)
(* every program, every size of a vector register and every timing of the    *)
(* memory it bears.                                                          *)
(***************************************************************************)
EXTENDS VectorUnit, SequenceTheorems, TLAPS

----------------------------------------------------------------------------
(* The wires of a cycle.                                                     *)
LEMMA Wires ==
  ASSUME NEW gnt, NEW rvalid, NEW i, i = VrfInput(gnt, rvalid)
  PROVE  /\ i.req = vector_op
         /\ i.bytes = (IF vector_op THEN insn.bytes ELSE 0)
         /\ i.op = (IF vector_op THEN Decoded ELSE NotDecoded)
         /\ i.slide_offset = (IF vector_op THEN insn.offset ELSE 0)
         /\ i.rvalid = vrf_rvalid(vector_op, rvalid) /\ i.rdata = rdata(rvalid)
         /\ i.lsu_offset = lsu_if_addr % 4
         /\ i.lsu_done = lsu_resp_valid(rvalid)
         /\ i.has_mem = (vector_op /\ ~lsu_req_o(i) /\ ls_fsm_cs = "IDLE")
         /\ i.gnt = (i.has_mem /\ gnt) /\ i.lsu_gnt = (~i.has_mem /\ gnt)
         /\ i.wdata = vrf_wdata_wb(i, rvalid)
<1> DEFINE w == VrfWires(rvalid)
<1>1. /\ w.req = vector_op
      /\ w.bytes = (IF vector_op THEN insn.bytes ELSE 0)
      /\ w.op = (IF vector_op THEN Decoded ELSE NotDecoded)
      /\ w.slide_offset = (IF vector_op THEN insn.offset ELSE 0)
      /\ w.rvalid = vrf_rvalid(vector_op, rvalid) /\ w.rdata = rdata(rvalid)
      /\ w.lsu_offset = lsu_if_addr % 4
      /\ w.lsu_done = lsu_resp_valid(rvalid)
  BY DEF VrfWires
<1> DEFINE has_mem == vrf_has_mem(vector_op, lsu_req_o(w), LSU!busy_o)
<1>2. /\ i.req = w.req /\ i.bytes = w.bytes /\ i.op = w.op /\ i.slide_offset = w.slide_offset
      /\ i.rvalid = w.rvalid /\ i.rdata = w.rdata /\ i.lsu_offset = w.lsu_offset /\ i.lsu_done = w.lsu_done
      /\ i.has_mem = has_mem /\ i.gnt = (has_mem /\ gnt) /\ i.lsu_gnt = (~has_mem /\ gnt)
      /\ i.wdata = vrf_wdata_wb(w, rvalid)
  BY DEF VrfInput
<1> HIDE DEF w
<1>3. lsu_req_o(i) = lsu_req_o(w)
  BY <1>2 DEF lsu_req_o, store_ready, final, no_offset, slide_down
<1>4. has_mem = (vector_op /\ ~lsu_req_o(i) /\ ls_fsm_cs = "IDLE")
  BY <1>3 DEF vrf_has_mem, LSU!busy_o
<1>5. rdata_c_o(i) = rdata_c_o(w)
  BY <1>2 DEF rdata_c_o, store_operand, mux_sel, store_ready
<1>6. vrf_wdata_wb(i, rvalid) = vrf_wdata_wb(w, rvalid)
  BY <1>5 DEF vrf_wdata_wb
<1> HIDE DEF has_mem
<1> QED BY <1>1, <1>2, <1>4, <1>6

LEMMA LsuWires ==
  ASSUME NEW i, NEW rvalid, NEW l, l = LsuInput(i, rvalid)
  PROVE  /\ l.lsu_req = (vector_op /\ lsu_req_o(i))
         /\ l.lsu_we = (vector_op /\ insn.name \in ISA!Stores)
         /\ l.lsu_type = data_type /\ l.lsu_wdata = rdata_c_o(i)
         /\ l.vec_be = (IF vector_op THEN data_be_o(i) ELSE WordLanes)
         /\ l.addr = lsu_if_addr /\ l.gnt = i.lsu_gnt
         /\ l.rvalid = lsu_rvalid(vector_op, rvalid)
         /\ l.err = FALSE /\ l.pmp_err = FALSE
BY DEF LsuInput

----------------------------------------------------------------------------
(* The registers of the sequencer, of the unit.                              *)
VrfRegs ==
  /\ vrf_state \in VrfStates
  /\ num_iterations_q \in 0 .. MaxIterations - 1
  /\ offset_q \in 0 .. 3 /\ slide_offset_q \in 0 .. 3 /\ lsu_offset_q \in 0 .. 3
  /\ curr_demux_sel \in {0, 1} /\ delay_state \in {"none", "write", "read"}
  /\ first_iteration_q \in BOOLEAN /\ last_iteration_q \in BOOLEAN

InvType == TypeOK /\ VrfRegs /\ scenario \in Scenarios

LEMMA VrfTypes ==
  ASSUME VrfRegs, NEW i, i.bytes \in Nat, i.slide_offset \in Nat, i.lsu_offset \in 0 .. 3,
         VrfCycle(i, Zero)
  PROVE  VrfRegs'
<1>1. Fsm(i) /\ DelayFsm(i)
  BY DEF VrfCycle
<1>2. delay_state' \in {"none", "write", "read"}
  BY <1>1 DEF DelayFsm
<1>3. \A x \in Int : x % MaxIterations \in 0 .. MaxIterations - 1
  BY MaxIterationsAssumption
<1>4. ASSUME NEW taken, CountDown(i, taken)
      PROVE  num_iterations_q' \in 0 .. MaxIterations - 1 /\ last_iteration_q' \in BOOLEAN
  BY <1>3, <1>4, MaxIterationsAssumption DEF CountDown, VrfRegs
<1>5. ASSUME Finish PROVE  vrf_state' \in VrfStates /\ num_iterations_q' \in 0 .. MaxIterations - 1
                           /\ last_iteration_q' \in BOOLEAN
  BY <1>5, MaxIterationsAssumption DEF Finish, VrfRegs, VrfStates
<1>6. ASSUME NEW next \in VrfStates, OnGrant(i, next) PROVE vrf_state' \in VrfStates
  BY <1>6 DEF OnGrant, VrfRegs
<1> USE DEF VrfRegs, unchangedIterations, unchangedSetup, unchangedFirst, unchangedDemux
<1>7. CASE VrfIdle(i)
  <2>1. num_iterations_q' \in 0 .. MaxIterations - 1
    <3>1. iterations(i) \in 0 .. MaxIterations - 1
      BY <1>3 DEF iterations
    <3> QED BY <1>7, <3>1, MaxIterationsAssumption DEF VrfIdle
  <2>2. offset_q' \in 0 .. 3 /\ slide_offset_q' \in 0 .. 3
    BY <1>7 DEF VrfIdle, slide_offset_d
  <2>3. vrf_state' \in VrfStates
    BY <1>7 DEF VrfIdle, VrfStates
  <2> QED BY <1>2, <1>7, <2>1, <2>2, <2>3 DEF VrfIdle, demux_in_idle
<1>8. CASE VrfStart(i)
  <2>1. vrf_state' \in VrfStates
    BY <1>8 DEF VrfStart, OnGrant, VrfStates
  <2> QED BY <1>2, <1>8, <2>1 DEF VrfStart
<1>9. CASE VrfIntRead1(i)
  <2>1. vrf_state' \in VrfStates
    BY <1>9 DEF VrfIntRead1, OnGrant, VrfStates
  <2> QED BY <1>2, <1>9, <2>1 DEF VrfIntRead1
<1>10. CASE VrfIntRead2(i) \/ VrfIntRead3(i) \/ VrfLoadSlide(i) \/ VrfLoadWaitGnt(i) \/ VrfStoreWaitGnt(i) \/ VrfStoreRead(i)
  <2>1. vrf_state' \in VrfStates
    BY <1>10 DEF VrfIntRead2, VrfIntRead3, VrfLoadSlide, VrfLoadWaitGnt, VrfStoreWaitGnt, VrfStoreRead, OnGrant, VrfStates
  <2> QED BY <1>2, <1>10, <2>1 DEF VrfIntRead2, VrfIntRead3, VrfLoadSlide, VrfLoadWaitGnt, VrfStoreWaitGnt, VrfStoreRead
<1>11. CASE VrfIntWrite(i)
  <2>1. vrf_state' \in VrfStates /\ num_iterations_q' \in 0 .. MaxIterations - 1 /\ last_iteration_q' \in BOOLEAN
    BY <1>4, <1>5, <1>6, <1>11 DEF VrfIntWrite, VrfStates
  <2> QED BY <1>2, <1>11, <2>1 DEF VrfIntWrite
<1>12. CASE VrfRead(i)
  <2>1. vrf_state' \in VrfStates
    BY <1>12 DEF VrfRead, OnGrant, VrfStates
  <2> QED BY <1>2, <1>12, <2>1 DEF VrfRead
<1>13. CASE VrfWrite(i)
  <2>1. vrf_state' \in VrfStates /\ num_iterations_q' \in 0 .. MaxIterations - 1 /\ last_iteration_q' \in BOOLEAN
    BY <1>4, <1>5, <1>6, <1>13 DEF VrfWrite, VrfStates
  <2> QED BY <1>2, <1>13, <2>1 DEF VrfWrite
<1>14. CASE VrfLoad(i)
  <2>1. vrf_state' \in VrfStates
    BY <1>14 DEF VrfLoad, VrfStates
  <2> QED BY <1>2, <1>14, <2>1 DEF VrfLoad
<1>15. CASE VrfLoadWrite(i)
  <2>1. vrf_state' \in VrfStates /\ num_iterations_q' \in 0 .. MaxIterations - 1 /\ last_iteration_q' \in BOOLEAN
    BY <1>4, <1>5, <1>15 DEF VrfLoadWrite, VrfStates
  <2> QED BY <1>2, <1>15, <2>1 DEF VrfLoadWrite
<1>16. CASE VrfStoreWaitLsu(i)
  <2>1. vrf_state' \in VrfStates /\ num_iterations_q' \in 0 .. MaxIterations - 1 /\ last_iteration_q' \in BOOLEAN
    BY <1>4, <1>5, <1>16 DEF VrfStoreWaitLsu, VrfStates
  <2>2. 1 - curr_demux_sel \in {0, 1}
    OBVIOUS
  <2>3. curr_demux_sel' \in {0, 1}
    BY <1>16, <2>2 DEF VrfStoreWaitLsu
  <2>4. first_iteration_q' \in BOOLEAN
    BY <1>16 DEF VrfStoreWaitLsu
  <2> QED BY <1>2, <1>16, <2>1, <2>3, <2>4 DEF VrfStoreWaitLsu
<1> QED BY <1>1, <1>7, <1>8, <1>9, <1>10, <1>11, <1>12, <1>13, <1>14, <1>15, <1>16 DEF Fsm

LEMMA InsnFields ==
  ASSUME InvType, vector_op
  PROVE  /\ insn \in Instructions /\ insn.name \in ISA!Names
         /\ insn.bytes \in Nat /\ insn.offset \in Nat
         /\ insn.vd \in 0 .. 31 /\ insn.vs1 \in 0 .. 31 /\ insn.vs2 \in 0 .. 31
         /\ insn.base \in 0 .. NumBytes - 1 /\ insn.stride \in Int
         /\ scenario.wait \in Nat /\ scenario.late \in BOOLEAN
<1>1. insn \in Instructions
  BY DEF InvType, TypeOK, vector_op
<1>2. insn \in ISA!InstructionType /\ insn.base < NumBytes /\ NumBytes \in Nat
  BY <1>1, UnitAssumption
<1>3. /\ insn.name \in ISA!Names
      /\ insn.bytes \in Nat /\ insn.offset \in Nat
      /\ insn.vd \in 0 .. 31 /\ insn.vs1 \in 0 .. 31 /\ insn.vs2 \in 0 .. 31
      /\ insn.base \in Nat /\ insn.stride \in Int
  BY <1>2 DEF ISA!InstructionType
<1>4. scenario.wait \in Nat /\ scenario.late \in BOOLEAN
  BY UnitAssumption DEF InvType
<1> QED BY <1>1, <1>2, <1>3, <1>4

(* Every address that the adder or the counter gives lies in memory.         *)
LEMMA Addresses ==
  ASSUME InvType
  PROVE  scalar_addr \in 0 .. NumBytes - 1 /\ lsu_if_addr \in 0 .. NumBytes - 1
<1>1. NumBytes \in Nat \ {0}
  BY UnitAssumption
<1>2. \A x \in Int : x % NumBytes \in 0 .. NumBytes - 1
  BY <1>1
<1>3. addr_counter \in 0 .. NumBytes - 1 /\ addr_last_q \in Int
  BY DEF InvType, TypeOK
<1>4. vector_op => adder_result \in 0 .. NumBytes - 1
  <2>1. vector_op => insn.stride \in Int
    BY InsnFields
  <2>2. \A s \in Int : (addr_last_q + s) % NumBytes \in 0 .. NumBytes - 1
    BY <1>2, <1>3
  <2>3. (addr_last_q - 4) % NumBytes \in 0 .. NumBytes - 1
    BY <1>2, <1>3
  <2>4. ImmResult \in 0 .. NumBytes - 1
    BY UnitAssumption
  <2> QED BY <2>1, <2>2, <2>3, <2>4 DEF adder_result
<1>5. scalar_addr \in 0 .. NumBytes - 1
  BY <1>1, <1>4 DEF scalar_addr
<1> QED BY <1>3, <1>5 DEF lsu_if_addr, lsu_addr

(* The port asks for one of four registers, or for none.                     *)
LEMMA Accesses ==
  ASSUME NEW i
  PROVE  data_access(i) \in {"none", "write", "rs1", "rs2", "rd"}
BY DEF data_access

LEMMA AguTypes ==
  ASSUME InvType, NEW i, NEW gnt, NEW rvalid, i = VrfInput(gnt, rvalid), Counters(i)
  PROVE  addr_q' \in [Ports -> 0 .. BankWords - 1]
<1>1. BankWords \in Nat \ {0} /\ BankWords = 8 * RegWords /\ RegWords \in Nat \ {0}
  BY RegWordsAssumption DEF BankWords
<1>2. CASE agu_load_o(i)
  <2>1. vector_op
    BY <1>2, Wires DEF agu_load_o
  <2>2. \A p \in Ports : regs[p] \in 0 .. 31
    BY <2>1, InsnFields DEF regs, Ports
  <2>3. ASSUME NEW n \in 0 .. 31 PROVE RegWords * (n % 8) \in 0 .. BankWords - 1
    <3>1. n % 8 \in 0 .. 7
      OBVIOUS
    <3> DEFINE m == n % 8
    <3>2. m \in 0 .. 7
      BY <3>1
    <3> HIDE DEF m
    <3>3. m = 0 \/ m = 1 \/ m = 2 \/ m = 3 \/ m = 4 \/ m = 5 \/ m = 6 \/ m = 7
      BY <3>2
    <3>4. RegWords * m \in 0 .. BankWords - 1
      BY <1>1, <3>3
    <3> QED BY <3>4 DEF m
  <2>4. slide_start_addr(regs, insn.name = "vslideup") \in Nat
    <3>1. \A n \in 0 .. 31 : 4 * RegWords * n \in Nat
      BY <1>1
    <3> QED BY <2>2, <3>1 DEF slide_start_addr, Ports
  <2> DEFINE s == slide_start_addr(regs, insn.name = "vslideup") + insn.offset
  <2>5. s \in Nat
    BY <2>1, <2>4, InsnFields
  <2>6. (s \div 4) % BankWords \in 0 .. BankWords - 1
    BY <1>1, <2>5
  <2>7. AguLoad(regs, slide_op, insn.name = "vslideup", s)
    BY <1>2 DEF Counters
  <2> HIDE DEF s
  <2>8. addr_q' = [p \in Ports |->
               IF slide_op /\ p = (IF insn.name = "vslideup" THEN "rd" ELSE "rs2")
                 THEN (s \div 4) % BankWords ELSE RegWords * (regs[p] % 8)]
    BY <2>7 DEF AguLoad
  <2>9. \A p \in Ports : RegWords * (regs[p] % 8) \in 0 .. BankWords - 1
    BY <2>2, <2>3
  <2> QED BY <2>6, <2>8, <2>9
<1>3. CASE ~agu_load_o(i) /\ agu_incr_o(i)
  <2>1. data_access(i) # "none"
    BY <1>3 DEF agu_incr_o, accepted, data_req_o
  <2>2. port(data_access(i)) \in Ports
    BY <2>1, Accesses DEF port, Ports
  <2>3. addr_q \in [Ports -> 0 .. BankWords - 1]
    BY DEF InvType, TypeOK
  <2>4. \A n \in 0 .. BankWords - 1 : (n + 1) % BankWords \in 0 .. BankWords - 1
    BY <1>1
  <2>5. addr_q' = [addr_q EXCEPT ![port(data_access(i))] = (addr_q[port(data_access(i))] + 1) % BankWords]
    BY <1>3 DEF Counters, AguIncr
  <2> QED BY <2>2, <2>3, <2>4, <2>5
<1>4. CASE ~agu_load_o(i) /\ ~agu_incr_o(i)
  BY <1>4 DEF Counters, InvType, TypeOK
<1> QED BY <1>2, <1>3, <1>4

LEMMA LsuTypes ==
  ASSUME InvType, NEW l, LSU!LsuCycle(l), l.addr \in 0 .. NumBytes - 1
  PROVE  ls_fsm_cs' \in LSU!LsuStates /\ addr_last_q' \in 0 .. NumBytes - 1
<1>1. ls_fsm_cs \in LSU!LsuStates /\ addr_last_q \in 0 .. NumBytes - 1
  BY DEF InvType, TypeOK
<1>2. LSU!w_aligned(l.addr) \in 0 .. NumBytes - 1
  <2>1. \A x \in Nat : x - (x % 4) \in 0 .. x
    OBVIOUS
  <2>2. l.addr \in Nat /\ NumBytes \in Nat
    BY UnitAssumption
  <2> QED BY <2>1, <2>2 DEF LSU!w_aligned
<1>3. LSU!addr_last_d(l) \in 0 .. NumBytes - 1
  BY <1>2 DEF LSU!addr_last_d
<1>4. \A a, c, d : LSU!Latch(l, a, c, d) => addr_last_q' \in 0 .. NumBytes - 1
  BY <1>1, <1>3 DEF LSU!Latch
<1>5. addr_last_q' \in 0 .. NumBytes - 1
  BY <1>4 DEF LSU!LsuCycle, LSU!IdleNoRequest, LSU!IdleRequest, LSU!WaitGntMis, LSU!WaitRvalidMis,
     LSU!WaitGnt, LSU!WaitRvalidMisGntsDone
<1>6. ls_fsm_cs' \in LSU!LsuStates
  BY <1>1 DEF LSU!LsuStates, LSU!LsuCycle, LSU!IdleNoRequest, LSU!IdleRequest, LSU!WaitGntMis,
     LSU!WaitRvalidMis, LSU!WaitGnt, LSU!WaitRvalidMisGntsDone
<1> QED BY <1>5, <1>6

(* What a clock edge is made of.                                             *)
LEMMA Edge ==
  ASSUME NEW gnt, NEW rvalid, Cycle(gnt, rvalid)
  PROVE  \E i, l, r :
           /\ i = VrfInput(gnt, rvalid) /\ l = LsuInput(i, rvalid) /\ r = Request(i, l)
           /\ gnt => r # NoRequest
           /\ r # NoRequest /\ waited = scenario.wait => gnt
           /\ VrfCycle(i, Zero) /\ LSU!LsuCycle(l)
           /\ Counters(i)
           /\ SwitchCycle(vector_op, i.has_mem, lsu_resp_valid(rvalid))
           /\ LsuInterfaceCycle(data_load_addr_o(i), insn.base, lsu_resp_valid(rvalid),
                                unit_stride, scalar_addr, NumBytes)
           /\ Memory(r, gnt, rvalid) /\ Stage(i) /\ UNCHANGED scenario
BY DEF Cycle

LEMMA StepTypes ==
  ASSUME InvType, NEW gnt \in BOOLEAN, NEW rvalid, Cycle(gnt, rvalid)
  PROVE  InvType'
<1>1. PICK i, l, r :
         /\ i = VrfInput(gnt, rvalid) /\ l = LsuInput(i, rvalid) /\ r = Request(i, l)
         /\ r # NoRequest /\ waited = scenario.wait => gnt
         /\ VrfCycle(i, Zero) /\ LSU!LsuCycle(l)
         /\ Counters(i)
         /\ LsuInterfaceCycle(data_load_addr_o(i), insn.base, lsu_resp_valid(rvalid),
                              unit_stride, scalar_addr, NumBytes)
         /\ Memory(r, gnt, rvalid) /\ Stage(i) /\ UNCHANGED scenario
  BY Edge
<1>2. VrfRegs'
  <2>1. i.bytes \in Nat /\ i.slide_offset \in Nat
    BY <1>1, Wires, InsnFields
  <2>2. i.lsu_offset \in 0 .. 3
    <3>1. lsu_if_addr \in Nat
      BY Addresses, UnitAssumption
    <3> QED BY <1>1, <3>1, Wires
  <2> QED BY <1>1, <2>1, <2>2, VrfTypes DEF InvType
<1>3. addr_q' \in [Ports -> 0 .. BankWords - 1]
  BY <1>1, AguTypes
<1>4. addr_counter' \in 0 .. NumBytes - 1
  <2>1. data_load_addr_o(i) => insn.base \in 0 .. NumBytes - 1
    BY <1>1, Wires, InsnFields DEF data_load_addr_o, agu_load_o
  <2>2. addr_counter \in 0 .. NumBytes - 1 /\ (addr_counter + 4) % NumBytes \in 0 .. NumBytes - 1
    BY UnitAssumption DEF InvType, TypeOK
  <2> QED BY <1>1, <2>1, <2>2, Addresses DEF LsuInterfaceCycle
<1>5. ls_fsm_cs' \in LSU!LsuStates /\ addr_last_q' \in 0 .. NumBytes - 1
  BY <1>1, Addresses, LsuWires, LsuTypes
<1>6. insn' \in Instructions \cup {None}
  <2>1. insn \in Instructions \cup {None} /\ scenario \in Scenarios
    BY DEF InvType, TypeOK
  <2>2. \A k \in DOMAIN scenario.program : scenario.program[k] \in Instructions
    BY <2>1 DEF Instructions
  <2> QED BY <1>1, <2>1, <2>2 DEF Stage
<1>7. waited' \in 0 .. scenario.wait
  <2>1. waited \in 0 .. scenario.wait /\ scenario.wait \in Nat
    BY UnitAssumption DEF InvType, TypeOK
  <2> QED BY <1>1, <2>1 DEF Memory
<1> QED BY <1>1, <1>2, <1>3, <1>4, <1>5, <1>6, <1>7 DEF InvType, TypeOK, VrfRegs

LEMMA InitTypes == Init => InvType
<1> SUFFICES ASSUME Init PROVE InvType
  OBVIOUS
<1>1. NumBytes - 1 \in Nat /\ MaxIterations - 1 \in Nat /\ BankWords - 1 \in Nat
  BY UnitAssumption, MaxIterationsAssumption, RegWordsAssumption DEF BankWords
<1>2. VrfRegs
  BY <1>1 DEF Init, VrfInit, VrfRegs, VrfStates
<1>3. addr_q \in [Ports -> 0 .. BankWords - 1]
  BY <1>1 DEF Init, AguInit
<1>4. addr_counter \in 0 .. NumBytes - 1 /\ addr_last_q \in 0 .. NumBytes - 1 /\ ls_fsm_cs \in LSU!LsuStates
  BY <1>1 DEF Init, LSU!LsuInit, LsuInterfaceInit, LSU!LsuStates
<1>5. scenario \in Scenarios /\ waited \in 0 .. scenario.wait /\ insn \in Instructions \cup {None}
  BY UnitAssumption DEF Init
<1> QED BY <1>2, <1>3, <1>4, <1>5 DEF InvType, TypeOK, VrfRegs

THEOREM TypeInvariance == Spec => []InvType
<1>1. InvType /\ [Next]_vars => InvType'
  <2> SUFFICES ASSUME InvType, [Next]_vars PROVE InvType'
    OBVIOUS
  <2>1. CASE Next
    BY <2>1, StepTypes DEF Next
  <2>2. CASE UNCHANGED vars
    BY <2>2 DEF vars, vrfVars, LSU!lsuVars, InvType, TypeOK, VrfRegs
  <2> QED BY <2>1, <2>2
<1> QED BY <1>1, InitTypes, PTL DEF Spec

(* Every register that controls the unit holds what it is meant to, with a   *)
(* memory that answers late as well.                                          *)
THEOREM TypesHold == Spec => []TypeOK
BY TypeInvariance, PTL DEF InvType

----------------------------------------------------------------------------
(* Who is on the port.                                                       *)

(* The sequencer waits for the load/store unit.                              *)
Serving == \/ vrf_state = "LOAD" /\ ~last_iteration_q
           \/ vrf_state = "STORE_WAITLSU" /\ ~first_iteration_q

(* What is on the bus.                                                       *)
One(unit) == \E x : x.unit = unit /\ bus = <<x>>
Two(unit) == \E x, y : x.unit = unit /\ y.unit = unit /\ bus = <<x, y>>

(* The switch remembers the unit that asked, and what is on the bus is what  *)
(* the state of that unit says.                                               *)
Routing ==
  /\ ~pmp_err_q /\ ~lsu_err_q /\ ~stray
  /\ IF Serving
       THEN /\ prev_op_q = "LSU"
            /\ ls_fsm_cs \in {"IDLE", "WAIT_RVALID_MIS"} => One("LSU")
            /\ ls_fsm_cs \in {"WAIT_GNT", "WAIT_GNT_MIS"} => bus = <<>>
            /\ ls_fsm_cs = "WAIT_RVALID_MIS_GNTS_DONE" => Two("LSU")
       ELSE prev_op_q = "VRF" /\ ls_fsm_cs = "IDLE" /\ (bus = <<>> \/ One("VRF"))

(* Where the sequencer has no access open, and where it waits for one.       *)
Sequencing ==
  /\ vrf_state \in {"IDLE", "START", "STORE_WAITGNT"} => bus = <<>>
  /\ vrf_state = "STORE_WAITLSU" /\ first_iteration_q => bus = <<>>
  /\ vrf_state = "STORE_READ" => (last_iteration_q <=> bus = <<>>)
  /\ vrf_state \in {"START", "STORE_WAITGNT"} => ~last_iteration_q
  /\ vrf_state # "IDLE" => vector_op /\ ~first
  /\ vrf_state \notin {"IDLE", "START", "STORE_READ", "STORE_WAITLSU", "STORE_WAITGNT"} => ~scenario.late
  /\ scenario.late /\ vector_op => insn.name \in ISA!Stores

PortInv == InvType /\ Routing /\ Sequencing

(* A clock edge with its wires.                                              *)
Wired(gnt, rvalid, i, l, r) ==
  /\ i = VrfInput(gnt, rvalid) /\ l = LsuInput(i, rvalid) /\ r = Request(i, l)
  /\ gnt => r # NoRequest
  /\ r # NoRequest /\ waited = scenario.wait => gnt
  /\ VrfCycle(i, Zero) /\ LSU!LsuCycle(l)
  /\ Counters(i)
  /\ SwitchCycle(vector_op, i.has_mem, lsu_resp_valid(rvalid))
  /\ LsuInterfaceCycle(data_load_addr_o(i), insn.base, lsu_resp_valid(rvalid),
                       unit_stride, scalar_addr, NumBytes)
  /\ Memory(r, gnt, rvalid) /\ Stage(i) /\ UNCHANGED scenario

(* The request and the unit it comes from.                                   *)
LEMMA Requests ==
  ASSUME NEW i, NEW l, NEW r, r = Request(i, l)
  PROVE  /\ r # NoRequest <=> IF i.has_mem THEN data_req_o(i) ELSE LSU!data_req_o(l)
         /\ r # NoRequest => r.unit = IF i.has_mem THEN "VRF" ELSE "LSU"
<1>1. \A u, a, w, b, d : /\ PortRequest(u, a, w, b, d).unit = u
                         /\ PortRequest(u, a, w, b, d) # NoRequest
  <2> SUFFICES ASSUME NEW u, NEW a, NEW w, NEW b, NEW d
               PROVE  /\ PortRequest(u, a, w, b, d).unit = u
                      /\ PortRequest(u, a, w, b, d) # NoRequest
    OBVIOUS
  <2> DEFINE p == PortRequest(u, a, w, b, d)
  <2>1. p.unit = u /\ "unit" \in DOMAIN p
    BY DEF PortRequest
  <2>2. "unit" \notin DOMAIN NoRequest
    BY DEF NoRequest
  <2> QED BY <2>1, <2>2
<1> QED BY <1>1 DEF Request

(* Queues of one and of two requests.                                        *)
LEMMA ShortBuses ==
  ASSUME NEW x, NEW y
  PROVE  /\ <<x>> # <<>> /\ Head(<<x>>) = x /\ Tail(<<x>>) = <<>>
         /\ <<x, y>> # <<>> /\ Head(<<x, y>>) = x /\ Tail(<<x, y>>) = <<y>>
         /\ Append(<<>>, x) = <<x>> /\ Append(<<x>>, y) = <<x, y>>
<1>1. <<x>> # <<>> /\ Head(<<x>>) = x
  OBVIOUS
<1>2. Tail(<<x>>) = <<>>
  OBVIOUS
<1>3. <<x, y>> # <<>> /\ Head(<<x, y>>) = x
  OBVIOUS
<1>4. Tail(<<x, y>>) = <<y>>
  OBVIOUS
<1>5. Append(<<>>, x) = <<x>>
  OBVIOUS
<1>6. Append(<<x>>, y) = <<x, y>>
  <2> DEFINE s == Append(<<x>>, y)
  <2>1. <<x>> \in Seq({x, y}) /\ <<x, y>> \in Seq({x, y})
    OBVIOUS
  <2>2. s \in Seq({x, y}) /\ Len(s) = 2 /\ s[1] = x /\ s[2] = y
    BY <2>1, AppendProperties
  <2> HIDE DEF s
  <2>3. Len(<<x, y>>) = 2 /\ <<x, y>>[1] = x /\ <<x, y>>[2] = y
    OBVIOUS
  <2> DEFINE t == <<x, y>>
  <2>4. t \in Seq({x, y}) /\ Len(t) = 2 /\ t[1] = x /\ t[2] = y
    BY <2>1, <2>3
  <2> HIDE DEF t
  <2>5. Len(s) = Len(t) /\ \A i \in 1 .. Len(s) : s[i] = t[i]
    BY <2>2, <2>4
  <2>6. s = t
    BY <2>2, <2>4, <2>5, SeqEqual
  <2> QED BY <2>6 DEF s, t
<1> QED BY <1>1, <1>2, <1>3, <1>4, <1>5, <1>6

(* What an answer and a grant do to the queue.                               *)
LEMMA Queue ==
  ASSUME NEW r, NEW gnt \in BOOLEAN, NEW rvalid \in BOOLEAN, Memory(r, gnt, rvalid), gnt => r # NoRequest
  PROVE  /\ (bus = <<>> /\ ~rvalid) => IF gnt THEN One(r.unit)' ELSE bus' = <<>>
         /\ \A u : One(u) /\ rvalid => IF gnt THEN One(r.unit)' ELSE bus' = <<>>
         /\ \A u : One(u) /\ ~rvalid => IF gnt THEN r.unit = u => Two(u)' ELSE One(u)'
         /\ \A u : Two(u) /\ ~gnt => IF rvalid THEN One(u)' ELSE Two(u)'
<1> DEFINE rest == IF rvalid THEN Tail(bus) ELSE bus
<1>1. PICK x : x.unit = r.unit /\ bus' = IF gnt THEN Append(rest, x) ELSE rest
  <2> DEFINE x == [unit |-> r.unit, we |-> r.we,
                   data |-> IF r.we THEN Zero ELSE [k \in WordLanes |-> ISA!Read(mem, r.addr + k)]]
  <2>1. x.unit = r.unit
    OBVIOUS
  <2>2. bus' = IF gnt THEN Append(rest, x) ELSE rest
    BY DEF Memory
  <2> HIDE DEF x
  <2> QED BY <2>1, <2>2
<1>2. ASSUME rest = <<>>
      PROVE  IF gnt THEN One(r.unit)' ELSE bus' = <<>>
  <2>1. Append(<<>>, x) = <<x>>
    BY ShortBuses
  <2>2. bus' = IF gnt THEN <<x>> ELSE <<>>
    BY <1>1, <1>2, <2>1
  <2> QED BY <1>1, <2>2 DEF One
<1>3. (bus = <<>> /\ ~rvalid) => IF gnt THEN One(r.unit)' ELSE bus' = <<>>
  BY <1>2
<1>4. ASSUME NEW u, One(u), rvalid
      PROVE  IF gnt THEN One(r.unit)' ELSE bus' = <<>>
  <2>1. rest = <<>>
    BY <1>4 DEF One
  <2> QED BY <1>2, <2>1
<1>5. ASSUME NEW u, One(u), ~rvalid
      PROVE  IF gnt THEN r.unit = u => Two(u)' ELSE One(u)'
  <2>1. PICK y : y.unit = u /\ rest = <<y>>
    BY <1>5 DEF One
  <2>2. Append(<<y>>, x) = <<y, x>>
    BY ShortBuses
  <2> QED BY <1>1, <2>1, <2>2 DEF One, Two
<1>6. ASSUME NEW u, Two(u), ~gnt
      PROVE  IF rvalid THEN One(u)' ELSE Two(u)'
  <2>1. PICK y, z : y.unit = u /\ z.unit = u /\ bus = <<y, z>>
    BY <1>6 DEF Two
  <2>2. Tail(<<y, z>>) = <<z>>
    OBVIOUS
  <2> QED BY <1>1, <1>6, <2>1, <2>2 DEF One, Two
<1> QED BY <1>3, <1>4, <1>5, <1>6

(* When an answer comes, and whose it is.                                    *)
LEMMA AnswerComes ==
  ASSUME PortInv, NEW gnt \in BOOLEAN, NEW rvalid \in Answers, NEW i, NEW l, NEW r,
         Wired(gnt, rvalid, i, l, r)
  PROVE  /\ rvalid \in BOOLEAN
         /\ rvalid => bus # <<>> /\ vector_op
         /\ bus # <<>> /\ ~scenario.late => rvalid
         /\ i.rvalid <=> rvalid /\ ~Serving
         /\ i.lsu_done <=> rvalid /\ Serving /\ ls_fsm_cs = "IDLE"
         /\ l.rvalid <=> rvalid /\ Serving
         /\ lsu_resp_valid(rvalid) <=> i.lsu_done
         /\ stray' = FALSE
<1>1. rvalid \in BOOLEAN /\ (rvalid => bus # <<>>) /\ (bus # <<>> /\ ~scenario.late => rvalid)
  BY DEF Answers
<1>2. rvalid => vector_op
  BY <1>1 DEF PortInv, Sequencing
<1>3. prev_op_q = IF Serving THEN "LSU" ELSE "VRF"
  BY DEF PortInv, Routing
<1>4. i.rvalid <=> rvalid /\ ~Serving
  BY <1>2, <1>3, Wires DEF Wired, vrf_rvalid
<1>5. l.rvalid <=> rvalid /\ Serving
  BY <1>2, <1>3, LsuWires DEF Wired, lsu_rvalid
<1>6. lsu_resp_valid(rvalid) <=> rvalid /\ Serving /\ ls_fsm_cs = "IDLE"
  BY <1>2, <1>3 DEF lsu_resp_valid, LSU!lsu_resp_valid_o, lsu_rvalid, PortInv, Routing
<1>7. lsu_resp_valid(rvalid) <=> i.lsu_done
  BY Wires DEF Wired
<1>8. stray' = FALSE
  <2>1. rvalid => Head(bus).unit = prev_op_q
    <3>1. bus = <<>> \/ One(prev_op_q) \/ Two(prev_op_q)
      BY DEF PortInv, Routing, InvType, TypeOK, LSU!LsuStates
    <3>2. One(prev_op_q) \/ Two(prev_op_q) => Head(bus).unit = prev_op_q
      BY ShortBuses DEF One, Two
    <3> QED BY <1>1, <3>1, <3>2
  <2>2. rvalid => Routed(rvalid) = prev_op_q
    BY <1>2, <1>3 DEF Routed, vrf_rvalid
  <2>3. stray' = (rvalid /\ Head(bus).unit # Routed(rvalid))
    BY DEF Wired, Memory
  <2> QED BY <1>1, <2>1, <2>2, <2>3
<1>9. i.lsu_done <=> rvalid /\ Serving /\ ls_fsm_cs = "IDLE"
  BY <1>6, <1>7
<1>10. /\ rvalid \in BOOLEAN
       /\ rvalid => bus # <<>> /\ vector_op
       /\ bus # <<>> /\ ~scenario.late => rvalid
  BY <1>1, <1>2
<1> QED BY <1>4, <1>5, <1>7, <1>8, <1>9, <1>10

(* The states of the load/store unit without errors.                         *)
LEMMA LsuSteps ==
  ASSUME PortInv, NEW gnt \in BOOLEAN, NEW rvalid \in Answers, NEW i, NEW l, NEW r,
         Wired(gnt, rvalid, i, l, r)
  PROVE  /\ ~pmp_err_q' /\ ~lsu_err_q'
         /\ ls_fsm_cs = "IDLE" =>
              IF ~l.lsu_req THEN ls_fsm_cs' = "IDLE" /\ ~LSU!data_req_o(l)
              ELSE /\ LSU!data_req_o(l)
                   /\ l.gnt => ls_fsm_cs' \in {"IDLE", "WAIT_RVALID_MIS"}
                   /\ ~l.gnt => ls_fsm_cs' \in {"WAIT_GNT", "WAIT_GNT_MIS"}
         /\ ls_fsm_cs = "WAIT_GNT_MIS" =>
              LSU!data_req_o(l) /\ ls_fsm_cs' = IF l.gnt THEN "WAIT_RVALID_MIS" ELSE "WAIT_GNT_MIS"
         /\ ls_fsm_cs = "WAIT_GNT" =>
              LSU!data_req_o(l) /\ ls_fsm_cs' = IF l.gnt THEN "IDLE" ELSE "WAIT_GNT"
         /\ ls_fsm_cs = "WAIT_RVALID_MIS" =>
              /\ LSU!data_req_o(l)
              /\ ls_fsm_cs' = IF l.rvalid THEN IF l.gnt THEN "IDLE" ELSE "WAIT_GNT"
                              ELSE IF l.gnt THEN "WAIT_RVALID_MIS_GNTS_DONE" ELSE "WAIT_RVALID_MIS"
         /\ ls_fsm_cs = "WAIT_RVALID_MIS_GNTS_DONE" =>
              /\ ~LSU!data_req_o(l)
              /\ ls_fsm_cs' = IF l.rvalid THEN "IDLE" ELSE "WAIT_RVALID_MIS_GNTS_DONE"
<1>1. ~pmp_err_q /\ ~lsu_err_q /\ LSU!LsuCycle(l) /\ l.err = FALSE /\ l.pmp_err = FALSE
  BY LsuWires DEF PortInv, Routing, Wired
<1>2. ~pmp_err_q' /\ ~lsu_err_q'
  BY <1>1 DEF LSU!LsuCycle, LSU!IdleNoRequest, LSU!IdleRequest, LSU!WaitGntMis, LSU!WaitRvalidMis,
     LSU!WaitGnt, LSU!WaitRvalidMisGntsDone, LSU!first_half_err
<1>3. ls_fsm_cs = "IDLE" =>
        IF ~l.lsu_req THEN ls_fsm_cs' = "IDLE" /\ ~LSU!data_req_o(l)
        ELSE /\ LSU!data_req_o(l)
             /\ l.gnt => ls_fsm_cs' \in {"IDLE", "WAIT_RVALID_MIS"}
             /\ ~l.gnt => ls_fsm_cs' \in {"WAIT_GNT", "WAIT_GNT_MIS"}
  BY <1>1 DEF LSU!LsuCycle, LSU!IdleNoRequest, LSU!IdleRequest, LSU!WaitGntMis, LSU!WaitRvalidMis,
     LSU!WaitGnt, LSU!WaitRvalidMisGntsDone, LSU!data_req_o
<1>4. ls_fsm_cs # "IDLE" => (LSU!data_req_o(l) <=> ls_fsm_cs \in {"WAIT_GNT_MIS", "WAIT_RVALID_MIS", "WAIT_GNT"})
  BY DEF LSU!data_req_o
<1>5. ls_fsm_cs = "WAIT_GNT_MIS" => ls_fsm_cs' = IF l.gnt THEN "WAIT_RVALID_MIS" ELSE "WAIT_GNT_MIS"
  BY <1>1 DEF LSU!LsuCycle, LSU!IdleNoRequest, LSU!IdleRequest, LSU!WaitGntMis, LSU!WaitRvalidMis,
     LSU!WaitGnt, LSU!WaitRvalidMisGntsDone
<1>6. ls_fsm_cs = "WAIT_GNT" => ls_fsm_cs' = IF l.gnt THEN "IDLE" ELSE "WAIT_GNT"
  BY <1>1 DEF LSU!LsuCycle, LSU!IdleNoRequest, LSU!IdleRequest, LSU!WaitGntMis, LSU!WaitRvalidMis,
     LSU!WaitGnt, LSU!WaitRvalidMisGntsDone
<1>7. ls_fsm_cs = "WAIT_RVALID_MIS" =>
        ls_fsm_cs' = IF l.rvalid THEN IF l.gnt THEN "IDLE" ELSE "WAIT_GNT"
                     ELSE IF l.gnt THEN "WAIT_RVALID_MIS_GNTS_DONE" ELSE "WAIT_RVALID_MIS"
  BY <1>1 DEF LSU!LsuCycle, LSU!IdleNoRequest, LSU!IdleRequest, LSU!WaitGntMis, LSU!WaitRvalidMis,
     LSU!WaitGnt, LSU!WaitRvalidMisGntsDone, LSU!first_half_answered
<1>8. ls_fsm_cs = "WAIT_RVALID_MIS_GNTS_DONE" =>
        ls_fsm_cs' = IF l.rvalid THEN "IDLE" ELSE "WAIT_RVALID_MIS_GNTS_DONE"
  BY <1>1 DEF LSU!LsuCycle, LSU!IdleNoRequest, LSU!IdleRequest, LSU!WaitGntMis, LSU!WaitRvalidMis,
     LSU!WaitGnt, LSU!WaitRvalidMisGntsDone
<1> QED BY <1>2, <1>3, <1>4, <1>5, <1>6, <1>7, <1>8

(* An instruction stays until the unit is done with it; a late one is a      *)
(* store.                                                                     *)
LEMMA Staged ==
  ASSUME PortInv, NEW gnt \in BOOLEAN, NEW rvalid \in Answers, NEW i, NEW l, NEW r,
         Wired(gnt, rvalid, i, l, r), OnlyStoresAreLate
  PROVE  /\ vector_op /\ (first \/ ~vector_done_o(i)) => insn' = insn /\ first' = FALSE
         /\ (scenario.late /\ vector_op)' => (insn.name \in ISA!Stores)'
         /\ scenario' = scenario
<1>1. Stage(i) /\ scenario' = scenario /\ scenario \in Scenarios
  BY DEF Wired, PortInv, InvType
<1>2. vector_op /\ (first \/ ~vector_done_o(i)) => insn' = insn /\ first' = FALSE
  BY <1>1 DEF Stage
<1>3. ASSUME scenario.late, insn' # None
      PROVE  insn'.name \in ISA!Stores
  <2>1. \A k \in DOMAIN scenario.program : scenario.program[k].name \in ISA!Stores
    BY <1>1, <1>3 DEF OnlyStoresAreLate
  <2>2. insn' = insn \/ \E k \in DOMAIN scenario.program : insn' = scenario.program[k]
    BY <1>1, <1>3 DEF Stage
  <2>3. vector_op => insn.name \in ISA!Stores
    BY <1>3 DEF PortInv, Sequencing
  <2> QED BY <1>3, <2>1, <2>2, <2>3 DEF vector_op
<1> QED BY <1>1, <1>2, <1>3 DEF vector_op, ISA!Stores

(* The wires of the switch.                                                  *)
LEMMA SwitchWires ==
  ASSUME PortInv, NEW gnt \in BOOLEAN, NEW rvalid \in Answers, NEW i, NEW l, NEW r,
         Wired(gnt, rvalid, i, l, r)
  PROVE  /\ i.has_mem <=> vector_op /\ ~lsu_req_o(i) /\ ls_fsm_cs = "IDLE"
         /\ i.gnt <=> i.has_mem /\ gnt
         /\ l.gnt <=> ~i.has_mem /\ gnt
         /\ l.lsu_req <=> vector_op /\ lsu_req_o(i)
         /\ gnt => IF i.has_mem THEN data_req_o(i) ELSE LSU!data_req_o(l)
         /\ gnt => r.unit = IF i.has_mem THEN "VRF" ELSE "LSU"
         /\ i.req <=> vector_op
         /\ vector_op => i.op = Decoded
<1>1. i.has_mem = (vector_op /\ ~lsu_req_o(i) /\ ls_fsm_cs = "IDLE")
  BY Wires DEF Wired
<1>2. i.gnt = (i.has_mem /\ gnt) /\ i.lsu_gnt = (~i.has_mem /\ gnt)
  BY Wires DEF Wired
<1>3. l.gnt = i.lsu_gnt /\ (l.lsu_req <=> vector_op /\ lsu_req_o(i))
  <2>1. l = LsuInput(i, rvalid)
    BY DEF Wired
  <2> QED BY <2>1, LsuWires
<1>4. gnt => /\ IF i.has_mem THEN data_req_o(i) ELSE LSU!data_req_o(l)
             /\ r.unit = IF i.has_mem THEN "VRF" ELSE "LSU"
  BY Requests DEF Wired
<1>5. i.req = vector_op /\ i.op = (IF vector_op THEN Decoded ELSE NotDecoded)
  BY Wires DEF Wired
<1> QED BY <1>1, <1>2, <1>3, <1>4, <1>5

(* The sequencer is in one state.                                            *)
LEMMA FsmStates ==
  ASSUME NEW i, Fsm(i)
  PROVE  /\ vrf_state = "IDLE" => VrfIdle(i)
         /\ vrf_state = "START" => VrfStart(i)
         /\ vrf_state = "INT_READ1" => VrfIntRead1(i)
         /\ vrf_state = "INT_READ2" => VrfIntRead2(i)
         /\ vrf_state = "INT_READ3" => VrfIntRead3(i)
         /\ vrf_state = "INT_WRITE" => VrfIntWrite(i)
         /\ vrf_state = "LOAD_SLIDE" => VrfLoadSlide(i)
         /\ vrf_state = "READ" => VrfRead(i)
         /\ vrf_state = "WRITE" => VrfWrite(i)
         /\ vrf_state = "LOAD" => VrfLoad(i)
         /\ vrf_state = "LOAD_WAITGNT" => VrfLoadWaitGnt(i)
         /\ vrf_state = "LOAD_WRITE" => VrfLoadWrite(i)
         /\ vrf_state = "STORE_READ" => VrfStoreRead(i)
         /\ vrf_state = "STORE_WAITLSU" => VrfStoreWaitLsu(i)
         /\ vrf_state = "STORE_WAITGNT" => VrfStoreWaitGnt(i)
<1>1. /\ VrfIdle(i) => vrf_state = "IDLE"
      /\ VrfStart(i) => vrf_state = "START"
      /\ VrfIntRead1(i) => vrf_state = "INT_READ1"
      /\ VrfIntRead2(i) => vrf_state = "INT_READ2"
      /\ VrfIntRead3(i) => vrf_state = "INT_READ3"
      /\ VrfIntWrite(i) => vrf_state = "INT_WRITE"
      /\ VrfLoadSlide(i) => vrf_state = "LOAD_SLIDE"
      /\ VrfRead(i) => vrf_state = "READ"
      /\ VrfWrite(i) => vrf_state = "WRITE"
  BY Zenon DEF VrfIdle, VrfStart, VrfIntRead1, VrfIntRead2, VrfIntRead3, VrfIntWrite, VrfLoadSlide, VrfRead, VrfWrite
<1>2. /\ VrfLoad(i) => vrf_state = "LOAD"
      /\ VrfLoadWaitGnt(i) => vrf_state = "LOAD_WAITGNT"
      /\ VrfLoadWrite(i) => vrf_state = "LOAD_WRITE"
      /\ VrfStoreRead(i) => vrf_state = "STORE_READ"
      /\ VrfStoreWaitLsu(i) => vrf_state = "STORE_WAITLSU"
      /\ VrfStoreWaitGnt(i) => vrf_state = "STORE_WAITGNT"
  BY Zenon DEF VrfLoad, VrfLoadWaitGnt, VrfLoadWrite, VrfStoreRead, VrfStoreWaitLsu, VrfStoreWaitGnt
<1> QED BY <1>1, <1>2 DEF Fsm

(* The switch gives the port to the register file while the sequencer asks   *)
(* nothing of the load/store unit.                                           *)
LEMMA VrfTurn ==
  ASSUME PortInv, NEW gnt \in BOOLEAN, NEW rvalid \in Answers, NEW i, NEW l, NEW r,
         Wired(gnt, rvalid, i, l, r), ~Serving \/ i.lsu_done, ~lsu_req_o(i)
  PROVE  /\ prev_op_q' = "VRF" /\ ls_fsm_cs' = "IDLE"
         /\ i.gnt <=> gnt
         /\ gnt => data_req_o(i)
         /\ IF bus # <<>> /\ ~rvalid
              THEN IF gnt THEN TRUE ELSE One("VRF")' /\ bus' # <<>>
              ELSE IF gnt THEN One("VRF")' /\ bus' # <<>> ELSE bus' = <<>>
<1>1. ls_fsm_cs = "IDLE" /\ (Serving => prev_op_q = "LSU") /\ (~Serving => prev_op_q = "VRF")
  BY AnswerComes DEF PortInv, Routing
<1>2. ls_fsm_cs' = "IDLE" /\ ~LSU!data_req_o(l)
  BY <1>1, LsuSteps, SwitchWires
<1>3. prev_op_q' = "VRF"
  <2>1. SwitchCycle(vector_op, i.has_mem, lsu_resp_valid(rvalid))
    BY DEF Wired
  <2>2. vector_op => i.has_mem
    BY <1>1, SwitchWires
  <2>3. prev_op_q = "LSU" => lsu_resp_valid(rvalid)
    BY <1>1, AnswerComes
  <2> QED BY <2>1, <2>2, <2>3 DEF SwitchCycle
<1>4. gnt => i.has_mem
  BY <1>2, SwitchWires
<1>5. (i.gnt <=> gnt) /\ (gnt => data_req_o(i) /\ r.unit = "VRF")
  BY <1>4, SwitchWires
<1>6. bus = <<>> \/ One("VRF") \/ (One("LSU") /\ rvalid)
  BY <1>1, AnswerComes DEF PortInv, Routing
<1>7. \A u : One(u)' => bus' # <<>>
  BY ShortBuses DEF One
<1>8. \A u : One(u) => bus # <<>>
  BY ShortBuses DEF One
<1>9. Memory(r, gnt, rvalid) /\ (gnt => r # NoRequest) /\ rvalid \in BOOLEAN
  BY AnswerComes DEF Wired
<1>10. rvalid => bus # <<>>
  BY AnswerComes
<1>11. /\ (bus = <<>> /\ ~rvalid) => IF gnt THEN One(r.unit)' ELSE bus' = <<>>
       /\ \A u : One(u) /\ rvalid => IF gnt THEN One(r.unit)' ELSE bus' = <<>>
       /\ \A u : One(u) /\ ~rvalid => (~gnt => One(u)')
  BY <1>9, Queue
<1>12. IF bus # <<>> /\ ~rvalid
         THEN IF gnt THEN TRUE ELSE One("VRF")' /\ bus' # <<>>
         ELSE IF gnt THEN One("VRF")' /\ bus' # <<>> ELSE bus' = <<>>
  BY <1>5, <1>6, <1>7, <1>8, <1>10, <1>11
<1> QED BY <1>2, <1>3, <1>5, <1>12

(* The load/store unit is asked for an access: nothing else is open.         *)
LEMMA LsuTurn ==
  ASSUME PortInv, NEW gnt \in BOOLEAN, NEW rvalid \in Answers, NEW i, NEW l, NEW r,
         Wired(gnt, rvalid, i, l, r), lsu_req_o(i)
  PROVE  /\ ~Serving /\ vector_op /\ ~vector_done_o(i)
         /\ prev_op_q' = "LSU" /\ Serving'
         /\ ls_fsm_cs' \in {"IDLE", "WAIT_RVALID_MIS"} => One("LSU")'
         /\ ls_fsm_cs' \in {"WAIT_GNT", "WAIT_GNT_MIS"} => bus' = <<>>
         /\ ls_fsm_cs' \in {"IDLE", "WAIT_RVALID_MIS", "WAIT_GNT", "WAIT_GNT_MIS"}
         /\ vrf_state' \in {"LOAD", "STORE_WAITLSU"}
         /\ vrf_state' = "LOAD" => vrf_state \in {"START", "LOAD_WRITE"}
         /\ vrf_state = "START" => i.op.memory_op /\ "rs3" \notin i.op.sel
<1>1. \/ vrf_state = "START" /\ i.op.memory_op /\ "rs3" \notin i.op.sel /\ "rd" \in i.op.sel
      \/ vrf_state = "LOAD_WRITE" /\ ~last_iteration_q /\ ~final(i)
      \/ vrf_state = "STORE_READ" /\ store_ready(i) /\ ~first_iteration_q
  BY DEF lsu_req_o, store_ready
<1>2. ~Serving /\ vector_op
  BY <1>1 DEF Serving, PortInv, Sequencing
<1>3. prev_op_q = "VRF" /\ ls_fsm_cs = "IDLE" /\ (bus = <<>> \/ One("VRF"))
  BY <1>2 DEF PortInv, Routing
<1>4. ~i.has_mem /\ l.lsu_req /\ (l.gnt <=> gnt)
  BY <1>2, SwitchWires
<1>5. prev_op_q' = "LSU"
  <2>1. SwitchCycle(vector_op, i.has_mem, lsu_resp_valid(rvalid))
    BY DEF Wired
  <2> QED BY <1>2, <1>3, <1>4, <2>1 DEF SwitchCycle
<1>6. rvalid \/ bus = <<>>
  <2>1. vrf_state = "START" => bus = <<>>
    BY DEF PortInv, Sequencing
  <2>2. vrf_state = "LOAD_WRITE" => ~scenario.late
    BY DEF PortInv, Sequencing
  <2>3. bus # <<>> /\ ~scenario.late => rvalid
    BY AnswerComes
  <2>4. vrf_state = "STORE_READ" => (last_iteration_q <=> bus = <<>>)
    BY DEF PortInv, Sequencing
  <2>5. i.rvalid <=> rvalid /\ ~Serving
    BY AnswerComes
  <2> QED BY <1>1, <1>2, <2>1, <2>2, <2>3, <2>4, <2>5 DEF store_ready
<1>7. IF gnt THEN One("LSU")' ELSE bus' = <<>>
  <2>1. Memory(r, gnt, rvalid) /\ (gnt => r # NoRequest) /\ rvalid \in BOOLEAN
    BY AnswerComes DEF Wired
  <2>2. rvalid => bus # <<>>
    BY AnswerComes
  <2>3. gnt => r.unit = "LSU"
    BY <1>4, SwitchWires
  <2> QED BY <1>3, <1>6, <2>1, <2>2, <2>3, Queue
<1>8. IF gnt THEN ls_fsm_cs' \in {"IDLE", "WAIT_RVALID_MIS"} ELSE ls_fsm_cs' \in {"WAIT_GNT", "WAIT_GNT_MIS"}
  BY <1>3, <1>4, LsuSteps
<1>9. Fsm(i)
  BY DEF Wired, VrfCycle
<1>10. CASE vrf_state = "START"
  <2>1. VrfStart(i) /\ data_access(i) = "none"
    BY <1>1, <1>9, <1>10, FsmStates DEF data_access, load_ready, lsu_answered
  <2>2. vrf_state' = "LOAD" /\ last_iteration_q' = last_iteration_q
    BY <2>1 DEF VrfStart, unchangedIterations
  <2>3. ~last_iteration_q
    BY <1>10 DEF PortInv, Sequencing
  <2>4. ~vector_done_o(i)
    BY <1>10 DEF vector_done_o, lsu_answered
  <2> QED BY <1>1, <1>2, <1>5, <1>7, <1>8, <1>10, <2>2, <2>3, <2>4 DEF Serving
<1>11. CASE vrf_state = "LOAD_WRITE"
  <2>1. VrfLoadWrite(i) /\ ~last_iteration_q /\ ~final(i)
    BY <1>1, <1>9, <1>11, FsmStates
  <2>2. vrf_state' = "LOAD" /\ ~last_iteration_q'
    BY <2>1 DEF VrfLoadWrite, CountDown
  <2>3. ~vector_done_o(i)
    BY <1>11, <2>1 DEF vector_done_o, lsu_answered
  <2> QED BY <1>2, <1>5, <1>7, <1>8, <1>11, <2>2, <2>3 DEF Serving
<1>12. CASE vrf_state = "STORE_READ"
  <2>1. VrfStoreRead(i) /\ store_ready(i) /\ ~first_iteration_q
    BY <1>1, <1>9, <1>12, FsmStates
  <2>2. vrf_state' = "STORE_WAITLSU" /\ ~first_iteration_q'
    BY <2>1 DEF VrfStoreRead, unchangedFirst
  <2>3. ~vector_done_o(i)
    BY <1>12 DEF vector_done_o, lsu_answered
  <2> QED BY <1>2, <1>5, <1>7, <1>8, <1>12, <2>2, <2>3 DEF Serving
<1> QED BY <1>1, <1>10, <1>11, <1>12

(* While the load/store unit works on an access the sequencer waits.         *)
LEMMA LsuWorks ==
  ASSUME PortInv, NEW gnt \in BOOLEAN, NEW rvalid \in Answers, NEW i, NEW l, NEW r,
         Wired(gnt, rvalid, i, l, r), Serving, ~i.lsu_done
  PROVE  /\ vector_op /\ ~vector_done_o(i)
         /\ prev_op_q' = "LSU" /\ Serving' /\ vrf_state' = vrf_state
         /\ ls_fsm_cs' \in {"IDLE", "WAIT_RVALID_MIS"} => One("LSU")'
         /\ ls_fsm_cs' \in {"WAIT_GNT", "WAIT_GNT_MIS"} => bus' = <<>>
         /\ ls_fsm_cs' = "WAIT_RVALID_MIS_GNTS_DONE" => Two("LSU")'
<1>1. \/ vrf_state = "LOAD" /\ ~last_iteration_q
      \/ vrf_state = "STORE_WAITLSU" /\ ~first_iteration_q
  BY DEF Serving
<1>2. vector_op /\ ~lsu_req_o(i) /\ ~load_ready(i) /\ ~lsu_answered(i)
  BY <1>1 DEF PortInv, Sequencing, lsu_req_o, store_ready, load_ready, lsu_answered
<1>3. ~vector_done_o(i) /\ ~data_req_o(i)
  BY <1>1, <1>2 DEF vector_done_o, data_req_o, data_access
<1>4. Serving' /\ vrf_state' = vrf_state
  <2>1. Fsm(i)
    BY DEF Wired, VrfCycle
  <2>2. vrf_state = "LOAD" => vrf_state' = vrf_state /\ last_iteration_q' = last_iteration_q
    BY <1>2, <2>1, FsmStates DEF VrfLoad, unchangedIterations
  <2>3. vrf_state = "STORE_WAITLSU" => vrf_state' = vrf_state /\ first_iteration_q' = first_iteration_q
    BY <1>2, <2>1, FsmStates DEF VrfStoreWaitLsu
  <2> QED BY <1>1, <2>2, <2>3 DEF Serving
<1>5. /\ prev_op_q = "LSU"
      /\ ls_fsm_cs \in {"IDLE", "WAIT_RVALID_MIS"} => One("LSU")
      /\ ls_fsm_cs \in {"WAIT_GNT", "WAIT_GNT_MIS"} => bus = <<>>
      /\ ls_fsm_cs = "WAIT_RVALID_MIS_GNTS_DONE" => Two("LSU")
      /\ ls_fsm_cs \in {"IDLE", "WAIT_RVALID_MIS", "WAIT_GNT", "WAIT_GNT_MIS", "WAIT_RVALID_MIS_GNTS_DONE"}
  BY DEF PortInv, Routing, InvType, TypeOK, LSU!LsuStates
<1>6. prev_op_q' = "LSU"
  <2>1. SwitchCycle(vector_op, i.has_mem, lsu_resp_valid(rvalid)) /\ ~lsu_resp_valid(rvalid)
    BY AnswerComes DEF Wired
  <2> QED BY <1>2, <1>5, <2>1 DEF SwitchCycle
<1>7. (i.has_mem <=> ls_fsm_cs = "IDLE") /\ (l.gnt <=> ~i.has_mem /\ gnt) /\ ~l.lsu_req
  BY <1>2, SwitchWires
<1>8. gnt => /\ ls_fsm_cs \in {"WAIT_RVALID_MIS", "WAIT_GNT", "WAIT_GNT_MIS"}
             /\ r.unit = "LSU"
  <2>1. gnt => IF i.has_mem THEN data_req_o(i) ELSE LSU!data_req_o(l)
    BY SwitchWires
  <2>2. gnt => ~i.has_mem
    BY <1>3, <2>1
  <2>3. ls_fsm_cs = "WAIT_RVALID_MIS_GNTS_DONE" => ~LSU!data_req_o(l)
    BY LsuSteps
  <2>4. gnt => r.unit = "LSU"
    BY <2>2, SwitchWires
  <2> QED BY <1>5, <1>7, <2>1, <2>2, <2>3, <2>4
<1>9. (l.rvalid <=> rvalid) /\ (rvalid => bus # <<>>) /\ (ls_fsm_cs = "IDLE" => ~rvalid)
  BY AnswerComes
<1>10. Memory(r, gnt, rvalid) /\ (gnt => r # NoRequest) /\ rvalid \in BOOLEAN
  BY AnswerComes DEF Wired
<1>11. /\ (bus = <<>> /\ ~rvalid) => IF gnt THEN One(r.unit)' ELSE bus' = <<>>
       /\ One("LSU") /\ rvalid => IF gnt THEN One(r.unit)' ELSE bus' = <<>>
       /\ One("LSU") /\ ~rvalid => IF gnt THEN r.unit = "LSU" => Two("LSU")' ELSE One("LSU")'
       /\ Two("LSU") /\ ~gnt => IF rvalid THEN One("LSU")' ELSE Two("LSU")'
  BY <1>10, Queue
<1>12. CASE ls_fsm_cs = "IDLE"
  <2>1. ls_fsm_cs' = "IDLE"
    BY <1>7, <1>12, LsuSteps
  <2> QED BY <1>2, <1>3, <1>4, <1>5, <1>6, <1>8, <1>9, <1>11, <1>12, <2>1
<1>13. CASE ls_fsm_cs = "WAIT_RVALID_MIS"
  <2>1. ls_fsm_cs' = IF rvalid THEN IF gnt THEN "IDLE" ELSE "WAIT_GNT"
                     ELSE IF gnt THEN "WAIT_RVALID_MIS_GNTS_DONE" ELSE "WAIT_RVALID_MIS"
    BY <1>7, <1>9, <1>13, LsuSteps
  <2> QED BY <1>2, <1>3, <1>4, <1>5, <1>6, <1>8, <1>11, <1>13, <2>1
<1>14. CASE ls_fsm_cs = "WAIT_GNT"
  <2>1. ls_fsm_cs' = IF gnt THEN "IDLE" ELSE "WAIT_GNT"
    BY <1>7, <1>14, LsuSteps
  <2> QED BY <1>2, <1>3, <1>4, <1>5, <1>6, <1>8, <1>9, <1>11, <1>14, <2>1
<1>15. CASE ls_fsm_cs = "WAIT_GNT_MIS"
  <2>1. ls_fsm_cs' = IF gnt THEN "WAIT_RVALID_MIS" ELSE "WAIT_GNT_MIS"
    BY <1>7, <1>15, LsuSteps
  <2> QED BY <1>2, <1>3, <1>4, <1>5, <1>6, <1>8, <1>9, <1>11, <1>15, <2>1
<1>16. CASE ls_fsm_cs = "WAIT_RVALID_MIS_GNTS_DONE"
  <2>1. ls_fsm_cs' = IF rvalid THEN "IDLE" ELSE "WAIT_RVALID_MIS_GNTS_DONE"
    BY <1>9, <1>16, LsuSteps
  <2> QED BY <1>2, <1>3, <1>4, <1>5, <1>6, <1>8, <1>11, <1>16, <2>1
<1> QED BY <1>5, <1>12, <1>13, <1>14, <1>15, <1>16

(* The sequencer moves with an eye on its own access: it does not go where   *)
(* none may be open before that one is answered.                             *)
LEMMA VrfMoves ==
  ASSUME PortInv, NEW gnt \in BOOLEAN, NEW rvalid \in Answers, NEW i, NEW l, NEW r,
         Wired(gnt, rvalid, i, l, r), ~Serving \/ i.lsu_done, ~lsu_req_o(i)
  PROVE  /\ ~Serving'
         /\ bus' = <<>> \/ One("VRF")'
         /\ vrf_state' \in {"IDLE", "START", "STORE_WAITGNT"} => bus' = <<>>
         /\ vrf_state' = "STORE_WAITLSU" /\ first_iteration_q' => bus' = <<>>
         /\ vrf_state' = "STORE_READ" => (last_iteration_q' <=> bus' = <<>>)
         /\ vrf_state' \in {"START", "STORE_WAITGNT"} => ~last_iteration_q'
         /\ vrf_state' # "IDLE" => vector_op /\ (first \/ ~vector_done_o(i))
         /\ vrf_state' \notin {"IDLE", "START", "STORE_READ", "STORE_WAITLSU", "STORE_WAITGNT"} => ~scenario.late
<1> DEFINE Goal == /\ ~Serving'
                   /\ vrf_state' \in {"IDLE", "START", "STORE_WAITGNT"} => bus' = <<>>
                   /\ vrf_state' = "STORE_WAITLSU" /\ first_iteration_q' => bus' = <<>>
                   /\ vrf_state' = "STORE_READ" => (last_iteration_q' <=> bus' = <<>>)
                   /\ vrf_state' \in {"START", "STORE_WAITGNT"} => ~last_iteration_q'
                   /\ vrf_state' # "IDLE" => vector_op /\ ~vector_done_o(i)
                   /\ vrf_state' \notin {"IDLE", "START", "STORE_READ", "STORE_WAITLSU", "STORE_WAITGNT"} => ~scenario.late
<1>1. /\ i.gnt <=> gnt
      /\ gnt => data_req_o(i)
      /\ IF bus # <<>> /\ ~rvalid
           THEN ~gnt => One("VRF")' /\ bus' # <<>>
           ELSE IF gnt THEN One("VRF")' /\ bus' # <<>> ELSE bus' = <<>>
  BY VrfTurn
<1>2. Fsm(i)
  BY DEF Wired, VrfCycle
<1>3. /\ vrf_state \in {"IDLE", "START", "STORE_WAITGNT"} => bus = <<>>
      /\ vrf_state = "STORE_WAITLSU" /\ first_iteration_q => bus = <<>>
      /\ vrf_state = "STORE_READ" => (last_iteration_q <=> bus = <<>>)
      /\ vrf_state \in {"START", "STORE_WAITGNT"} => ~last_iteration_q
      /\ vrf_state # "IDLE" => vector_op /\ ~first
      /\ vrf_state \notin {"IDLE", "START", "STORE_READ", "STORE_WAITLSU", "STORE_WAITGNT"} => ~scenario.late
      /\ scenario.late /\ vector_op => insn.name \in ISA!Stores
  BY DEF PortInv, Sequencing
<1>4. /\ rvalid => bus # <<>>
      /\ bus # <<>> /\ ~scenario.late => rvalid
      /\ i.rvalid <=> rvalid /\ ~Serving
      /\ i.lsu_done <=> rvalid /\ Serving /\ ls_fsm_cs = "IDLE"
  BY AnswerComes
<1>5. (i.req <=> vector_op) /\ (vector_op => i.op = Decoded)
  BY SwitchWires
<1>6. vrf_state \in VrfStates
  BY DEF PortInv, InvType, VrfRegs
<1>7. ~gnt /\ ~scenario.late => bus' = <<>>
  BY <1>1, <1>4
<1>8. bus' = <<>> \/ One("VRF")'
  <2>1. vrf_state = "STORE_READ" => ~data_req_o(i)
    BY DEF data_req_o, data_access, load_ready, lsu_answered
  <2>2. ~(bus # <<>> /\ ~rvalid /\ gnt)
    <3> SUFFICES ASSUME bus # <<>>, ~rvalid, gnt PROVE FALSE
      OBVIOUS
    <3>1. ~Serving /\ scenario.late
      BY <1>4
    <3>2. vrf_state = "STORE_READ"
      BY <1>3, <3>1 DEF Serving
    <3> QED BY <1>1, <2>1, <3>2
  <2> QED BY <1>1, <2>2
<1> SUFFICES Goal
  BY <1>8
<1>9. CASE vrf_state = "IDLE"
  <2>1. VrfIdle(i) /\ ~data_req_o(i)
    BY <1>2, <1>9, FsmStates DEF data_req_o, data_access, load_ready, lsu_answered
  <2>2. bus' = <<>>
    BY <1>1, <1>3, <1>4, <1>9, <2>1
  <2>3. ~last_iteration_q' /\ vrf_state' = IF agu_load_o(i) THEN "START" ELSE "IDLE"
    BY <1>9, <2>1 DEF VrfIdle
  <2>4. agu_load_o(i) => vector_op /\ ~vector_done_o(i)
    BY <1>5, <1>9 DEF agu_load_o, vector_done_o, lsu_answered
  <2> QED BY <2>2, <2>3, <2>4 DEF Serving
<1>10. CASE vrf_state = "START"
  <2>1. VrfStart(i)
    BY <1>2, <1>10, FsmStates
  <2>2. ~last_iteration_q' /\ ~last_iteration_q /\ bus = <<>> /\ vector_op
    BY <1>3, <1>10, <2>1 DEF VrfStart, unchangedIterations
  <2>3. ~vector_done_o(i)
    BY <1>10 DEF vector_done_o, lsu_answered
  <2>4. IF gnt THEN bus' # <<>> ELSE bus' = <<>>
    BY <1>1, <1>4, <2>2
  <2>5. gnt => data_access(i) # "none"
    BY <1>1 DEF data_req_o
  <2>6. vrf_state' = IF data_access(i) = "none" THEN "IDLE"
                     ELSE IF ~gnt THEN "START"
                     ELSE IF i.op.memory_op THEN "STORE_READ"
                     ELSE IF i.op.mult_ops THEN "INT_READ1"
                     ELSE IF data_access(i) = "write" THEN "WRITE"
                     ELSE IF slide_down(i) /\ slide_offset_q # 0 THEN "LOAD_SLIDE" ELSE "READ"
    BY <1>1, <1>10, <2>1 DEF VrfStart, OnGrant
  <2>7. ~i.op.memory_op => ~scenario.late
    <3>1. i.op.memory_op = memory_op
      BY <1>5, <2>2 DEF Decoded
    <3> QED BY <1>3, <2>2, <3>1 DEF memory_op
  <2> QED BY <2>2, <2>3, <2>4, <2>5, <2>6, <2>7 DEF Serving
<1>11. CASE vrf_state \in {"INT_READ1", "INT_READ2", "INT_READ3", "LOAD_SLIDE", "READ"}
  <2>1. ~scenario.late /\ vector_op /\ ~vector_done_o(i)
    BY <1>3, <1>11 DEF vector_done_o, lsu_answered
  <2>2. /\ vrf_state' \in {"INT_READ1", "INT_READ2", "INT_READ3", "INT_WRITE", "LOAD_SLIDE", "READ", "WRITE", "IDLE"}
        /\ vrf_state' = "IDLE" => ~data_req_o(i)
    <3>1. vrf_state = "INT_READ1" => vrf_state' \in {"INT_READ1", "INT_WRITE"}
      BY <1>2, FsmStates DEF VrfIntRead1, OnGrant
    <3>2. vrf_state = "LOAD_SLIDE" => vrf_state' \in {"LOAD_SLIDE", "READ"}
      BY <1>2, FsmStates DEF VrfLoadSlide, OnGrant
    <3>3. vrf_state = "READ" => vrf_state' \in {"READ", "WRITE"}
      BY <1>2, FsmStates DEF VrfRead, OnGrant
    <3>4. ASSUME vrf_state = "INT_READ2"
          PROVE  /\ vrf_state' \in {"INT_READ1", "INT_READ2", "INT_READ3", "IDLE"}
                 /\ vrf_state' = "IDLE" => ~data_req_o(i)
      <4>1. VrfIntRead2(i)
        BY <1>2, <3>4, FsmStates
      <4>2. "rd" \notin i.op.sel /\ ~({"rs1", "rs3"} \subseteq i.op.sel) => ~data_req_o(i)
        BY <3>4 DEF data_req_o, data_access, load_ready, lsu_answered
      <4> QED BY <3>4, <4>1, <4>2 DEF VrfIntRead2, OnGrant
    <3>5. ASSUME vrf_state = "INT_READ3"
          PROVE  /\ vrf_state' \in {"INT_READ1", "INT_READ3", "IDLE"}
                 /\ vrf_state' = "IDLE" => ~data_req_o(i)
      <4>1. VrfIntRead3(i)
        BY <1>2, <3>5, FsmStates
      <4>2. "rd" \notin i.op.sel => ~data_req_o(i)
        BY <3>5 DEF data_req_o, data_access, load_ready, lsu_answered
      <4> QED BY <3>5, <4>1, <4>2 DEF VrfIntRead3, OnGrant
    <3> QED BY <1>11, <3>1, <3>2, <3>3, <3>4, <3>5
  <2> QED BY <1>1, <1>7, <2>1, <2>2 DEF Serving
<1>12. CASE vrf_state \in {"INT_WRITE", "WRITE", "LOAD_WAITGNT"}
  <2>1. ~scenario.late /\ vector_op
    BY <1>3, <1>12
  <2>2. /\ vrf_state' \in {"INT_WRITE", "INT_READ2", "WRITE", "READ", "LOAD_WAITGNT", "LOAD_WRITE", "IDLE"}
        /\ vrf_state' = "IDLE" => ~data_req_o(i)
        /\ vrf_state' # "IDLE" => ~vector_done_o(i)
    <3>1. vrf_state = "LOAD_WAITGNT" => vrf_state' \in {"LOAD_WAITGNT", "LOAD_WRITE"} /\ ~vector_done_o(i)
      BY <1>2, FsmStates DEF VrfLoadWaitGnt, OnGrant, vector_done_o, lsu_answered
    <3>2. ASSUME vrf_state = "INT_WRITE"
          PROVE  /\ vrf_state' \in {"INT_WRITE", "INT_READ2", "IDLE"}
                 /\ vrf_state' = "IDLE" => ~data_req_o(i)
                 /\ vrf_state' # "IDLE" => ~vector_done_o(i)
      <4>1. VrfIntWrite(i)
        BY <1>2, <3>2, FsmStates
      <4>2. last_iteration_q \/ "rs2" \notin i.op.sel => ~data_req_o(i)
        BY <3>2 DEF data_req_o, data_access, load_ready, lsu_answered
      <4>3. ~last_iteration_q => ~vector_done_o(i)
        BY <3>2 DEF vector_done_o, lsu_answered
      <4> QED BY <3>2, <4>1, <4>2, <4>3 DEF VrfIntWrite, OnGrant, Finish
    <3>3. ASSUME vrf_state = "WRITE"
          PROVE  /\ vrf_state' \in {"WRITE", "READ", "IDLE"}
                 /\ vrf_state' = "IDLE" => ~data_req_o(i)
                 /\ vrf_state' # "IDLE" => ~vector_done_o(i)
      <4>1. VrfWrite(i)
        BY <1>2, <3>3, FsmStates
      <4>2. last_iteration_q => ~data_req_o(i)
        BY <3>3 DEF data_req_o, data_access, load_ready, lsu_answered
      <4>3. ~last_iteration_q => ~vector_done_o(i)
        BY <3>3 DEF vector_done_o, lsu_answered
      <4> QED BY <3>3, <4>1, <4>2, <4>3 DEF VrfWrite, OnGrant, Finish
    <3> QED BY <1>12, <3>1, <3>2, <3>3
  <2> QED BY <1>1, <1>7, <2>1, <2>2 DEF Serving
<1>13. CASE vrf_state = "LOAD"
  <2>1. ~scenario.late /\ vector_op /\ ~vector_done_o(i)
    BY <1>3, <1>13 DEF vector_done_o, lsu_answered
  <2>2. VrfLoad(i) /\ load_ready(i)
    BY <1>2, <1>13, FsmStates DEF load_ready, Serving
  <2>3. vrf_state' \in {"LOAD_WRITE", "LOAD_WAITGNT"}
    BY <2>2 DEF VrfLoad
  <2> QED BY <2>1, <2>3 DEF Serving
<1>14. CASE vrf_state = "LOAD_WRITE"
  <2>1. ~scenario.late /\ vector_op /\ VrfLoadWrite(i) /\ ~data_req_o(i)
    BY <1>2, <1>3, <1>14, FsmStates DEF data_req_o, data_access, load_ready, lsu_answered
  <2>2. bus' = <<>>
    BY <1>1, <1>7, <2>1
  <2>3. CASE last_iteration_q
    <3>1. vrf_state' = "IDLE"
      BY <2>1, <2>3 DEF VrfLoadWrite, Finish
    <3> QED BY <2>2, <3>1 DEF Serving
  <2>4. CASE ~last_iteration_q
    <3>1. final(i) /\ ~vector_done_o(i)
      BY <1>14, <2>4 DEF lsu_req_o, vector_done_o, lsu_answered
    <3>2. vrf_state' = "LOAD" /\ last_iteration_q'
      BY <2>1, <2>4, <3>1 DEF VrfLoadWrite, CountDown
    <3> QED BY <2>1, <3>1, <3>2 DEF Serving
  <2> QED BY <2>3, <2>4
<1>15. CASE vrf_state = "STORE_READ"
  <2>1. vector_op /\ VrfStoreRead(i) /\ ~data_req_o(i) /\ ~vector_done_o(i)
    BY <1>2, <1>3, <1>15, FsmStates DEF data_req_o, data_access, vector_done_o, load_ready, lsu_answered
  <2>2. ~gnt /\ (i.rvalid <=> rvalid)
    BY <1>1, <1>4, <1>15, <2>1 DEF Serving
  <2>3. CASE store_ready(i)
    <3>1. first_iteration_q
      BY <2>3, <1>15 DEF lsu_req_o
    <3>2. vrf_state' = "STORE_WAITLSU" /\ first_iteration_q'
      BY <2>1, <2>3, <3>1 DEF VrfStoreRead, unchangedFirst
    <3>3. bus' = <<>>
      BY <1>1, <1>3, <1>15, <2>2, <2>3 DEF store_ready
    <3> QED BY <2>1, <3>2, <3>3 DEF Serving
  <2>4. CASE ~store_ready(i)
    <3>1. ~rvalid /\ ~last_iteration_q /\ bus # <<>>
      BY <1>3, <1>15, <2>2, <2>4 DEF store_ready
    <3>2. vrf_state' = "STORE_READ" /\ last_iteration_q' = last_iteration_q
      BY <1>15, <2>1, <2>4 DEF VrfStoreRead, unchangedIterations
    <3>3. bus' # <<>>
      BY <1>1, <2>2, <3>1
    <3> QED BY <2>1, <3>1, <3>2, <3>3 DEF Serving
  <2> QED BY <2>3, <2>4
<1>16. CASE vrf_state = "STORE_WAITLSU"
  <2>1. vector_op /\ VrfStoreWaitLsu(i) /\ lsu_answered(i)
    BY <1>2, <1>3, <1>16, FsmStates DEF Serving, lsu_answered
  <2>2. IF gnt THEN bus' # <<>> ELSE bus' = <<>>
    BY <1>1, <1>3, <1>4, <1>16 DEF Serving
  <2>3. gnt => ~last_iteration_q /\ ~final(i)
    <3>1. last_iteration_q \/ final(i) => data_access(i) = "none"
      BY <1>16 DEF data_access, load_ready
    <3> QED BY <1>1, <3>1 DEF data_req_o
  <2>4. CASE last_iteration_q
    <3>1. vrf_state' = "IDLE"
      BY <2>1, <2>4 DEF VrfStoreWaitLsu, Finish
    <3> QED BY <2>2, <2>3, <2>4, <3>1 DEF Serving
  <2>5. CASE ~last_iteration_q
    <3>1. /\ last_iteration_q' <=> final(i)
          /\ vrf_state' = IF final(i) \/ gnt THEN "STORE_READ" ELSE "STORE_WAITGNT"
      BY <1>1, <2>1, <2>5 DEF VrfStoreWaitLsu, CountDown
    <3>2. ~vector_done_o(i)
      BY <1>16, <2>5 DEF vector_done_o, lsu_answered
    <3> QED BY <2>1, <2>2, <2>3, <3>1, <3>2 DEF Serving
  <2> QED BY <2>4, <2>5
<1>17. CASE vrf_state = "STORE_WAITGNT"
  <2>1. vector_op /\ VrfStoreWaitGnt(i) /\ ~vector_done_o(i)
    BY <1>2, <1>3, <1>17, FsmStates DEF vector_done_o, lsu_answered
  <2>2. IF gnt THEN bus' # <<>> ELSE bus' = <<>>
    BY <1>1, <1>3, <1>4, <1>17
  <2>3. ~last_iteration_q' /\ vrf_state' = IF gnt THEN "STORE_READ" ELSE "STORE_WAITGNT"
    BY <1>1, <1>3, <1>17, <2>1 DEF VrfStoreWaitGnt, OnGrant, unchangedIterations
  <2> QED BY <2>1, <2>2, <2>3 DEF Serving
<1> QED
  BY <1>6, <1>9, <1>10, <1>11, <1>12, <1>13, <1>14, <1>15, <1>16, <1>17 DEF VrfStates

(* A clock edge keeps them.                                                  *)
LEMMA StepPort ==
  ASSUME PortInv, OnlyStoresAreLate, NEW gnt \in BOOLEAN, NEW rvalid \in Answers, Cycle(gnt, rvalid)
  PROVE  PortInv'
<1>1. PICK i, l, r : Wired(gnt, rvalid, i, l, r)
  BY Edge DEF Wired
<1>2. InvType'
  BY StepTypes DEF PortInv
<1>3. ~pmp_err_q' /\ ~lsu_err_q' /\ ~stray'
  BY <1>1, LsuSteps, AnswerComes
<1>4. /\ vector_op /\ (first \/ ~vector_done_o(i)) => insn' = insn /\ first' = FALSE
      /\ (scenario.late /\ vector_op)' => (insn.name \in ISA!Stores)'
      /\ scenario' = scenario
  BY <1>1, Staged
<1>5. vector_op /\ (first \/ ~vector_done_o(i)) => vector_op' /\ ~first'
  BY <1>4 DEF vector_op
<1>6. vrf_state \notin {"IDLE", "START", "STORE_READ", "STORE_WAITLSU", "STORE_WAITGNT"} => ~scenario.late
  BY DEF PortInv, Sequencing
<1>7. CASE lsu_req_o(i)
  <2>1. Routing'
    BY <1>1, <1>3, <1>7, LsuTurn DEF Routing
  <2>2. vrf_state' = "LOAD" => ~scenario.late
    <3>1. CASE vrf_state = "LOAD_WRITE"
      BY <1>6, <3>1
    <3>2. CASE vrf_state = "START"
      <4>1. vector_op /\ i.op = Decoded /\ "rs3" \notin i.op.sel
        BY <1>1, <1>7, <3>2, LsuTurn, SwitchWires
      <4>2. insn.name \notin ISA!Stores
        BY <4>1 DEF Decoded, sel_operation, ISA!Stores, ISA!Loads
      <4> QED BY <4>1, <4>2 DEF PortInv, Sequencing
    <3> QED BY <1>1, <1>7, <3>1, <3>2, LsuTurn
  <2>3. Serving' /\ vrf_state' \in {"LOAD", "STORE_WAITLSU"} /\ vector_op' /\ ~first'
    BY <1>1, <1>5, <1>7, LsuTurn
  <2>4. Sequencing'
    BY <1>4, <2>2, <2>3 DEF Sequencing, Serving
  <2> QED BY <1>2, <2>1, <2>4 DEF PortInv
<1>8. CASE Serving /\ ~i.lsu_done
  <2>1. Routing'
    BY <1>1, <1>3, <1>8, LsuWorks DEF Routing
  <2>2. Serving' /\ vrf_state' = vrf_state /\ vector_op' /\ ~first'
    BY <1>1, <1>5, <1>8, LsuWorks
  <2>3. Sequencing'
    BY <1>4, <1>6, <2>2 DEF Sequencing, Serving
  <2> QED BY <1>2, <2>1, <2>3 DEF PortInv
<1>9. CASE ~lsu_req_o(i) /\ (~Serving \/ i.lsu_done)
  <2>1. prev_op_q' = "VRF" /\ ls_fsm_cs' = "IDLE"
    BY <1>1, <1>9, VrfTurn
  <2>2. ~Serving' /\ (bus' = <<>> \/ One("VRF")')
    BY <1>1, <1>9, VrfMoves
  <2>3. Routing'
    BY <1>3, <2>1, <2>2 DEF Routing
  <2>4. /\ vrf_state' \in {"IDLE", "START", "STORE_WAITGNT"} => bus' = <<>>
        /\ vrf_state' = "STORE_WAITLSU" /\ first_iteration_q' => bus' = <<>>
        /\ vrf_state' = "STORE_READ" => (last_iteration_q' <=> bus' = <<>>)
        /\ vrf_state' \in {"START", "STORE_WAITGNT"} => ~last_iteration_q'
        /\ vrf_state' # "IDLE" => vector_op /\ (first \/ ~vector_done_o(i))
        /\ vrf_state' \notin {"IDLE", "START", "STORE_READ", "STORE_WAITLSU", "STORE_WAITGNT"} => ~scenario.late
    BY <1>1, <1>9, VrfMoves
  <2>5. Sequencing'
    BY <1>4, <1>5, <2>4 DEF Sequencing
  <2> QED BY <1>2, <2>3, <2>5 DEF PortInv
<1> QED BY <1>7, <1>8, <1>9

LEMMA InitPort == Init => PortInv
<1> SUFFICES ASSUME Init PROVE PortInv
  OBVIOUS
<1>1. InvType
  BY InitTypes
<1>2. Routing
  BY DEF Init, VrfInit, LSU!LsuInit, SwitchInit, Routing, Serving
<1>3. Sequencing
  BY DEF Init, VrfInit, Sequencing, vector_op
<1> QED BY <1>1, <1>2, <1>3 DEF PortInv

LEMMA StutterPort ==
  ASSUME PortInv, UNCHANGED vars
  PROVE  PortInv'
<1>1. InvType'
  BY DEF vars, vrfVars, LSU!lsuVars, PortInv, InvType, TypeOK, VrfRegs
<1>2. Routing'
  BY DEF vars, vrfVars, LSU!lsuVars, PortInv, Routing, Serving, One, Two
<1>3. Sequencing'
  BY DEF vars, vrfVars, PortInv, Sequencing, vector_op
<1> QED BY <1>1, <1>2, <1>3 DEF PortInv

THEOREM PortInvariance == OnlyStoresAreLate => (Spec => []PortInv)
<1> SUFFICES ASSUME OnlyStoresAreLate PROVE Spec => []PortInv
  OBVIOUS
<1>1. PortInv /\ [Next]_vars => PortInv'
  <2> SUFFICES ASSUME PortInv, [Next]_vars PROVE PortInv'
    OBVIOUS
  <2>1. CASE Next
    BY <2>1, StepPort DEF Next
  <2>2. CASE UNCHANGED vars
    BY <2>2, StutterPort
  <2> QED BY <2>1, <2>2
<1> QED BY <1>1, InitPort, PTL DEF Spec

(* Every answer of the memory goes to the unit that asked, whatever the      *)
(* program, its grants and the alignment of its accesses.                    *)
THEOREM AnswersAreRouted == OnlyStoresAreLate => (Spec => []AnswersReachTheirUnit)
<1>1. PortInv => AnswersReachTheirUnit
  BY DEF PortInv, Routing, AnswersReachTheirUnit
<1> QED BY <1>1, PortInvariance, PTL

(* A finished instruction leaves both units idle and no answer behind.       *)
THEOREM NothingIsLeft == OnlyStoresAreLate => (Spec => []LeavesNothingBehind)
<1>1. PortInv => LeavesNothingBehind
  <2> SUFFICES ASSUME PortInv, insn = None \/ first PROVE vrf_state = "IDLE" /\ ls_fsm_cs = "IDLE" /\ bus = <<>>
    BY DEF LeavesNothingBehind
  <2>1. vrf_state = "IDLE" /\ bus = <<>>
    BY DEF PortInv, Sequencing, vector_op
  <2>2. ls_fsm_cs = "IDLE"
    BY <2>1 DEF PortInv, Routing, Serving
  <2> QED BY <2>1, <2>2
<1> QED BY <1>1, PortInvariance, PTL

----------------------------------------------------------------------------
(* A request is held until it is granted.                                    *)

(* While it waits, the wires depend on the registers and on the instruction  *)
(* alone: Op stands for the sequencer's inputs, Lsu for the load/store       *)
(* unit's.                                                                   *)
Withheld == request # NoRequest /\ ~request.granted

Op == [op |-> Decoded]

WaitingData ==
  IF memory_op THEN IF delay_state = "write" THEN buffer_q ELSE rd_q
  ELSE IF delay_state = "write" THEN rd_q ELSE [k \in WordLanes |-> ISA!Scalar]

VrfRequest == PortRequest("VRF", mem_if_addr(regs, data_access(Op)), data_access(Op) = "write",
                          data_be_o(Op), WaitingData)

Lsu == [lsu_type |-> data_type, vec_be |-> data_be_o(Op), lsu_wdata |-> rdata_c_o(Op), addr |-> lsu_if_addr]

LsuRequest == PortRequest("LSU", LSU!w_aligned(lsu_if_addr), vector_op /\ insn.name \in ISA!Stores,
                          LSU!data_be(Lsu), LSU!data_wdata(Lsu))

MemoryStates == {"LOAD", "LOAD_WAITGNT", "LOAD_WRITE", "STORE_READ", "STORE_WAITLSU", "STORE_WAITGNT"}
LaneStates == {"INT_READ1", "INT_READ2", "INT_READ3", "INT_WRITE", "LOAD_SLIDE", "READ", "WRITE"}

(* What waits, and in which state.                                           *)
Waiting ==
  Withheld =>
    IF Serving
      THEN ls_fsm_cs \in {"WAIT_GNT", "WAIT_GNT_MIS", "WAIT_RVALID_MIS"} /\ request.r = LsuRequest
      ELSE /\ vrf_state \in {"START", "LOAD_WAITGNT", "STORE_WAITGNT"} \cup LaneStates
           /\ vrf_state \in {"INT_READ1", "READ"} => ~first_iteration_q
           /\ data_access(Op) # "none" /\ request.r = VrfRequest
           /\ data_access(Op) = "write" /\ ~memory_op /\ delay_state # "write" => insn.name = "vmv_v_x"

(* The delay FSM keeps what the pipeline behind the request moves on from.   *)
Delayed ==
  /\ delay_state = "write" => vrf_state \in {"INT_READ1", "READ", "LOAD_WAITGNT"}
  /\ delay_state = "read" => vrf_state = "STORE_WAITLSU" /\ ls_fsm_cs \in {"WAIT_GNT", "WAIT_GNT_MIS"}
  /\ vrf_state = "LOAD_WAITGNT" => delay_state = "write" /\ Withheld
  /\ ls_fsm_cs \in {"WAIT_GNT", "WAIT_GNT_MIS"} => Withheld
  /\ Withheld => waited # 0
  /\ ls_fsm_cs = "WAIT_RVALID_MIS" => handle_misaligned_q
  /\ ls_fsm_cs \in {"IDLE", "WAIT_GNT_MIS", "WAIT_RVALID_MIS_GNTS_DONE"} => ~handle_misaligned_q
  /\ vrf_state \in MemoryStates => memory_op
  /\ vrf_state \in LaneStates => ~memory_op
  /\ scenario.wait > 1 /\ vector_op => ~memory_op

HeldInv == PortInv /\ Waiting /\ Delayed

(* What Op and Lsu stand for.                                                *)
LEMMA OpWires ==
  ASSUME NEW i, i.op = Decoded
  PROVE  /\ data_be_o(i) = data_be_o(Op)
         /\ final(i) <=> final(Op)
         /\ vrf_state \notin {"LOAD", "STORE_READ", "STORE_WAITLSU"} => data_access(i) = data_access(Op)
         /\ vrf_state \in {"LOAD", "STORE_WAITLSU"} => rdata_c_o(i) = rdata_c_o(Op)
<1>1. Op.op = i.op
  BY DEF Op
<1> HIDE DEF Op
<1>2. /\ tail_bytes(i) = tail_bytes(Op)
      /\ no_offset(i) <=> no_offset(Op)
      /\ sel_slide_be(i) <=> sel_slide_be(Op)
  BY <1>1 DEF tail_bytes, no_offset, sel_slide_be, slide_down
<1>3. data_be_o(i) = data_be_o(Op)
  BY <1>2 DEF data_be_o, offset_be
<1>4. final(i) <=> final(Op)
  BY <1>2 DEF final
<1>5. vrf_state \notin {"LOAD", "STORE_READ", "STORE_WAITLSU"} => data_access(i) = data_access(Op)
  BY <1>1, <1>4 DEF data_access, load_ready, lsu_answered
<1>6. ASSUME vrf_state \in {"LOAD", "STORE_WAITLSU"} PROVE rdata_c_o(i) = rdata_c_o(Op)
  <2>1. mux_sel(i) <=> mux_sel(Op)
    BY <1>6 DEF mux_sel, store_ready
  <2> QED BY <2>1 DEF rdata_c_o, store_operand
<1> QED BY <1>3, <1>4, <1>5, <1>6

LEMMA LsuRequests ==
  ASSUME NEW i, NEW rvalid, NEW l, l = LsuInput(i, rvalid), vector_op, i.op = Decoded,
         vrf_state \in {"LOAD", "STORE_WAITLSU"}
  PROVE  PortRequest("LSU", LSU!w_aligned(l.addr), l.lsu_we, LSU!data_be(l), LSU!data_wdata(l)) = LsuRequest
<1>1. /\ l.addr = lsu_if_addr /\ l.lsu_type = data_type /\ l.lsu_wdata = rdata_c_o(i)
      /\ l.vec_be = data_be_o(i) /\ l.lsu_we = (vector_op /\ insn.name \in ISA!Stores)
  BY LsuWires
<1>2. /\ Lsu.addr = l.addr /\ Lsu.lsu_type = l.lsu_type /\ Lsu.lsu_wdata = l.lsu_wdata
      /\ Lsu.vec_be = l.vec_be
  BY <1>1, OpWires DEF Lsu
<1> HIDE DEF Lsu
<1>3. LSU!data_be(l) = LSU!data_be(Lsu)
  BY <1>2 DEF LSU!data_be, LSU!access_bytes, LSU!data_offset
<1>4. LSU!data_wdata(l) = LSU!data_wdata(Lsu)
  BY <1>2 DEF LSU!data_wdata, LSU!data_offset
<1> QED BY <1>1, <1>3, <1>4 DEF LsuRequest

(* A request that waits is made again.                                       *)
LEMMA AskedAgain ==
  ASSUME HeldInv, Withheld, NEW gnt \in BOOLEAN, NEW rvalid \in Answers, NEW i, NEW l, NEW r,
         Wired(gnt, rvalid, i, l, r)
  PROVE  r # NoRequest /\ r = request.r
<1> USE DEF HeldInv
<1>1. r = Request(i, l) /\ i = VrfInput(gnt, rvalid) /\ l = LsuInput(i, rvalid)
  BY DEF Wired
<1>2. vrf_state # "IDLE" => vector_op
  BY DEF PortInv, Sequencing
<1>3. CASE Serving
  <2>1. ls_fsm_cs \in {"WAIT_GNT", "WAIT_GNT_MIS", "WAIT_RVALID_MIS"} /\ request.r = LsuRequest
    BY <1>3 DEF Waiting
  <2>2. vrf_state \in {"LOAD", "STORE_WAITLSU"} /\ vector_op
    BY <1>2, <1>3 DEF Serving
  <2>3. ~i.has_mem /\ LSU!data_req_o(l) /\ i.op = Decoded
    BY <2>1, <2>2, SwitchWires DEF LSU!data_req_o
  <2>4. r = PortRequest("LSU", LSU!w_aligned(l.addr), l.lsu_we, LSU!data_be(l), LSU!data_wdata(l))
    BY <1>1, <2>3 DEF Request
  <2>5. r # NoRequest
    BY <1>1, <2>3, Requests
  <2> QED BY <1>1, <2>1, <2>2, <2>3, <2>4, <2>5, LsuRequests
<1>4. CASE ~Serving
  <2>1. /\ vrf_state \in {"START", "LOAD_WAITGNT", "STORE_WAITGNT"} \cup LaneStates
        /\ data_access(Op) # "none" /\ request.r = VrfRequest
        /\ data_access(Op) = "write" /\ ~memory_op /\ delay_state # "write" => insn.name = "vmv_v_x"
    BY <1>4 DEF Waiting
  <2>2. vector_op /\ i.op = Decoded /\ ls_fsm_cs = "IDLE"
    BY <1>2, <1>4, <2>1, SwitchWires DEF LaneStates, PortInv, Routing
  <2>3. data_access(i) = data_access(Op) /\ data_be_o(i) = data_be_o(Op)
    BY <2>1, <2>2, OpWires DEF LaneStates
  <2>4. ~lsu_req_o(i)
    <3>1. vrf_state = "START" /\ i.op.memory_op => "rs3" \in i.op.sel
      BY <2>1, <2>3 DEF data_access, load_ready, lsu_answered
    <3> QED BY <2>1, <3>1 DEF lsu_req_o, store_ready, LaneStates
  <2>5. i.has_mem /\ data_req_o(i)
    BY <2>1, <2>2, <2>3, <2>4, SwitchWires DEF data_req_o
  <2>6. r # NoRequest
    BY <1>1, <2>5, Requests
  <2>7. r = PortRequest("VRF", mem_if_addr(regs, data_access(Op)), data_access(Op) = "write", data_be_o(Op), data_wdata_o(i))
    BY <1>1, <2>3, <2>5 DEF Request, data_we_o
  <2>8. data_access(Op) = "write" => data_wdata_o(i) = WaitingData
    <3>1. i.op.memory_op = memory_op
      BY <2>2 DEF Decoded
    <3>2. insn.name = "vmv_v_x" => i.wdata = [k \in WordLanes |-> ISA!Scalar]
      <4>1. i.wdata = vrf_wdata_wb(i, rvalid)
        BY <1>1, Wires
      <4>2. ASSUME insn.name = "vmv_v_x" PROVE ~memory_op /\ \A c, k : alu_byte(c, k) = ISA!Scalar
        BY <4>2 DEF memory_op, alu_byte, ISA!Loads, ISA!Stores
      <4> QED BY <2>2, <4>1, <4>2 DEF vrf_wdata_wb
    <3> QED BY <2>1, <3>1, <3>2 DEF data_wdata_o, WaitingData
  <2>9. r = VrfRequest
    BY <2>7, <2>8 DEF VrfRequest, PortRequest
  <2> QED BY <2>1, <2>6, <2>9
<1> QED BY <1>3, <1>4

(* The decoder gives the same while the instruction stays.                   *)
LEMMA SameInstruction ==
  ASSUME insn' = insn
  PROVE  /\ Decoded' = Decoded /\ Op' = Op /\ regs' = regs /\ data_type' = data_type
         /\ (vector_op' <=> vector_op) /\ (memory_op' <=> memory_op)
<1>1. (vector_op' <=> vector_op) /\ (memory_op' <=> memory_op) /\ (slide_op' <=> slide_op)
      /\ (mult_ops' <=> mult_ops) /\ (unit_stride' <=> unit_stride)
  BY DEF vector_op, memory_op, slide_op, mult_ops, unit_stride
<1>2. sel_operation' = sel_operation
  BY DEF sel_operation
<1>3. Decoded' = Decoded
  BY DEF Decoded, memory_op, slide_op, mult_ops, sel_operation
<1>4. Op' = Op
  BY <1>3 DEF Op
<1>5. regs' = regs
  BY DEF regs
<1>6. data_type' = data_type
  BY <1>1 DEF data_type
<1> QED BY <1>1, <1>3, <1>4, <1>5, <1>6

(* A request of the sequencer that is refused leaves it where it is, with    *)
(* all that makes up the request; only LOAD and STORE_WAITLSU, which are     *)
(* about the answer of the load/store unit as well, have states to wait in.  *)
LEMMA Refused ==
  ASSUME PortInv, NEW gnt \in BOOLEAN, NEW rvalid \in Answers, NEW i, NEW l, NEW r,
         Wired(gnt, rvalid, i, l, r), ~Serving \/ i.lsu_done, ~lsu_req_o(i), ~gnt, r # NoRequest
  PROVE  /\ vector_op /\ i.op = Decoded /\ data_req_o(i) /\ ~i.gnt /\ i.has_mem
         /\ vrf_state \in {"START", "LOAD", "LOAD_WAITGNT", "STORE_WAITLSU", "STORE_WAITGNT"} \cup LaneStates
         /\ vrf_state' = IF vrf_state = "LOAD" THEN "LOAD_WAITGNT"
                         ELSE IF vrf_state = "STORE_WAITLSU" THEN "STORE_WAITGNT" ELSE vrf_state
         /\ vrf_state \in {"LOAD", "STORE_WAITLSU"} => data_access(i) = IF vrf_state = "LOAD" THEN "write" ELSE "rd"
         /\ (last_iteration_q' <=> last_iteration_q)
         /\ vrf_state \notin {"LOAD", "STORE_WAITLSU"} => num_iterations_q' = num_iterations_q
         /\ offset_q' = offset_q /\ slide_offset_q' = slide_offset_q
         /\ vrf_state \in {"INT_READ1", "READ"} => ~first_iteration_q /\ ~first_iteration_q'
         /\ vrf_state = "READ" => (slide_first_write_q' <=> slide_first_write_q)
         /\ insn' = insn /\ addr_q' = addr_q
<1>1. /\ ls_fsm_cs = "IDLE"
      /\ Fsm(i) /\ Counters(i)
  BY AnswerComes DEF Wired, VrfCycle, PortInv, Routing
<1>2. data_req_o(i) /\ ~i.gnt /\ i.has_mem /\ vector_op /\ i.op = Decoded
  <2>1. ~LSU!data_req_o(l)
    BY <1>1, SwitchWires DEF LSU!data_req_o
  <2>2. r # NoRequest <=> IF i.has_mem THEN data_req_o(i) ELSE LSU!data_req_o(l)
    BY Requests DEF Wired
  <2> QED BY <2>1, <2>2, SwitchWires
<1>3. data_access(i) # "none"
  BY <1>2 DEF data_req_o
<1>4. vrf_state \in VrfStates
  BY DEF PortInv, InvType, VrfRegs
<1>5. vrf_state \notin {"IDLE", "LOAD_WRITE", "STORE_READ"}
  BY <1>3 DEF data_access, load_ready, lsu_answered
<1>6. addr_q' = addr_q
  BY <1>1, <1>2, <1>5 DEF Counters, agu_load_o, agu_incr_o, accepted
<1>7. ASSUME vrf_state' # "IDLE" PROVE insn' = insn
  <2>1. first \/ ~vector_done_o(i)
    BY <1>7, VrfMoves
  <2> QED BY <1>2, <2>1 DEF Wired, Stage
<1> DEFINE Frozen == /\ (last_iteration_q' <=> last_iteration_q)
                     /\ offset_q' = offset_q /\ slide_offset_q' = slide_offset_q
<1>8. CASE vrf_state \in {"START", "LOAD_WAITGNT", "STORE_WAITGNT", "INT_READ2", "INT_READ3", "LOAD_SLIDE"}
  <2>1. vrf_state = "START" => vrf_state' = vrf_state /\ num_iterations_q' = num_iterations_q /\ Frozen
    BY <1>1, <1>2, <1>3, FsmStates DEF VrfStart, OnGrant, unchangedIterations
  <2>2. vrf_state = "LOAD_WAITGNT" => vrf_state' = vrf_state /\ num_iterations_q' = num_iterations_q /\ Frozen
    BY <1>1, <1>2, FsmStates DEF VrfLoadWaitGnt, OnGrant, unchangedIterations, unchangedSetup
  <2>3. vrf_state = "STORE_WAITGNT" => vrf_state' = vrf_state /\ num_iterations_q' = num_iterations_q /\ Frozen
    BY <1>1, <1>2, FsmStates DEF VrfStoreWaitGnt, OnGrant, unchangedIterations, unchangedSetup
  <2>4. vrf_state = "LOAD_SLIDE" => vrf_state' = vrf_state /\ num_iterations_q' = num_iterations_q /\ Frozen
    BY <1>1, <1>2, FsmStates DEF VrfLoadSlide, OnGrant, unchangedIterations, unchangedSetup
  <2>5. ASSUME vrf_state = "INT_READ2"
        PROVE  vrf_state' = vrf_state /\ num_iterations_q' = num_iterations_q /\ Frozen
    <3>1. {"rs1", "rs3"} \subseteq i.op.sel \/ ("rd" \in i.op.sel /\ ~last_iteration_q)
      BY <1>3, <2>5 DEF data_access, load_ready, lsu_answered
    <3> QED BY <1>1, <1>2, <2>5, <3>1, FsmStates DEF VrfIntRead2, OnGrant, unchangedIterations, unchangedSetup
  <2>6. ASSUME vrf_state = "INT_READ3"
        PROVE  vrf_state' = vrf_state /\ num_iterations_q' = num_iterations_q /\ Frozen
    <3>1. "rd" \in i.op.sel /\ ~last_iteration_q
      BY <1>3, <2>6 DEF data_access, load_ready, lsu_answered
    <3> QED BY <1>1, <1>2, <2>6, <3>1, FsmStates DEF VrfIntRead3, OnGrant, unchangedIterations, unchangedSetup
  <2>7. vrf_state' = vrf_state /\ num_iterations_q' = num_iterations_q /\ Frozen
    BY <1>8, <2>1, <2>2, <2>3, <2>4, <2>5, <2>6
  <2> QED BY <1>2, <1>6, <1>7, <1>8, <2>7 DEF LaneStates
<1>9. CASE vrf_state \in {"INT_READ1", "READ"}
  <2>1. ~first_iteration_q
    BY <1>3, <1>9 DEF data_access, load_ready, lsu_answered
  <2>2. vrf_state = "INT_READ1" =>
          vrf_state' = vrf_state /\ num_iterations_q' = num_iterations_q /\ Frozen /\ ~first_iteration_q'
    BY <1>1, <1>2, <2>1, FsmStates DEF VrfIntRead1, OnGrant, unchangedIterations, unchangedSetup
  <2>3. vrf_state = "READ" =>
          vrf_state' = vrf_state /\ num_iterations_q' = num_iterations_q /\ Frozen /\ ~first_iteration_q'
    BY <1>1, <1>2, <2>1, FsmStates DEF VrfRead, OnGrant, unchangedIterations, unchangedSetup
  <2>4. vrf_state = "READ" => (slide_first_write_q' <=> slide_first_write_q /\ ~i.gnt)
    BY <1>1, <2>1, FsmStates DEF VrfRead
  <2>5. vrf_state = "READ" => (slide_first_write_q' <=> slide_first_write_q)
    BY <1>2, <2>4
  <2> QED BY <1>2, <1>6, <1>7, <1>9, <2>1, <2>2, <2>3, <2>5 DEF LaneStates
<1>10. CASE vrf_state \in {"WRITE", "INT_WRITE"}
  <2>1. ASSUME NEW taken, ~taken, CountDown(i, taken)
        PROVE  num_iterations_q' = num_iterations_q /\ (last_iteration_q' <=> last_iteration_q)
    BY <2>1 DEF CountDown
  <2>2. ASSUME vrf_state = "WRITE"
        PROVE  vrf_state' = vrf_state /\ num_iterations_q' = num_iterations_q /\ Frozen
    <3>1. ~last_iteration_q /\ (i.op.sel \cap {"rs1", "rs2"} = {} \/ ~final(i))
      BY <1>3, <2>2 DEF data_access, load_ready, lsu_answered
    <3>2. VrfWrite(i)
      BY <1>1, <2>2, FsmStates
    <3>3. CountDown(i, i.gnt) /\ vrf_state' = vrf_state
      BY <1>2, <3>1, <3>2 DEF VrfWrite, OnGrant
    <3>4. offset_q' = offset_q /\ slide_offset_q' = slide_offset_q
      BY <3>2 DEF VrfWrite, unchangedSetup
    <3> QED BY <1>2, <2>1, <3>3, <3>4
  <2>3. ASSUME vrf_state = "INT_WRITE"
        PROVE  vrf_state' = vrf_state /\ num_iterations_q' = num_iterations_q /\ Frozen
    <3>1. ~last_iteration_q /\ "rs2" \in i.op.sel
      BY <1>3, <2>3 DEF data_access, load_ready, lsu_answered
    <3>2. VrfIntWrite(i)
      BY <1>1, <2>3, FsmStates
    <3>3. CountDown(i, i.gnt) /\ vrf_state' = vrf_state
      BY <1>2, <3>1, <3>2 DEF VrfIntWrite, OnGrant
    <3>4. offset_q' = offset_q /\ slide_offset_q' = slide_offset_q
      BY <3>2 DEF VrfIntWrite, unchangedSetup
    <3> QED BY <1>2, <2>1, <3>3, <3>4
  <2> QED BY <1>2, <1>6, <1>7, <1>10, <2>2, <2>3 DEF LaneStates
<1>11. CASE vrf_state = "LOAD"
  <2>1. load_ready(i) /\ ~first_iteration_q /\ data_access(i) = "write"
    BY <1>3, <1>11 DEF data_access, lsu_answered
  <2>2. vrf_state' = "LOAD_WAITGNT" /\ Frozen
    BY <1>1, <1>2, <1>11, <2>1, FsmStates DEF VrfLoad, unchangedIterations, unchangedSetup
  <2> QED BY <1>2, <1>6, <1>7, <1>11, <2>1, <2>2
<1>12. CASE vrf_state = "STORE_WAITLSU"
  <2>1. lsu_answered(i) /\ ~last_iteration_q /\ ~final(i) /\ data_access(i) = "rd"
    BY <1>3, <1>12 DEF data_access, load_ready
  <2>2. vrf_state' = "STORE_WAITGNT" /\ ~last_iteration_q' /\ offset_q' = offset_q /\ slide_offset_q' = slide_offset_q
    BY <1>1, <1>2, <1>12, <2>1, FsmStates DEF VrfStoreWaitLsu, CountDown, unchangedSetup
  <2> QED BY <1>2, <1>6, <1>7, <1>12, <2>1, <2>2
<1> QED BY <1>4, <1>5, <1>8, <1>9, <1>10, <1>11, <1>12 DEF VrfStates

(* The delay FSM: a write of the sequencer that is refused is kept, and the  *)
(* operand of a store whose request is refused.                              *)
LEMMA DelaySteps ==
  ASSUME HeldInv, NEW gnt \in BOOLEAN, NEW rvalid \in Answers, NEW i, NEW l, NEW r,
         Wired(gnt, rvalid, i, l, r)
  PROVE  /\ lsu_req_o(i) =>
              /\ delay_state = "none"
              /\ delay_state' = IF vrf_state = "STORE_READ" /\ ~gnt THEN "read" ELSE "none"
              /\ vrf_state = "STORE_READ" /\ ~gnt => buffer_q' = store_operand(i)
         /\ Serving /\ ~i.lsu_done => delay_state' = "none"
         /\ ~lsu_req_o(i) /\ (~Serving \/ i.lsu_done) =>
              /\ delay_state' = IF write_delayed(i) THEN "write" ELSE "none"
              /\ write_delayed(i) /\ delay_state = "none" =>
                   IF memory_op THEN buffer_q' = rd_q ELSE rd_q' = i.wdata
              /\ vrf_state # "LOAD" /\ delay_state = "write" => rd_q' = rd_q
<1> USE DEF HeldInv
<1>1. DelayFsm(i) /\ Operands(i, Zero)
  BY DEF Wired, VrfCycle
<1>2. /\ delay_state \in {"none", "write", "read"}
      /\ delay_state = "write" => vrf_state \in {"INT_READ1", "READ", "LOAD_WAITGNT"}
      /\ delay_state = "read" => vrf_state = "STORE_WAITLSU" /\ ls_fsm_cs \in {"WAIT_GNT", "WAIT_GNT_MIS"}
      /\ vrf_state \in MemoryStates => memory_op
  BY DEF PortInv, InvType, VrfRegs, Delayed
<1>3. vrf_state # "IDLE" => i.op.memory_op = memory_op
  BY SwitchWires DEF PortInv, Sequencing, Decoded
<1>4. ASSUME lsu_req_o(i)
      PROVE  /\ delay_state = "none"
             /\ delay_state' = IF vrf_state = "STORE_READ" /\ ~gnt THEN "read" ELSE "none"
             /\ vrf_state = "STORE_READ" /\ ~gnt => buffer_q' = store_operand(i)
  <2>1. \/ vrf_state \in {"START", "LOAD_WRITE"}
        \/ vrf_state = "STORE_READ" /\ store_ready(i) /\ ~first_iteration_q
    BY <1>4 DEF lsu_req_o, store_ready
  <2>2. delay_state = "none"
    BY <1>2, <2>1
  <2>3. ~write_delayed(i)
    BY <2>1 DEF write_delayed
  <2>4. ~i.has_mem /\ (l.gnt <=> gnt) /\ l.gnt = i.lsu_gnt
    <3>1. l = LsuInput(i, rvalid)
      BY DEF Wired
    <3> QED BY <1>4, <3>1, SwitchWires, LsuWires
  <2>5. read_delayed(i) <=> vrf_state = "STORE_READ" /\ ~gnt
    BY <2>1, <2>4 DEF read_delayed, store_ready
  <2>6. delay_state' = IF vrf_state = "STORE_READ" /\ ~gnt THEN "read" ELSE "none"
    BY <1>1, <2>2, <2>3, <2>5 DEF DelayFsm, delayed
  <2>7. ASSUME vrf_state = "STORE_READ", ~gnt PROVE buffer_q' = store_operand(i)
    <3>1. i.op.memory_op /\ delayed(i)
      BY <1>2, <1>3, <2>2, <2>5, <2>7 DEF MemoryStates, delayed
    <3> QED BY <1>1, <2>5, <2>7, <3>1 DEF Operands
  <2> QED BY <2>2, <2>6, <2>7
<1>5. ASSUME Serving, ~i.lsu_done
      PROVE  delay_state' = "none"
  <2>1. vrf_state = "STORE_WAITLSU" \/ (vrf_state = "LOAD" /\ ~load_ready(i))
    BY <1>5 DEF Serving, load_ready
  <2>2. ~read_delayed(i) /\ ~write_delayed(i)
    BY <2>1 DEF read_delayed, write_delayed, store_ready, data_we_o, data_access
  <2> QED BY <1>1, <1>2, <2>2 DEF DelayFsm, delayed
<1>6. ASSUME ~lsu_req_o(i), ~Serving \/ i.lsu_done
      PROVE  /\ delay_state' = IF write_delayed(i) THEN "write" ELSE "none"
             /\ write_delayed(i) /\ delay_state = "none" =>
                  IF memory_op THEN buffer_q' = rd_q ELSE rd_q' = i.wdata
             /\ vrf_state # "LOAD" /\ delay_state = "write" => rd_q' = rd_q
  <2>1. ~read_delayed(i)
    BY <1>6 DEF read_delayed, lsu_req_o
  <2>2. write_delayed(i) => vrf_state \in {"INT_READ1", "READ", "LOAD"}
    BY DEF write_delayed
  <2>3. delay_state' = IF write_delayed(i) THEN "write" ELSE "none"
    BY <1>1, <1>2, <2>1, <2>2 DEF DelayFsm, delayed
  <2>4. ASSUME write_delayed(i), delay_state = "none"
        PROVE  IF memory_op THEN buffer_q' = rd_q ELSE rd_q' = i.wdata
    <3>1. delayed(i) /\ (i.op.memory_op <=> memory_op)
      BY <1>3, <2>2, <2>4 DEF delayed
    <3>2. /\ rd_q' = IF rd_en(i) \/ (delayed(i) /\ ~i.op.memory_op) THEN i.wdata ELSE rd_q
          /\ buffer_q' = IF delayed(i) /\ i.op.memory_op
                           THEN IF read_delayed(i) THEN store_operand(i) ELSE rd_q
                           ELSE buffer_q
      BY <1>1 DEF Operands
    <3> QED BY <2>1, <3>1, <3>2
  <2>5. ASSUME vrf_state # "LOAD", delay_state = "write" PROVE rd_q' = rd_q
    <3>1. ~rd_en(i) /\ ~delayed(i)
      BY <2>5 DEF rd_en, delayed
    <3> QED BY <1>1, <3>1 DEF Operands
  <2> QED BY <2>3, <2>4, <2>5
<1> QED BY <1>4, <1>5, <1>6

(* The flag of the load/store unit for the second half.                      *)
LEMMA Halves ==
  ASSUME HeldInv, NEW gnt \in BOOLEAN, NEW rvalid \in Answers, NEW i, NEW l, NEW r,
         Wired(gnt, rvalid, i, l, r)
  PROVE  /\ ls_fsm_cs' = "WAIT_RVALID_MIS" => handle_misaligned_q'
         /\ ls_fsm_cs' \in {"IDLE", "WAIT_GNT_MIS", "WAIT_RVALID_MIS_GNTS_DONE"} => ~handle_misaligned_q'
         /\ ls_fsm_cs = "IDLE" /\ ls_fsm_cs' \in {"WAIT_GNT", "WAIT_GNT_MIS"} =>
              ~handle_misaligned_q' /\ addr_last_q' = addr_last_q
         /\ ls_fsm_cs = "WAIT_RVALID_MIS" /\ ~l.gnt =>
              handle_misaligned_q' /\ addr_last_q' = addr_last_q
         /\ ls_fsm_cs' \in {"WAIT_GNT", "WAIT_GNT_MIS"} => LSU!data_req_o(l) /\ ~l.gnt
<1> USE DEF HeldInv
<1>1. /\ ls_fsm_cs \in {"IDLE", "WAIT_RVALID_MIS", "WAIT_GNT", "WAIT_GNT_MIS", "WAIT_RVALID_MIS_GNTS_DONE"}
      /\ ls_fsm_cs = "WAIT_RVALID_MIS" => handle_misaligned_q
      /\ ls_fsm_cs \in {"IDLE", "WAIT_GNT_MIS", "WAIT_RVALID_MIS_GNTS_DONE"} => ~handle_misaligned_q
      /\ ~pmp_err_q /\ ~lsu_err_q
  BY DEF PortInv, InvType, TypeOK, Routing, Delayed, LSU!LsuStates
<1>2. LSU!LsuCycle(l) /\ l.err = FALSE /\ l.pmp_err = FALSE
  BY LsuWires DEF Wired
<1>3. CASE ls_fsm_cs = "IDLE"
  <2>1. LSU!IdleNoRequest(l) \/ LSU!IdleRequest(l)
    BY <1>2, <1>3 DEF LSU!LsuCycle, LSU!WaitGntMis, LSU!WaitRvalidMis, LSU!WaitGnt, LSU!WaitRvalidMisGntsDone
  <2> QED BY <1>1, <1>3, <2>1 DEF LSU!IdleNoRequest, LSU!IdleRequest, LSU!Latch, LSU!data_req_o
<1>4. CASE ls_fsm_cs = "WAIT_GNT_MIS"
  <2>1. LSU!WaitGntMis(l)
    BY <1>2, <1>4 DEF LSU!LsuCycle, LSU!IdleNoRequest, LSU!IdleRequest, LSU!WaitRvalidMis, LSU!WaitGnt, LSU!WaitRvalidMisGntsDone
  <2> QED BY <1>1, <1>4, <2>1 DEF LSU!WaitGntMis, LSU!data_req_o
<1>5. CASE ls_fsm_cs = "WAIT_RVALID_MIS"
  <2>1. LSU!WaitRvalidMis(l)
    BY <1>2, <1>5 DEF LSU!LsuCycle, LSU!IdleNoRequest, LSU!IdleRequest, LSU!WaitGntMis, LSU!WaitGnt, LSU!WaitRvalidMisGntsDone
  <2> QED BY <1>1, <1>2, <1>5, <2>1 DEF LSU!WaitRvalidMis, LSU!Latch, LSU!first_half_answered, LSU!first_half_err, LSU!data_req_o
<1>6. CASE ls_fsm_cs = "WAIT_GNT"
  <2>1. LSU!WaitGnt(l)
    BY <1>2, <1>6 DEF LSU!LsuCycle, LSU!IdleNoRequest, LSU!IdleRequest, LSU!WaitGntMis, LSU!WaitRvalidMis, LSU!WaitRvalidMisGntsDone
  <2> QED BY <1>1, <1>6, <2>1 DEF LSU!WaitGnt, LSU!data_req_o
<1>7. CASE ls_fsm_cs = "WAIT_RVALID_MIS_GNTS_DONE"
  <2>1. LSU!WaitRvalidMisGntsDone(l)
    BY <1>2, <1>7 DEF LSU!LsuCycle, LSU!IdleNoRequest, LSU!IdleRequest, LSU!WaitGntMis, LSU!WaitRvalidMis, LSU!WaitGnt
  <2> QED BY <1>1, <1>7, <2>1 DEF LSU!WaitRvalidMisGntsDone
<1> QED BY <1>1, <1>3, <1>4, <1>5, <1>6, <1>7

(* The states of a memory access and those of lanes do not mix.              *)
LEMMA Kinds ==
  ASSUME HeldInv, NEW gnt \in BOOLEAN, NEW rvalid \in Answers, NEW i, NEW l, NEW r,
         Wired(gnt, rvalid, i, l, r)
  PROVE  /\ vrf_state' \in MemoryStates => memory_op'
         /\ vrf_state' \in LaneStates => ~memory_op'
<1> USE DEF HeldInv
<1>1. Fsm(i) /\ Stage(i)
  BY DEF Wired, VrfCycle
<1>2. /\ vrf_state \in VrfStates
      /\ vrf_state # "IDLE" => vector_op
      /\ vrf_state \in MemoryStates => memory_op
      /\ vrf_state \in LaneStates => ~memory_op
  BY DEF PortInv, InvType, VrfRegs, Sequencing, Delayed
<1>3. vrf_state # "IDLE" => (i.op.memory_op <=> memory_op)
  BY <1>2, SwitchWires DEF Decoded
<1>4. ASSUME vrf_state' # "IDLE" PROVE memory_op' <=> memory_op
  <2>1. vector_op /\ (first \/ ~vector_done_o(i))
    BY <1>4, LsuTurn, LsuWorks, VrfMoves
  <2>2. insn' = insn
    BY <1>1, <2>1 DEF Stage
  <2> QED BY <2>2, SameInstruction
<1>5. vrf_state = "IDLE" => vrf_state' \in {"IDLE", "START"}
  BY <1>1, FsmStates DEF VrfIdle
<1>6. vrf_state = "START" =>
        vrf_state' \in IF memory_op THEN {"IDLE", "START", "STORE_READ", "LOAD"}
                       ELSE {"IDLE", "START", "INT_READ1", "WRITE", "LOAD_SLIDE", "READ"}
  <2>1. lsu_req_o(i) /\ vrf_state = "START" => i.op.memory_op
    BY DEF lsu_req_o, store_ready
  <2> QED BY <1>1, <1>3, <2>1, FsmStates DEF VrfStart, OnGrant
<1>7. vrf_state \in {"INT_READ1", "INT_READ2", "INT_READ3", "INT_WRITE", "LOAD_SLIDE", "READ", "WRITE"} =>
        vrf_state' \in {"IDLE"} \cup LaneStates
  <2>1. vrf_state = "INT_READ1" => vrf_state' \in {"INT_READ1", "INT_WRITE"}
    BY <1>1, FsmStates DEF VrfIntRead1, OnGrant
  <2>2. vrf_state = "INT_READ2" => vrf_state' \in {"INT_READ1", "INT_READ2", "INT_READ3", "IDLE"}
    BY <1>1, FsmStates DEF VrfIntRead2, OnGrant
  <2>3. vrf_state = "INT_READ3" => vrf_state' \in {"INT_READ1", "INT_READ3", "IDLE"}
    BY <1>1, FsmStates DEF VrfIntRead3, OnGrant
  <2>4. vrf_state = "INT_WRITE" => vrf_state' \in {"INT_READ2", "INT_WRITE", "IDLE"}
    BY <1>1, FsmStates DEF VrfIntWrite, OnGrant, Finish
  <2>5. vrf_state = "LOAD_SLIDE" => vrf_state' \in {"LOAD_SLIDE", "READ"}
    BY <1>1, FsmStates DEF VrfLoadSlide, OnGrant
  <2>6. vrf_state = "READ" => vrf_state' \in {"READ", "WRITE"}
    BY <1>1, FsmStates DEF VrfRead, OnGrant
  <2>7. vrf_state = "WRITE" => vrf_state' \in {"READ", "WRITE", "IDLE"}
    BY <1>1, FsmStates DEF VrfWrite, OnGrant, Finish
  <2> QED BY <2>1, <2>2, <2>3, <2>4, <2>5, <2>6, <2>7 DEF LaneStates
<1>8. vrf_state \in {"LOAD", "LOAD_WAITGNT", "LOAD_WRITE"} => vrf_state' \in {"IDLE"} \cup MemoryStates
  <2>1. vrf_state = "LOAD" => vrf_state' \in {"LOAD", "LOAD_WRITE", "LOAD_WAITGNT"}
    BY <1>1, FsmStates DEF VrfLoad
  <2>2. vrf_state = "LOAD_WAITGNT" => vrf_state' \in {"LOAD_WRITE", "LOAD_WAITGNT"}
    BY <1>1, FsmStates DEF VrfLoadWaitGnt, OnGrant
  <2>3. vrf_state = "LOAD_WRITE" => vrf_state' \in {"LOAD", "IDLE"}
    BY <1>1, FsmStates DEF VrfLoadWrite, Finish
  <2> QED BY <2>1, <2>2, <2>3 DEF MemoryStates
<1>9. vrf_state \in {"STORE_READ", "STORE_WAITLSU", "STORE_WAITGNT"} => vrf_state' \in {"IDLE"} \cup MemoryStates
  <2>1. vrf_state = "STORE_READ" => vrf_state' \in {"STORE_READ", "STORE_WAITLSU"}
    BY <1>1, FsmStates DEF VrfStoreRead
  <2>2. vrf_state = "STORE_WAITLSU" => vrf_state' \in {"STORE_READ", "STORE_WAITLSU", "STORE_WAITGNT", "IDLE"}
    BY <1>1, FsmStates DEF VrfStoreWaitLsu, Finish
  <2>3. vrf_state = "STORE_WAITGNT" => vrf_state' \in {"STORE_READ", "STORE_WAITGNT"}
    BY <1>1, FsmStates DEF VrfStoreWaitGnt, OnGrant
  <2> QED BY <2>1, <2>2, <2>3 DEF MemoryStates
<1> QED BY <1>2, <1>4, <1>5, <1>6, <1>7, <1>8, <1>9 DEF VrfStates, MemoryStates, LaneStates

(* A refused request of the sequencer is what its registers say afterwards.  *)
LEMMA RefusedByVrf ==
  ASSUME HeldInv, NEW gnt \in BOOLEAN, NEW rvalid \in Answers, NEW i, NEW l, NEW r,
         Wired(gnt, rvalid, i, l, r), ~Serving \/ i.lsu_done, ~lsu_req_o(i), ~gnt, r # NoRequest
  PROVE  /\ data_access(Op)' = data_access(i)
         /\ r = VrfRequest'
         /\ data_access(i) = "write" /\ vrf_state \in {"INT_READ1", "READ", "LOAD", "LOAD_WAITGNT"} => delay_state' = "write"
         /\ data_access(i) = "write" /\ ~memory_op /\ delay_state' # "write" => insn.name = "vmv_v_x"
         /\ vrf_state # "LOAD_WAITGNT"
<1> USE DEF HeldInv
<1>1. /\ vector_op /\ i.op = Decoded /\ data_req_o(i) /\ ~i.gnt /\ i.has_mem
      /\ vrf_state \in {"START", "LOAD", "LOAD_WAITGNT", "STORE_WAITLSU", "STORE_WAITGNT"} \cup LaneStates
      /\ vrf_state' = IF vrf_state = "LOAD" THEN "LOAD_WAITGNT"
                      ELSE IF vrf_state = "STORE_WAITLSU" THEN "STORE_WAITGNT" ELSE vrf_state
      /\ vrf_state \in {"LOAD", "STORE_WAITLSU"} => data_access(i) = IF vrf_state = "LOAD" THEN "write" ELSE "rd"
      /\ last_iteration_q' <=> last_iteration_q
      /\ vrf_state \notin {"LOAD", "STORE_WAITLSU"} => num_iterations_q' = num_iterations_q
      /\ offset_q' = offset_q /\ slide_offset_q' = slide_offset_q
      /\ vrf_state \in {"INT_READ1", "READ"} => ~first_iteration_q /\ ~first_iteration_q'
      /\ vrf_state = "READ" => (slide_first_write_q' <=> slide_first_write_q)
      /\ insn' = insn /\ addr_q' = addr_q
  BY Refused
<1>2. Op' = Op /\ regs' = regs /\ (memory_op' <=> memory_op)
  BY <1>1, SameInstruction
<1>3. data_be_o(i) = data_be_o(Op) /\ (vrf_state \notin {"LOAD", "STORE_WAITLSU"} => data_access(i) = data_access(Op))
  BY <1>1, OpWires DEF LaneStates
<1>4. data_be_o(Op)' = data_be_o(Op)
  <2>1. tail_bytes(Op)' = tail_bytes(Op)
    BY <1>1, <1>2 DEF tail_bytes, slide_down
  <2>2. sel_slide_be(Op)' <=> sel_slide_be(Op)
    <3>1. vrf_state' = "READ" <=> vrf_state = "READ"
      BY <1>1
    <3> QED BY <1>1, <1>2, <3>1 DEF sel_slide_be
  <2>3. slide_offset_be' = slide_offset_be /\ offset_be(Op)' = offset_be(Op)
    BY <1>1, <2>1 DEF slide_offset_be, offset_be
  <2> QED BY <1>1, <2>2, <2>3 DEF data_be_o
<1>5. data_access(Op)' = data_access(i)
  <2>1. CASE vrf_state \in {"LOAD", "STORE_WAITLSU"}
    <3>1. vrf_state' = IF vrf_state = "LOAD" THEN "LOAD_WAITGNT" ELSE "STORE_WAITGNT"
      BY <1>1, <2>1
    <3>2. data_access(Op)' = IF vrf_state = "LOAD" THEN "write" ELSE "rd"
      BY <2>1, <3>1 DEF data_access, load_ready, lsu_answered
    <3> QED BY <1>1, <2>1, <3>2
  <2>2. CASE vrf_state \notin {"LOAD", "STORE_WAITLSU"}
    <3>1. vrf_state' = vrf_state /\ num_iterations_q' = num_iterations_q
      BY <1>1, <2>2
    <3>2. final(Op)' <=> final(Op)
      BY <1>1, <1>2, <3>1 DEF final, no_offset, slide_down
    <3>3. vrf_state \in {"INT_READ1", "READ"} => (first_iteration_q' <=> first_iteration_q)
      BY <1>1
    <3>4. data_access(Op)' = data_access(Op)
      BY <1>1, <1>2, <2>2, <3>1, <3>2, <3>3 DEF data_access, load_ready, lsu_answered, LaneStates
    <3> QED BY <1>3, <2>2, <3>4
  <2> QED BY <2>1, <2>2
<1>6. vrf_state # "LOAD_WAITGNT"
  <2> SUFFICES ASSUME vrf_state = "LOAD_WAITGNT" PROVE FALSE
    OBVIOUS
  <2>1. memory_op /\ waited # 0
    BY DEF Delayed, MemoryStates
  <2>2. scenario.wait \in Nat /\ scenario.wait <= 1 /\ waited \in 0 .. scenario.wait
    <3>1. scenario.wait \in Nat
      BY <1>1, InsnFields DEF PortInv
    <3> QED BY <1>1, <2>1, <3>1 DEF Delayed, PortInv, InvType, TypeOK
  <2>3. waited = scenario.wait
    BY <2>1, <2>2
  <2> QED BY <2>3 DEF Wired
<1>7. i.op.memory_op <=> memory_op
  BY <1>1 DEF Decoded
<1>8. /\ delay_state' = IF write_delayed(i) THEN "write" ELSE "none"
      /\ write_delayed(i) /\ delay_state = "none" =>
           IF memory_op THEN buffer_q' = rd_q ELSE rd_q' = i.wdata
      /\ vrf_state # "LOAD" /\ delay_state = "write" => rd_q' = rd_q
  BY DelaySteps
<1>9. /\ delay_state \in {"none", "write", "read"}
      /\ delay_state = "write" => vrf_state \in {"INT_READ1", "READ"}
      /\ delay_state = "read" => vrf_state = "STORE_WAITLSU"
      /\ vrf_state \in MemoryStates => memory_op
      /\ vrf_state \in LaneStates => ~memory_op
  BY <1>6 DEF PortInv, InvType, VrfRegs, Delayed
<1>10. CASE data_access(i) # "write"
  <2>1. r = VrfRequest'
    <3>1. r = PortRequest("VRF", mem_if_addr(regs, data_access(i)), data_we_o(i), data_be_o(i), data_wdata_o(i))
      BY <1>1 DEF Wired, Request
    <3>2. mem_if_addr(regs, data_access(Op))' = mem_if_addr(regs, data_access(i))
      BY <1>1, <1>2, <1>5 DEF mem_if_addr
    <3> QED BY <1>5, <1>10, <3>1, <3>2 DEF VrfRequest, PortRequest, data_we_o
  <2> QED BY <1>5, <1>6, <1>10, <2>1
<1>11. CASE data_access(i) = "write"
  <2>1. vrf_state \in {"START", "WRITE", "INT_READ1", "READ", "LOAD"}
    BY <1>1, <1>6, <1>11 DEF data_access, load_ready, lsu_answered, LaneStates
  <2>2. write_delayed(i) <=> vrf_state \in {"INT_READ1", "READ", "LOAD"}
    BY <1>1, <1>11 DEF write_delayed, data_we_o
  <2>3. vrf_state \in {"INT_READ1", "READ", "LOAD"} => delay_state' = "write"
    BY <1>8, <2>2
  <2>4. ASSUME vrf_state \in {"START", "WRITE"}
        PROVE  insn.name = "vmv_v_x" /\ ~memory_op /\ delay_state' # "write" /\ delay_state # "write"
    <3>1. ~i.op.memory_op /\ i.op.sel \cap {"rs1", "rs2"} = {}
      <4>1. vrf_state = "START" => ~i.op.memory_op /\ i.op.sel \cap {"rs1", "rs2"} = {}
        BY <1>11 DEF data_access, load_ready, lsu_answered
      <4>2. vrf_state = "WRITE" => i.op.sel \cap {"rs1", "rs2"} = {}
        BY <1>11 DEF data_access, load_ready, lsu_answered
      <4>3. vrf_state = "WRITE" => ~memory_op
        BY <1>9 DEF LaneStates
      <4> QED BY <1>7, <2>4, <4>1, <4>2, <4>3
    <3>2. sel_operation \cap {"rs1", "rs2"} = {} /\ ~memory_op
      BY <1>1, <1>7, <3>1 DEF Decoded
    <3>3. insn.name = "vmv_v_x"
      BY <3>2 DEF sel_operation, memory_op, ISA!Loads, ISA!Stores
    <3> QED BY <1>8, <1>9, <2>2, <2>4, <3>2, <3>3
  <2>5. data_wdata_o(i) = WaitingData'
    <3>1. CASE vrf_state \in {"START", "WRITE"}
      <4>1. i.wdata = [k \in WordLanes |-> ISA!Scalar]
        <5>1. i.wdata = vrf_wdata_wb(i, rvalid)
          BY Wires DEF Wired
        <5>2. ~memory_op /\ \A c, k : alu_byte(c, k) = ISA!Scalar
          BY <2>4, <3>1 DEF alu_byte
        <5> QED BY <1>1, <5>1, <5>2 DEF vrf_wdata_wb
      <4>2. data_wdata_o(i) = i.wdata
        BY <1>7, <2>4, <3>1 DEF data_wdata_o
      <4>3. WaitingData' = [k \in WordLanes |-> ISA!Scalar]
        BY <1>2, <2>4, <3>1 DEF WaitingData
      <4> QED BY <4>1, <4>2, <4>3
    <3>2. CASE vrf_state \in {"INT_READ1", "READ"}
      <4>1. ~memory_op /\ delay_state' = "write"
        BY <1>9, <2>3, <3>2 DEF LaneStates
      <4>2. WaitingData' = rd_q'
        BY <1>2, <4>1 DEF WaitingData
      <4>3. data_wdata_o(i) = IF delay_state = "write" THEN rd_q ELSE i.wdata
        BY <1>7, <4>1 DEF data_wdata_o
      <4>4. delay_state = "none" \/ delay_state = "write"
        BY <1>9, <3>2
      <4> QED BY <1>8, <2>2, <3>2, <4>1, <4>2, <4>3, <4>4
    <3>3. CASE vrf_state = "LOAD"
      <4>1. memory_op /\ delay_state' = "write" /\ delay_state = "none"
        BY <1>9, <2>3, <3>3 DEF MemoryStates
      <4>2. WaitingData' = buffer_q'
        BY <1>2, <4>1 DEF WaitingData
      <4>3. data_wdata_o(i) = rd_q
        BY <1>7, <4>1 DEF data_wdata_o
      <4> QED BY <1>8, <2>2, <3>3, <4>1, <4>2, <4>3
    <3> QED BY <2>1, <3>1, <3>2, <3>3
  <2>6. r = VrfRequest'
    <3>1. r = PortRequest("VRF", mem_if_addr(regs, data_access(i)), data_we_o(i), data_be_o(i), data_wdata_o(i))
      BY <1>1 DEF Wired, Request
    <3>2. mem_if_addr(regs, data_access(Op))' = mem_if_addr(regs, data_access(i))
      BY <1>1, <1>2, <1>5 DEF mem_if_addr
    <3> QED BY <1>3, <1>4, <1>5, <1>11, <2>5, <3>1, <3>2 DEF VrfRequest, PortRequest, data_we_o
  <2> QED BY <1>5, <1>6, <2>1, <2>3, <2>4, <2>6
<1> QED BY <1>10, <1>11

LEMMA SamePort ==
  ASSUME NEW unit, NEW addr, NEW be, NEW wdata, NEW we \in BOOLEAN, NEW other \in BOOLEAN, we <=> other
  PROVE  PortRequest(unit, addr, we, be, wdata) = PortRequest(unit, addr, other, be, wdata)
BY DEF PortRequest

(* The first request of an access, when it is refused.                       *)
LEMMA RefusedAtFirst ==
  ASSUME HeldInv, NEW gnt \in BOOLEAN, NEW rvalid \in Answers, NEW i, NEW l, NEW r,
         Wired(gnt, rvalid, i, l, r), lsu_req_o(i), ~gnt
  PROVE  r = LsuRequest' /\ ls_fsm_cs' \in {"WAIT_GNT", "WAIT_GNT_MIS"} /\ Serving'
<1> USE DEF HeldInv
<1>1. /\ ~Serving /\ vector_op /\ ~vector_done_o(i) /\ Serving'
      /\ vrf_state' \in {"LOAD", "STORE_WAITLSU"}
      /\ vrf_state \in {"START", "LOAD_WRITE", "STORE_READ"}
      /\ vrf_state = "LOAD_WRITE" => ~last_iteration_q /\ ~final(i)
      /\ vrf_state = "STORE_READ" => store_ready(i) /\ ~first_iteration_q
  BY LsuTurn DEF lsu_req_o, store_ready
<1>2. insn' = insn /\ Fsm(i) /\ Operands(i, Zero)
  BY <1>1 DEF Wired, Stage, VrfCycle
<1>3. Op' = Op /\ data_type' = data_type /\ (vector_op' <=> vector_op)
  BY <1>2, SameInstruction
<1>4. ls_fsm_cs = "IDLE" /\ ~i.has_mem /\ ~l.gnt /\ l.lsu_req /\ i.op = Decoded
  BY <1>1, SwitchWires DEF PortInv, Routing
<1>5. ls_fsm_cs' \in {"WAIT_GNT", "WAIT_GNT_MIS"} /\ ~handle_misaligned_q /\ ~handle_misaligned_q'
  BY <1>4, LsuSteps, Halves DEF Delayed
<1>6. lsu_if_addr' = lsu_if_addr
  <2>1. ~LSU!addr_incr_req_o /\ ~LSU!addr_incr_req_o'
    BY <1>4, <1>5 DEF LSU!addr_incr_req_o
  <2>2. addr_counter' = addr_counter
    <3>1. ~data_load_addr_o(i) /\ ~lsu_resp_valid(rvalid)
      BY <1>1, AnswerComes DEF data_load_addr_o, agu_load_o
    <3> QED BY <3>1 DEF Wired, LsuInterfaceCycle
  <2>3. lsu_if_addr = addr_counter
    BY <1>1, <2>1 DEF lsu_if_addr, lsu_addr
  <2>4. lsu_if_addr' = addr_counter'
    BY <1>1, <1>3, <2>1 DEF lsu_if_addr, lsu_addr
  <2> QED BY <2>2, <2>3, <2>4
<1>7. data_be_o(Op)' = data_be_o(i)
  <2>1. (last_iteration_q' <=> last_iteration_q) /\ offset_q' = offset_q /\ slide_offset_q' = slide_offset_q
    <3>1. vrf_state = "START" => VrfStart(i)
      BY <1>2, FsmStates
    <3>2. vrf_state = "LOAD_WRITE" => VrfLoadWrite(i)
      BY <1>2, FsmStates
    <3>3. vrf_state = "STORE_READ" => VrfStoreRead(i)
      BY <1>2, FsmStates
    <3> QED BY <1>1, <3>1, <3>2, <3>3 DEF VrfStart, VrfLoadWrite, VrfStoreRead, CountDown, unchangedIterations, unchangedSetup
  <2>2. ~sel_slide_be(Op) /\ ~sel_slide_be(Op)'
    BY <1>1 DEF sel_slide_be
  <2>3. tail_bytes(Op)' = tail_bytes(Op)
    BY <1>3, <2>1 DEF tail_bytes, slide_down
  <2>4. offset_be(Op)' = offset_be(Op)
    BY <2>3 DEF offset_be
  <2>5. data_be_o(Op)' = data_be_o(Op)
    BY <2>1, <2>2, <2>4 DEF data_be_o
  <2> QED BY <1>4, <2>5, OpWires
<1>8. rdata_c_o(Op)' = rdata_c_o(i)
  <2>1. /\ delay_state = "none"
        /\ delay_state' = IF vrf_state = "STORE_READ" THEN "read" ELSE "none"
        /\ vrf_state = "STORE_READ" => buffer_q' = store_operand(i)
    BY DelaySteps
  <2>2. rdata_c_o(i) = store_operand(i)
    BY <2>1 DEF rdata_c_o
  <2>3. CASE vrf_state = "STORE_READ"
    <3>1. rdata_c_o(Op)' = buffer_q'
      BY <2>1, <2>3 DEF rdata_c_o
    <3> QED BY <2>1, <2>2, <2>3, <3>1
  <2>4. CASE vrf_state # "STORE_READ"
    <3>1. vrf_state' = "LOAD"
      <4>1. vrf_state = "START" => VrfStart(i) /\ data_access(i) = "none"
        BY <1>2, FsmStates DEF lsu_req_o, store_ready, data_access, load_ready, lsu_answered
      <4>2. vrf_state = "LOAD_WRITE" => VrfLoadWrite(i)
        BY <1>2, FsmStates
      <4> QED BY <1>1, <2>4, <4>1, <4>2 DEF VrfStart, VrfLoadWrite
    <3>2. rs3_q' = rs3_q
      <4>1. ~rs3_en(i)
        BY <1>1, <2>4 DEF rs3_en
      <4> QED BY <1>2, <4>1 DEF Operands
    <3>3. store_operand(i) = rs3_q
      BY <1>1, <2>4 DEF store_operand, mux_sel, store_ready
    <3>4. rdata_c_o(Op)' = rs3_q'
      BY <2>1, <2>4, <3>1 DEF rdata_c_o, store_operand, mux_sel, store_ready
    <3> QED BY <2>2, <3>2, <3>3, <3>4
  <2> QED BY <2>3, <2>4
<1>9. l = LsuInput(i, rvalid) /\ r = Request(i, l)
  BY DEF Wired
<1>10. /\ l.addr = lsu_if_addr /\ l.lsu_type = data_type /\ l.lsu_wdata = rdata_c_o(i)
       /\ l.vec_be = data_be_o(i) /\ l.lsu_we = (vector_op /\ insn.name \in ISA!Stores)
  BY <1>1, <1>9, LsuWires
<1>11. r = PortRequest("LSU", LSU!w_aligned(l.addr), l.lsu_we, LSU!data_be(l), LSU!data_wdata(l))
  BY <1>4, <1>9 DEF Request, LSU!data_req_o
<1>12. /\ Lsu.addr' = l.addr /\ Lsu.lsu_type' = l.lsu_type /\ Lsu.lsu_wdata' = l.lsu_wdata
       /\ Lsu.vec_be' = l.vec_be
  BY <1>3, <1>6, <1>7, <1>8, <1>10 DEF Lsu
<1> HIDE DEF Lsu
<1>13. LSU!data_be(Lsu)' = LSU!data_be(l)
  BY <1>5, <1>12 DEF LSU!data_be, LSU!access_bytes, LSU!data_offset
<1>14. LSU!data_wdata(Lsu)' = LSU!data_wdata(l)
  BY <1>12 DEF LSU!data_wdata, LSU!data_offset
<1>15. LSU!w_aligned(lsu_if_addr)' = LSU!w_aligned(l.addr)
  BY <1>6, <1>10 DEF LSU!w_aligned
<1>16. (vector_op /\ insn.name \in ISA!Stores)' <=> l.lsu_we
  BY <1>2, <1>3, <1>10 DEF ISA!Stores
<1>17. LsuRequest' = PortRequest("LSU", LSU!w_aligned(l.addr), l.lsu_we, LSU!data_be(l), LSU!data_wdata(l))
  <2>1. l.lsu_we \in BOOLEAN /\ (vector_op /\ insn.name \in ISA!Stores)' \in BOOLEAN
    BY <1>10
  <2> QED BY <1>13, <1>14, <1>15, <1>16, <2>1, SamePort DEF LsuRequest
<1> QED BY <1>1, <1>5, <1>11, <1>17

(* The request for the second half, when it is refused.                      *)
LEMMA RefusedAtSecond ==
  ASSUME HeldInv, NEW gnt \in BOOLEAN, NEW rvalid \in Answers, NEW i, NEW l, NEW r,
         Wired(gnt, rvalid, i, l, r), Serving, ~i.lsu_done, ls_fsm_cs = "WAIT_RVALID_MIS", ~gnt
  PROVE  r = LsuRequest' /\ ls_fsm_cs' \in {"WAIT_GNT", "WAIT_RVALID_MIS"} /\ Serving'
<1> USE DEF HeldInv
<1>1. /\ vector_op /\ ~vector_done_o(i) /\ Serving' /\ vrf_state' = vrf_state
      /\ vrf_state \in {"LOAD", "STORE_WAITLSU"}
  BY LsuWorks DEF Serving
<1>2. insn' = insn /\ Fsm(i) /\ Operands(i, Zero)
  BY <1>1 DEF Wired, Stage, VrfCycle
<1>3. Op' = Op /\ data_type' = data_type /\ (vector_op' <=> vector_op) /\ (memory_op' <=> memory_op)
  BY <1>2, SameInstruction
<1>4. ~i.has_mem /\ ~l.gnt /\ i.op = Decoded
  BY <1>1, SwitchWires
<1>5. /\ ls_fsm_cs' \in {"WAIT_GNT", "WAIT_RVALID_MIS"}
      /\ handle_misaligned_q /\ handle_misaligned_q' /\ addr_last_q' = addr_last_q
  BY <1>4, LsuSteps, Halves DEF Delayed
<1>6. lsu_if_addr' = lsu_if_addr
  <2>1. LSU!addr_incr_req_o /\ LSU!addr_incr_req_o'
    BY <1>5 DEF LSU!addr_incr_req_o
  <2>2. adder_result' = adder_result
    BY <1>2, <1>5, <2>1 DEF adder_result
  <2>3. scalar_addr' = scalar_addr
    BY <1>3, <2>2 DEF scalar_addr
  <2> QED BY <2>1, <2>3 DEF lsu_if_addr, lsu_addr
<1>7. VrfLoad(i) \/ VrfStoreWaitLsu(i)
  BY <1>1, <1>2, FsmStates
<1>8. ~load_ready(i) /\ ~lsu_answered(i)
  BY DEF load_ready, lsu_answered, Serving
<1>9. /\ last_iteration_q' = last_iteration_q /\ offset_q' = offset_q /\ slide_offset_q' = slide_offset_q
      /\ lsu_offset_q' = lsu_offset_q /\ curr_demux_sel' = curr_demux_sel
  BY <1>7, <1>8 DEF VrfLoad, VrfStoreWaitLsu, unchangedIterations, unchangedSetup, unchangedDemux
<1>10. data_be_o(Op)' = data_be_o(i)
  <2>1. ~sel_slide_be(Op) /\ ~sel_slide_be(Op)'
    BY <1>1 DEF sel_slide_be
  <2>2. tail_bytes(Op)' = tail_bytes(Op)
    BY <1>3, <1>9 DEF tail_bytes, slide_down
  <2>3. offset_be(Op)' = offset_be(Op)
    BY <2>2 DEF offset_be
  <2>4. data_be_o(Op)' = data_be_o(Op)
    BY <1>9, <2>1, <2>3 DEF data_be_o
  <2> QED BY <1>4, <2>4, OpWires
<1>11. rdata_c_o(Op)' = rdata_c_o(i)
  <2>1. delay_state = "none" /\ delay_state' = "none"
    <3>1. delay_state \in {"none", "write", "read"}
      BY DEF PortInv, InvType, VrfRegs
    <3>2. delay_state # "write" /\ delay_state # "read"
      BY <1>1 DEF Delayed
    <3> QED BY <3>1, <3>2, DelaySteps
  <2>2. rs3_q' = rs3_q /\ rs3_q_1' = rs3_q_1
    <3>1. ~rs3_en(i)
      BY <1>1 DEF rs3_en
    <3> QED BY <1>2, <3>1 DEF Operands
  <2>3. mux_sel(Op)' <=> mux_sel(Op)
    BY <1>1, <1>9 DEF mux_sel, store_ready
  <2>4. rdata_c_o(Op)' = rdata_c_o(Op)
    BY <2>1, <2>2, <2>3 DEF rdata_c_o, store_operand
  <2> QED BY <1>1, <1>4, <2>4, OpWires
<1>12. l = LsuInput(i, rvalid) /\ r = Request(i, l)
  BY DEF Wired
<1>13. /\ l.addr = lsu_if_addr /\ l.lsu_type = data_type /\ l.lsu_wdata = rdata_c_o(i)
       /\ l.vec_be = data_be_o(i) /\ l.lsu_we = (vector_op /\ insn.name \in ISA!Stores)
  BY <1>1, <1>12, LsuWires
<1>14. r = PortRequest("LSU", LSU!w_aligned(l.addr), l.lsu_we, LSU!data_be(l), LSU!data_wdata(l))
  BY <1>4, <1>12 DEF Request, LSU!data_req_o
<1>15. /\ Lsu.addr' = l.addr /\ Lsu.lsu_type' = l.lsu_type /\ Lsu.lsu_wdata' = l.lsu_wdata
       /\ Lsu.vec_be' = l.vec_be
  BY <1>3, <1>6, <1>10, <1>11, <1>13 DEF Lsu
<1> HIDE DEF Lsu
<1>16. LSU!data_be(Lsu)' = LSU!data_be(l)
  BY <1>5, <1>15 DEF LSU!data_be, LSU!access_bytes, LSU!data_offset
<1>17. LSU!data_wdata(Lsu)' = LSU!data_wdata(l)
  BY <1>15 DEF LSU!data_wdata, LSU!data_offset
<1>18. LSU!w_aligned(lsu_if_addr)' = LSU!w_aligned(l.addr)
  BY <1>6, <1>13 DEF LSU!w_aligned
<1>19. (vector_op /\ insn.name \in ISA!Stores)' <=> l.lsu_we
  BY <1>2, <1>3, <1>13 DEF ISA!Stores
<1>20. LsuRequest' = PortRequest("LSU", LSU!w_aligned(l.addr), l.lsu_we, LSU!data_be(l), LSU!data_wdata(l))
  <2>1. l.lsu_we \in BOOLEAN /\ (vector_op /\ insn.name \in ISA!Stores)' \in BOOLEAN
    BY <1>13
  <2> QED BY <1>16, <1>17, <1>18, <1>19, <2>1, SamePort DEF LsuRequest
<1> QED BY <1>1, <1>5, <1>14, <1>20

(* What the port shows after the edge.                                       *)
LEMMA Asks ==
  ASSUME HeldInv, NEW gnt \in BOOLEAN, NEW rvalid \in Answers, NEW i, NEW l, NEW r,
         Wired(gnt, rvalid, i, l, r)
  PROVE  /\ Withheld' <=> r # NoRequest /\ ~gnt
         /\ Withheld' => request'.r = r /\ waited' # 0
         /\ r # NoRequest => request' = [r |-> r, granted |-> gnt] /\ request' # NoRequest
<1>1. [r |-> r, granted |-> gnt] # NoRequest
  <2> DEFINE p == [r |-> r, granted |-> gnt]
  <2>1. "granted" \in DOMAIN p
    OBVIOUS
  <2>2. "granted" \notin DOMAIN NoRequest
    BY DEF NoRequest
  <2> QED BY <2>1, <2>2
<1>2. waited \in Nat
  <2>1. scenario.wait \in Nat
    BY UnitAssumption DEF HeldInv, PortInv, InvType
  <2> QED BY <2>1 DEF HeldInv, PortInv, InvType, TypeOK
<1>3. /\ request' = IF r = NoRequest THEN NoRequest ELSE [r |-> r, granted |-> gnt]
      /\ waited' = IF r # NoRequest /\ ~gnt THEN waited + 1 ELSE 0
  BY DEF Wired, Memory
<1>4. r # NoRequest => request'.r = r /\ request'.granted = gnt
  BY <1>3
<1>5. Withheld' <=> r # NoRequest /\ ~gnt
  BY <1>1, <1>3, <1>4 DEF Withheld
<1> QED BY <1>1, <1>2, <1>3, <1>4, <1>5

(* A load or store has waited long enough when it has waited.                *)
LEMMA MemoryGranted ==
  ASSUME HeldInv, NEW gnt \in BOOLEAN, NEW rvalid \in Answers, NEW i, NEW l, NEW r,
         Wired(gnt, rvalid, i, l, r), Withheld, vector_op, memory_op
  PROVE  gnt
<1>1. scenario.wait \in Nat /\ ~(scenario.wait > 1) /\ waited \in 0 .. scenario.wait /\ waited # 0
  BY InsnFields DEF HeldInv, PortInv, InvType, TypeOK, Delayed
<1>2. waited = scenario.wait
  BY <1>1
<1> QED BY <1>2, AskedAgain DEF Wired

(* A clock edge keeps the rest.                                              *)
LEMMA KeepsDelayed ==
  ASSUME HeldInv, MemoryWaitsOnce, NEW gnt \in BOOLEAN, NEW rvalid \in Answers, NEW i, NEW l, NEW r,
         Wired(gnt, rvalid, i, l, r)
  PROVE  Delayed'
<1> USE DEF HeldInv
<1>1. \/ lsu_req_o(i) /\ vrf_state' \in {"LOAD", "STORE_WAITLSU"}
                      /\ (vrf_state' = "LOAD" => vrf_state \in {"START", "LOAD_WRITE"})
      \/ Serving /\ ~i.lsu_done /\ vrf_state' = vrf_state
      \/ ~lsu_req_o(i) /\ (~Serving \/ i.lsu_done) /\ ls_fsm_cs' = "IDLE"
  BY LsuTurn, LsuWorks, VrfTurn
<1>2. delay_state' = "write" => vrf_state' \in {"INT_READ1", "READ", "LOAD_WAITGNT"}
  <2> SUFFICES ASSUME delay_state' = "write" PROVE vrf_state' \in {"INT_READ1", "READ", "LOAD_WAITGNT"}
    OBVIOUS
  <2>1. ~lsu_req_o(i) /\ (~Serving \/ i.lsu_done) /\ write_delayed(i)
    BY DelaySteps
  <2>2. i.has_mem /\ r # NoRequest /\ ~gnt
    <3>1. vrf_state # "IDLE" /\ data_req_o(i) /\ ~i.gnt
      BY <2>1 DEF write_delayed, data_we_o, data_req_o
    <3>2. vector_op /\ ls_fsm_cs = "IDLE"
      BY <2>1, <3>1, AnswerComes DEF PortInv, Routing, Sequencing
    <3> QED BY <2>1, <3>1, <3>2, SwitchWires, Requests DEF Wired
  <2> QED BY <2>1, <2>2, Refused DEF write_delayed
<1>3. delay_state' = "read" => vrf_state' = "STORE_WAITLSU" /\ ls_fsm_cs' \in {"WAIT_GNT", "WAIT_GNT_MIS"}
  <2> SUFFICES ASSUME delay_state' = "read"
               PROVE  vrf_state' = "STORE_WAITLSU" /\ ls_fsm_cs' \in {"WAIT_GNT", "WAIT_GNT_MIS"}
    OBVIOUS
  <2>1. lsu_req_o(i) /\ vrf_state = "STORE_READ" /\ ~gnt
    BY DelaySteps
  <2> QED BY <2>1, LsuTurn, RefusedAtFirst
<1>4. vrf_state' = "LOAD_WAITGNT" => delay_state' = "write" /\ Withheld'
  <2> SUFFICES ASSUME vrf_state' = "LOAD_WAITGNT" PROVE delay_state' = "write" /\ Withheld'
    OBVIOUS
  <2>1. ~lsu_req_o(i) /\ (~Serving \/ i.lsu_done)
    BY <1>1 DEF Serving
  <2>2. vector_op /\ Fsm(i) /\ vrf_state \in VrfStates /\ ls_fsm_cs = "IDLE"
    BY <2>1, VrfMoves, AnswerComes DEF Wired, VrfCycle, PortInv, InvType, VrfRegs, Routing
  <2>3. vrf_state \in {"LOAD", "LOAD_WAITGNT"}
    <3>1. vrf_state \notin {"IDLE", "START", "INT_READ1", "INT_READ2", "INT_READ3", "INT_WRITE"}
      BY <2>2, FsmStates DEF VrfIdle, VrfStart, VrfIntRead1, VrfIntRead2, VrfIntRead3, VrfIntWrite, OnGrant, Finish
    <3>2. vrf_state \notin {"LOAD_SLIDE", "READ", "WRITE", "LOAD_WRITE"}
      BY <2>2, FsmStates DEF VrfLoadSlide, VrfRead, VrfWrite, VrfLoadWrite, OnGrant, Finish
    <3>3. vrf_state \notin {"STORE_READ", "STORE_WAITLSU", "STORE_WAITGNT"}
      BY <2>2, FsmStates DEF VrfStoreRead, VrfStoreWaitLsu, VrfStoreWaitGnt, OnGrant, Finish
    <3> QED BY <2>2, <3>1, <3>2, <3>3 DEF VrfStates
  <2>4. ~i.gnt /\ data_access(i) = "write"
    <3>1. CASE vrf_state = "LOAD_WAITGNT"
      <4>1. VrfLoadWaitGnt(i)
        BY <2>2, <3>1, FsmStates
      <4>2. ~i.gnt
        BY <4>1 DEF VrfLoadWaitGnt, OnGrant
      <4> QED BY <3>1, <4>2 DEF data_access, load_ready, lsu_answered
    <3>2. CASE vrf_state = "LOAD"
      <4>1. VrfLoad(i)
        BY <2>2, <3>2, FsmStates
      <4>2. load_ready(i) /\ ~first_iteration_q /\ ~i.gnt
        BY <3>2, <4>1 DEF VrfLoad
      <4> QED BY <3>2, <4>2 DEF data_access, lsu_answered
    <3> QED BY <2>3, <3>1, <3>2
  <2>5. i.has_mem /\ ~gnt /\ data_req_o(i)
    BY <2>1, <2>2, <2>4, SwitchWires DEF data_req_o
  <2>6. r # NoRequest
    BY <2>5, Requests DEF Wired
  <2> QED BY <2>1, <2>3, <2>4, <2>5, <2>6, RefusedByVrf, Asks
<1>5. ls_fsm_cs' \in {"WAIT_GNT", "WAIT_GNT_MIS"} => Withheld'
  <2> SUFFICES ASSUME ls_fsm_cs' \in {"WAIT_GNT", "WAIT_GNT_MIS"} PROVE Withheld'
    OBVIOUS
  <2>1. LSU!data_req_o(l) /\ ~l.gnt
    BY Halves
  <2>2. ~i.has_mem
    <3>1. ls_fsm_cs = "IDLE" => l.lsu_req
      BY <2>1, LsuSteps
    <3> QED BY <3>1, SwitchWires
  <2>3. r # NoRequest /\ ~gnt
    BY <2>1, <2>2, SwitchWires, Requests DEF Wired
  <2> QED BY <2>3, Asks
<1>6. (scenario.wait > 1 /\ vector_op)' => ~memory_op'
  <2> SUFFICES ASSUME scenario.wait > 1, vector_op' PROVE ~memory_op'
    BY DEF Wired
  <2>1. scenario \in Scenarios /\ Stage(i)
    BY DEF PortInv, InvType, Wired
  <2>2. \A k \in DOMAIN scenario.program : scenario.program[k].name \notin ISA!Loads \cup ISA!Stores
    BY <2>1 DEF MemoryWaitsOnce
  <2>3. CASE vector_op /\ insn' = insn
    BY <2>3, SameInstruction DEF Delayed
  <2>4. CASE ~(vector_op /\ insn' = insn)
    <3>1. insn' \in {None} \cup {scenario.program[k] : k \in DOMAIN scenario.program \cap {issued + 1}}
      BY <2>1, <2>4 DEF Stage
    <3>2. insn' # None
      BY DEF vector_op
    <3>3. PICK k \in DOMAIN scenario.program : insn' = scenario.program[k]
      BY <3>1, <3>2
    <3>4. insn'.name \notin ISA!Loads \cup ISA!Stores
      BY <2>2, <3>3
    <3> QED BY <3>4 DEF memory_op, ISA!Loads, ISA!Stores
  <2> QED BY <2>3, <2>4
<1>7. /\ Withheld' => waited' # 0
      /\ ls_fsm_cs' = "WAIT_RVALID_MIS" => handle_misaligned_q'
      /\ ls_fsm_cs' \in {"IDLE", "WAIT_GNT_MIS", "WAIT_RVALID_MIS_GNTS_DONE"} => ~handle_misaligned_q'
      /\ vrf_state' \in MemoryStates => memory_op'
      /\ vrf_state' \in LaneStates => ~memory_op'
  BY Asks, Halves, Kinds
<1> QED BY <1>2, <1>3, <1>4, <1>5, <1>6, <1>7 DEF Delayed, MemoryStates, LaneStates

LEMMA KeepsWaiting ==
  ASSUME HeldInv, NEW gnt \in BOOLEAN, NEW rvalid \in Answers, NEW i, NEW l, NEW r,
         Wired(gnt, rvalid, i, l, r)
  PROVE  Waiting'
<1> USE DEF HeldInv
<1> SUFFICES ASSUME Withheld'
             PROVE  IF Serving'
                      THEN ls_fsm_cs' \in {"WAIT_GNT", "WAIT_GNT_MIS", "WAIT_RVALID_MIS"} /\ request'.r = LsuRequest'
                      ELSE /\ vrf_state' \in {"START", "LOAD_WAITGNT", "STORE_WAITGNT"} \cup LaneStates
                           /\ vrf_state' \in {"INT_READ1", "READ"} => ~first_iteration_q'
                           /\ data_access(Op)' # "none" /\ request'.r = VrfRequest'
                           /\ data_access(Op)' = "write" /\ ~memory_op' /\ delay_state' # "write" => insn'.name = "vmv_v_x"
  BY DEF Waiting, LaneStates
<1>1. r # NoRequest /\ ~gnt /\ request'.r = r
  BY Asks
<1>2. CASE lsu_req_o(i)
  <2>1. r = LsuRequest' /\ ls_fsm_cs' \in {"WAIT_GNT", "WAIT_GNT_MIS"} /\ Serving'
    BY <1>1, <1>2, RefusedAtFirst
  <2> QED BY <1>1, <2>1
<1>3. CASE Serving /\ ~i.lsu_done
  <2>1. ls_fsm_cs = "WAIT_RVALID_MIS"
    <3>1. ls_fsm_cs \in {"IDLE", "WAIT_RVALID_MIS", "WAIT_GNT", "WAIT_GNT_MIS", "WAIT_RVALID_MIS_GNTS_DONE"}
      BY DEF PortInv, InvType, TypeOK, LSU!LsuStates
    <3>2. vector_op /\ memory_op
      BY <1>3, LsuWorks DEF Serving, Delayed, MemoryStates
    <3>3. ls_fsm_cs \notin {"WAIT_GNT", "WAIT_GNT_MIS"}
      BY <1>1, <3>2, MemoryGranted DEF Delayed
    <3>4. ~lsu_req_o(i) /\ ~data_req_o(i)
      BY <1>3 DEF Serving, lsu_req_o, store_ready, load_ready, lsu_answered, data_req_o, data_access
    <3>5. ls_fsm_cs = "IDLE" => ~LSU!data_req_o(l)
      BY <3>4, SwitchWires, LsuSteps
    <3>6. ls_fsm_cs = "WAIT_RVALID_MIS_GNTS_DONE" => ~LSU!data_req_o(l)
      BY LsuSteps
    <3> QED BY <1>1, <3>1, <3>3, <3>4, <3>5, <3>6, Requests DEF Wired
  <2>2. r = LsuRequest' /\ ls_fsm_cs' \in {"WAIT_GNT", "WAIT_RVALID_MIS"} /\ Serving'
    BY <1>1, <1>3, <2>1, RefusedAtSecond
  <2> QED BY <1>1, <2>2
<1>4. CASE ~lsu_req_o(i) /\ (~Serving \/ i.lsu_done)
  <2>1. ~Serving'
    BY <1>4, VrfMoves
  <2>2. /\ data_req_o(i) /\ insn' = insn
        /\ vrf_state \in {"START", "LOAD", "LOAD_WAITGNT", "STORE_WAITLSU", "STORE_WAITGNT"} \cup LaneStates
        /\ vrf_state' = IF vrf_state = "LOAD" THEN "LOAD_WAITGNT"
                        ELSE IF vrf_state = "STORE_WAITLSU" THEN "STORE_WAITGNT" ELSE vrf_state
        /\ vrf_state \in {"INT_READ1", "READ"} => ~first_iteration_q'
    BY <1>1, <1>4, Refused
  <2>3. /\ data_access(Op)' = data_access(i) /\ r = VrfRequest'
        /\ data_access(i) = "write" /\ ~memory_op /\ delay_state' # "write" => insn.name = "vmv_v_x"
    BY <1>1, <1>4, RefusedByVrf
  <2>4. memory_op' <=> memory_op
    BY <2>2, SameInstruction
  <2>5. vrf_state' \in {"START", "LOAD_WAITGNT", "STORE_WAITGNT"} \cup LaneStates
    BY <2>2
  <2>6. vrf_state' \in {"INT_READ1", "READ"} => ~first_iteration_q'
    BY <2>2
  <2> QED BY <1>1, <2>1, <2>2, <2>3, <2>4, <2>5, <2>6 DEF data_req_o
<1> QED BY <1>2, <1>3, <1>4

LEMMA StepHeld ==
  ASSUME HeldInv, OnlyStoresAreLate, MemoryWaitsOnce,
         NEW gnt \in BOOLEAN, NEW rvalid \in Answers, Cycle(gnt, rvalid)
  PROVE  HeldInv' /\ (Withheld => request' # NoRequest /\ request'.r = request.r)
<1>1. PICK i, l, r : Wired(gnt, rvalid, i, l, r)
  BY Edge DEF Wired
<1>2. PortInv'
  BY StepPort DEF HeldInv
<1>3. Waiting' /\ Delayed'
  BY <1>1, KeepsWaiting, KeepsDelayed
<1>4. Withheld => r # NoRequest /\ r = request.r
  BY <1>1, AskedAgain
<1>5. r # NoRequest => request' # NoRequest /\ request'.r = r
  BY <1>1, Asks
<1> QED BY <1>2, <1>3, <1>4, <1>5 DEF HeldInv

LEMMA InitHeld == Init => HeldInv
<1> SUFFICES ASSUME Init PROVE HeldInv
  OBVIOUS
<1>1. PortInv
  BY InitPort
<1>2. ~Withheld /\ ~vector_op
  BY DEF Init, Withheld, vector_op
<1>3. vrf_state = "IDLE" /\ delay_state = "none" /\ ls_fsm_cs = "IDLE" /\ ~handle_misaligned_q
  BY DEF Init, VrfInit, LSU!LsuInit
<1> QED BY <1>1, <1>2, <1>3 DEF HeldInv, Waiting, Delayed, MemoryStates, LaneStates

LEMMA StutterHeld ==
  ASSUME HeldInv, UNCHANGED vars
  PROVE  HeldInv'
<1> USE DEF HeldInv
<1>1. PortInv'
  BY StutterPort
<1>2. /\ UNCHANGED <<vrf_state, num_iterations_q, offset_q, first_iteration_q, last_iteration_q>>
      /\ UNCHANGED <<slide_offset_q, slide_first_write_q, lsu_offset_q, curr_demux_sel>>
      /\ UNCHANGED <<rd_q, rs3_q, rs3_q_1, delay_state, buffer_q, ls_fsm_cs, handle_misaligned_q, addr_last_q>>
      /\ UNCHANGED <<addr_q, addr_counter, scenario, insn, waited, request>>
  BY DEF vars, vrfVars, LSU!lsuVars
<1>3. Delayed'
  <2>1. (memory_op' <=> memory_op) /\ (vector_op' <=> vector_op) /\ (Withheld' <=> Withheld)
    BY <1>2 DEF memory_op, vector_op, Withheld
  <2> QED BY <1>2, <2>1 DEF Delayed
<1>4. /\ Op' = Op /\ regs' = regs /\ data_type' = data_type
      /\ (vector_op' <=> vector_op) /\ (memory_op' <=> memory_op) /\ (Withheld' <=> Withheld)
  BY <1>2, SameInstruction DEF Withheld
<1>5. /\ (final(Op)' <=> final(Op)) /\ tail_bytes(Op)' = tail_bytes(Op)
      /\ (sel_slide_be(Op)' <=> sel_slide_be(Op))
  <2>1. (no_offset(Op)' <=> no_offset(Op)) /\ (slide_down(Op)' <=> slide_down(Op))
    BY <1>2, <1>4 DEF no_offset, slide_down
  <2> QED BY <1>2, <1>4, <2>1 DEF final, tail_bytes, sel_slide_be
<1>6. data_be_o(Op)' = data_be_o(Op)
  <2>1. slide_offset_be' = slide_offset_be /\ offset_be(Op)' = offset_be(Op)
    BY <1>2, <1>5 DEF slide_offset_be, offset_be
  <2> QED BY <1>2, <1>5, <2>1 DEF data_be_o
<1>7. data_access(Op)' = data_access(Op)
  BY <1>2, <1>4, <1>5 DEF data_access, load_ready, lsu_answered, Op
<1>8. rdata_c_o(Op)' = rdata_c_o(Op) /\ WaitingData' = WaitingData
  <2>1. mux_sel(Op)' <=> mux_sel(Op)
    BY <1>2, <1>4 DEF mux_sel, store_ready
  <2> QED BY <1>2, <1>4, <2>1 DEF rdata_c_o, store_operand, WaitingData
<1>9. lsu_if_addr' = lsu_if_addr
  <2>1. adder_result' = adder_result /\ (LSU!addr_incr_req_o' <=> LSU!addr_incr_req_o)
    BY <1>2 DEF adder_result, LSU!addr_incr_req_o
  <2> QED BY <1>2, <1>4, <2>1 DEF lsu_if_addr, lsu_addr, scalar_addr
<1>10. VrfRequest' = VrfRequest
  BY <1>2, <1>4, <1>6, <1>7, <1>8 DEF VrfRequest, mem_if_addr, PortRequest
<1>11. LsuRequest' = LsuRequest
  <2>1. Lsu' = Lsu
    BY <1>4, <1>6, <1>8, <1>9 DEF Lsu
  <2>2. (vector_op /\ insn.name \in ISA!Stores)' <=> (vector_op /\ insn.name \in ISA!Stores)
    BY <1>2, <1>4 DEF ISA!Stores
  <2> HIDE DEF Lsu
  <2>3. LSU!data_be(Lsu)' = LSU!data_be(Lsu)
    BY <1>2, <2>1 DEF LSU!data_be, LSU!access_bytes, LSU!data_offset
  <2>4. LSU!data_wdata(Lsu)' = LSU!data_wdata(Lsu)
    BY <2>1 DEF LSU!data_wdata, LSU!data_offset
  <2>5. LSU!w_aligned(lsu_if_addr)' = LSU!w_aligned(lsu_if_addr)
    BY <1>9 DEF LSU!w_aligned
  <2> QED BY <2>2, <2>3, <2>4, <2>5, SamePort DEF LsuRequest
<1>12. Waiting'
  BY <1>2, <1>4, <1>7, <1>10, <1>11 DEF Waiting, Serving, LaneStates
<1> QED BY <1>1, <1>3, <1>12

THEOREM HeldInvariance == OnlyStoresAreLate /\ MemoryWaitsOnce => (Spec => []HeldInv)
<1> SUFFICES ASSUME OnlyStoresAreLate, MemoryWaitsOnce PROVE Spec => []HeldInv
  OBVIOUS
<1>1. HeldInv /\ [Next]_vars => HeldInv'
  BY StepHeld, StutterHeld DEF Next
<1> QED BY <1>1, InitHeld, PTL DEF Spec

(* A request that is not granted stays on the data port unchanged, address,  *)
(* byte enables and data.                                                    *)
THEOREM RequestIsHeld == OnlyStoresAreLate /\ MemoryWaitsOnce => (Spec => RequestHeld)
<1> SUFFICES ASSUME OnlyStoresAreLate, MemoryWaitsOnce PROVE Spec => RequestHeld
  OBVIOUS
<1>1. HeldInv /\ [Next]_vars =>
        [(request # NoRequest /\ ~request.granted) => request' # NoRequest /\ request'.r = request.r]_vars
  BY StepHeld DEF Next, Withheld
<1> QED BY <1>1, HeldInvariance, PTL DEF Spec, RequestHeld
=============================================================================
