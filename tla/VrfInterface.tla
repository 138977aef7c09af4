------------------------------ MODULE VrfInterface ------------------------------
(***************************************************************************)
(* cve2_vrf_interface: the sequencer of a vector instruction.  It reads the  *)
(* source registers from the memory they live in, a word at a time, and      *)
(* writes results back, or paces the load/store unit for a vector load or    *)
(* store.  The inputs of a clock cycle are a record i:                       *)
(*   req, bytes          vrf_req and num_bytes_elements, vl in bytes         *)
(*   op                  decoded instruction: memory_op, sel (sel_operation_i *)
(*                       as a subset of rs1, rs2, rs3, rd), mult_ops,        *)
(*                       slide_op, is_slide_up                               *)
(*   slide_offset        in bytes                                            *)
(*   gnt, rvalid, rdata  the memory port                                     *)
(*   lsu_gnt, lsu_offset, lsu_done                                           *)
(*                       the load/store unit                                 *)
(*   wdata               the result of the ALU or of the load                *)
(***************************************************************************)
EXTENDS Integers

CONSTANT MaxIterations    \* values of num_iterations_q, for 2^30

ASSUME MaxIterationsAssumption == MaxIterations \in Nat \ {0}

VARIABLES vrf_state, num_iterations_q,
          offset_q,                    \* bytes of the last word, 0 when it is full
          first_iteration_q, last_iteration_q,
          slide_offset_q, slide_first_write_q, slide_buffer_q,
          lsu_offset_q, curr_demux_sel,
          rs1_q, rs2_q, rs3_q, rs3_q_1, rd_q,
          delay_state,                 \* curr_state_delay: none, write or read
          buffer_q

vrfVars == <<vrf_state, num_iterations_q, offset_q, first_iteration_q, last_iteration_q,
             slide_offset_q, slide_first_write_q, slide_buffer_q, lsu_offset_q,
             curr_demux_sel, rs1_q, rs2_q, rs3_q, rs3_q_1, rd_q, delay_state, buffer_q>>

WordLanes == 0 .. 3
VrfStates == {"IDLE", "START", "INT_READ1", "INT_READ2", "INT_READ3", "INT_WRITE",
              "LOAD_SLIDE", "READ", "WRITE", "LOAD", "LOAD_WAITGNT", "LOAD_WRITE",
              "STORE_READ", "STORE_WAITLSU", "STORE_WAITGNT"}

----------------------------------------------------------------------------
(* Byte enables.                                                           *)

slide_down(i) == i.op.slide_op /\ ~i.op.is_slide_up

(* Bytes the last write carries, 0 for all four.  A slide down ends where   *)
(* the source runs out of elements.                                         *)
tail_bytes(i) == IF slide_down(i) THEN (offset_q - slide_offset_q) % 4 ELSE offset_q

offset_be(i) == IF tail_bytes(i) = 0 THEN WordLanes ELSE 0 .. tail_bytes(i) - 1

no_offset(i) == IF slide_down(i) THEN offset_q <= slide_offset_q ELSE offset_q = 0

slide_offset_be == slide_offset_q .. 3

final(i) == num_iterations_q = (IF no_offset(i) THEN 1 ELSE 0)

sel_slide_be(i) == /\ vrf_state = "READ" /\ ~first_iteration_q
                   /\ slide_first_write_q /\ i.op.is_slide_up

data_be_o(i) == (IF sel_slide_be(i) THEN slide_offset_be ELSE WordLanes)
                  \cap (IF last_iteration_q THEN offset_be(i) ELSE WordLanes)

----------------------------------------------------------------------------
(* Outputs to the memory port, the AGU and the load/store unit.             *)

store_ready(i) == vrf_state = "STORE_READ" /\ (i.rvalid \/ last_iteration_q)

load_ready(i) == vrf_state = "LOAD" /\ (i.lsu_done \/ last_iteration_q)

M_lsu_answered(i) == vrf_state = "STORE_WAITLSU"

lsu_answered(i) == vrf_state = "STORE_WAITLSU" /\ (i.lsu_done \/ first_iteration_q)

(* The register the port asks for: a source to read, "rd" when it is the    *)
(* source of a store or of a multiply-accumulate, "write" for the           *)
(* destination, or none.                                                    *)
data_access(i) ==
  LET sel == i.op.sel
      source == IF "rs1" \in sel THEN "rs1" ELSE "rs2"
  IN  CASE vrf_state = "START" /\ i.op.memory_op ->
             IF "rs3" \in sel THEN "rd" ELSE "none"
        [] vrf_state = "START" /\ ~i.op.memory_op ->
             IF i.op.mult_ops \/ sel \cap {"rs1", "rs2"} # {} THEN source
             ELSE IF "rd" \in sel THEN "write" ELSE "none"
        [] vrf_state = "INT_READ2" /\ {"rs1", "rs3"} \subseteq sel -> "rd"
        [] \/ vrf_state = "INT_READ2" /\ ~({"rs1", "rs3"} \subseteq sel)
           \/ vrf_state = "INT_READ3" ->
             IF "rd" \in sel /\ ~last_iteration_q THEN source ELSE "none"
        [] vrf_state = "INT_WRITE" ->
             IF last_iteration_q \/ "rs2" \notin sel THEN "none"
             ELSE IF "rs1" \in sel THEN "rs2" ELSE "rd"
        [] vrf_state = "LOAD_SLIDE" -> "rs2"
        [] vrf_state = "WRITE" ->
             IF last_iteration_q THEN "none"
             ELSE IF sel \cap {"rs1", "rs2"} = {} THEN "write"
             ELSE IF final(i) THEN "none" ELSE source
        [] \/ vrf_state \in {"INT_READ1", "READ"} /\ ~first_iteration_q
           \/ load_ready(i) /\ ~first_iteration_q
           \/ vrf_state = "LOAD_WAITGNT" -> "write"
        [] \/ lsu_answered(i) /\ ~last_iteration_q /\ ~final(i)
           \/ vrf_state = "STORE_WAITGNT" -> "rd"
        [] OTHER -> "none"

data_req_o(i) == data_access(i) # "none"
data_we_o(i) == data_access(i) = "write"
accepted(i) == data_req_o(i) /\ i.gnt

(* The AGU does not move past the third operand, which is written next.     *)
agu_incr_o(i) == accepted(i) /\ ~(data_access(i) = "rd" /\ ~i.op.memory_op)
agu_load_o(i) == vrf_state = "IDLE" /\ i.req /\ i.bytes # 0
data_load_addr_o(i) == agu_load_o(i) /\ i.op.memory_op

lsu_req_o(i) == \/ /\ vrf_state = "START" /\ i.op.memory_op
                   /\ "rs3" \notin i.op.sel /\ "rd" \in i.op.sel
                \/ vrf_state = "LOAD_WRITE" /\ ~last_iteration_q /\ ~final(i)
                \/ store_ready(i) /\ ~first_iteration_q

(* A misaligned store alternates between two operand registers.             *)
mux_sel(i) == /\ lsu_offset_q # 0 /\ curr_demux_sel = 0
              /\ \/ store_ready(i) /\ ~first_iteration_q
                 \/ vrf_state = "STORE_WAITLSU"

vector_done_o(i) == \/ vrf_state = "IDLE" /\ i.req /\ i.bytes = 0
                    \/ vrf_state \in {"INT_WRITE", "WRITE", "LOAD_WRITE"} /\ last_iteration_q
                    \/ lsu_answered(i) /\ last_iteration_q

write_delayed(i) == /\ data_we_o(i) /\ ~i.gnt
                    /\ vrf_state \in {"INT_READ1", "READ", "LOAD"}
read_delayed(i) == store_ready(i) /\ ~first_iteration_q /\ ~i.lsu_gnt

data_wdata_o(i) ==
  IF i.op.memory_op THEN IF delay_state = "write" THEN buffer_q ELSE rd_q
  ELSE IF delay_state = "write" THEN rd_q ELSE i.wdata

store_operand(i) == IF mux_sel(i) THEN rs3_q_1 ELSE rs3_q
rdata_c_o(i) == IF delay_state = "read" THEN buffer_q ELSE store_operand(i)

----------------------------------------------------------------------------
(* The state machine.                                                      *)

VrfInit(zero) ==
  /\ vrf_state = "IDLE" /\ num_iterations_q = 0 /\ offset_q = 0
  /\ first_iteration_q = FALSE /\ last_iteration_q = FALSE
  /\ slide_offset_q = 0 /\ slide_first_write_q = FALSE
  /\ slide_buffer_q = [k \in 0 .. 2 |-> zero]
  /\ lsu_offset_q = 0 /\ curr_demux_sel = 0
  /\ rs1_q = [k \in WordLanes |-> zero] /\ rs2_q = rs1_q /\ rs3_q = rs1_q
  /\ rs3_q_1 = rs1_q /\ rd_q = rs1_q /\ buffer_q = rs1_q
  /\ delay_state = "none"

(* Stay, unless the memory takes the request.                               *)
OnGrant(i, next) == vrf_state' = IF i.gnt THEN next ELSE vrf_state

unchangedIterations == UNCHANGED <<num_iterations_q, last_iteration_q>>
unchangedSetup == UNCHANGED <<offset_q, slide_offset_q, lsu_offset_q>>
unchangedFirst == UNCHANGED <<first_iteration_q, slide_first_write_q>>
unchangedDemux == UNCHANGED curr_demux_sel

(* The next word: the last one is marked, the others are counted down.      *)
CountDown(i, taken) ==
  /\ last_iteration_q' = (last_iteration_q \/ (taken /\ final(i)))
  /\ num_iterations_q' = IF taken /\ ~final(i) THEN (num_iterations_q - 1) % MaxIterations
                         ELSE num_iterations_q

Finish == /\ vrf_state' = "IDLE" /\ num_iterations_q' = 0
          /\ UNCHANGED last_iteration_q

iterations(i) == (i.bytes \div 4 - (IF i.op.slide_op THEN i.slide_offset \div 4 ELSE 0))
                   % MaxIterations

M_slide_offset_d(i) == IF i.op.slide_op THEN i.slide_offset ELSE slide_offset_q

slide_offset_d(i) == IF i.op.slide_op THEN i.slide_offset % 4 ELSE slide_offset_q

M_demux_in_idle == curr_demux_sel

demux_in_idle == 0    \* the operand registers start over

VrfIdle(i) ==
  /\ vrf_state = "IDLE"
  /\ last_iteration_q' = FALSE /\ curr_demux_sel' = demux_in_idle
  /\ IF agu_load_o(i)
       THEN /\ vrf_state' = "START"
            /\ num_iterations_q' = iterations(i)
            /\ offset_q' = i.bytes % 4
            /\ slide_offset_q' = slide_offset_d(i)
       ELSE /\ num_iterations_q' = 0
            /\ UNCHANGED <<vrf_state, offset_q, slide_offset_q>>
  /\ unchangedFirst /\ UNCHANGED lsu_offset_q

VrfStart(i) ==
  /\ vrf_state = "START"
  /\ first_iteration_q' = TRUE /\ slide_first_write_q' = TRUE
  /\ lsu_offset_q' = i.lsu_offset
  /\ IF data_access(i) = "none" THEN vrf_state' = IF lsu_req_o(i) THEN "LOAD" ELSE "IDLE"
     ELSE OnGrant(i, IF i.op.memory_op THEN "STORE_READ"
                     ELSE IF i.op.mult_ops THEN "INT_READ1"
                     ELSE IF data_access(i) = "write" THEN "WRITE"
                     ELSE IF slide_down(i) /\ slide_offset_q # 0 THEN "LOAD_SLIDE" ELSE "READ")
  /\ unchangedIterations /\ unchangedDemux /\ UNCHANGED <<offset_q, slide_offset_q>>

(* Result of the previous word while the first operand of the next arrives. *)
VrfIntRead1(i) ==
  /\ vrf_state = "INT_READ1"
  /\ first_iteration_q' = FALSE
  /\ IF first_iteration_q THEN vrf_state' = "INT_WRITE" ELSE OnGrant(i, "INT_WRITE")
  /\ unchangedIterations /\ unchangedSetup /\ unchangedDemux /\ UNCHANGED slide_first_write_q

VrfIntRead2(i) ==
  /\ vrf_state = "INT_READ2"
  /\ IF {"rs1", "rs3"} \subseteq i.op.sel THEN OnGrant(i, "INT_READ3")
     ELSE IF "rd" \notin i.op.sel THEN vrf_state' = "IDLE"
     ELSE IF last_iteration_q THEN vrf_state' = "INT_READ1" ELSE OnGrant(i, "INT_READ1")
  /\ unchangedIterations /\ unchangedSetup /\ unchangedFirst /\ unchangedDemux

VrfIntRead3(i) ==
  /\ vrf_state = "INT_READ3"
  /\ IF "rd" \notin i.op.sel THEN vrf_state' = "IDLE"
     ELSE IF last_iteration_q THEN vrf_state' = "INT_READ1" ELSE OnGrant(i, "INT_READ1")
  /\ unchangedIterations /\ unchangedSetup /\ unchangedFirst /\ unchangedDemux

VrfIntWrite(i) ==
  /\ vrf_state = "INT_WRITE"
  /\ IF last_iteration_q THEN Finish
     ELSE IF "rs2" \in i.op.sel THEN OnGrant(i, "INT_READ2") /\ CountDown(i, i.gnt)
     ELSE vrf_state' = "IDLE" /\ unchangedIterations
  /\ unchangedSetup /\ unchangedFirst /\ unchangedDemux

VrfLoadSlide(i) ==
  /\ vrf_state = "LOAD_SLIDE"
  /\ OnGrant(i, "READ")
  /\ unchangedIterations /\ unchangedSetup /\ unchangedFirst /\ unchangedDemux

VrfRead(i) ==
  /\ vrf_state = "READ"
  /\ first_iteration_q' = FALSE
  /\ IF first_iteration_q
       THEN vrf_state' = "WRITE" /\ UNCHANGED slide_first_write_q
       ELSE OnGrant(i, "WRITE") /\ slide_first_write_q' = (slide_first_write_q /\ ~i.gnt)
  /\ unchangedIterations /\ unchangedSetup /\ unchangedDemux

VrfWrite(i) ==
  /\ vrf_state = "WRITE"
  /\ IF last_iteration_q THEN Finish
     ELSE IF i.op.sel \cap {"rs1", "rs2"} = {} THEN CountDown(i, i.gnt) /\ UNCHANGED vrf_state
     ELSE IF final(i) THEN CountDown(i, TRUE) /\ vrf_state' = "READ"
     ELSE OnGrant(i, "READ") /\ CountDown(i, i.gnt)
  /\ unchangedSetup /\ unchangedFirst /\ unchangedDemux

(* A loaded word is written while the next is being loaded.                 *)
VrfLoad(i) ==
  /\ vrf_state = "LOAD"
  /\ IF ~load_ready(i) THEN UNCHANGED <<vrf_state, first_iteration_q>>
     ELSE /\ first_iteration_q' = FALSE
          /\ vrf_state' = IF first_iteration_q \/ i.gnt THEN "LOAD_WRITE" ELSE "LOAD_WAITGNT"
  /\ unchangedIterations /\ unchangedSetup /\ unchangedDemux /\ UNCHANGED slide_first_write_q

VrfLoadWaitGnt(i) ==
  /\ vrf_state = "LOAD_WAITGNT"
  /\ OnGrant(i, "LOAD_WRITE")
  /\ unchangedIterations /\ unchangedSetup /\ unchangedFirst /\ unchangedDemux

VrfLoadWrite(i) ==
  /\ vrf_state = "LOAD_WRITE"
  /\ IF last_iteration_q THEN Finish ELSE vrf_state' = "LOAD" /\ CountDown(i, TRUE)
  /\ unchangedSetup /\ unchangedFirst /\ unchangedDemux

VrfStoreRead(i) ==
  /\ vrf_state = "STORE_READ"
  /\ vrf_state' = IF store_ready(i) THEN "STORE_WAITLSU" ELSE vrf_state
  /\ unchangedIterations /\ unchangedSetup /\ unchangedFirst /\ unchangedDemux

VrfStoreWaitLsu(i) ==
  /\ vrf_state = "STORE_WAITLSU"
  /\ IF ~lsu_answered(i) THEN UNCHANGED <<vrf_state, first_iteration_q, curr_demux_sel>> /\ unchangedIterations
     ELSE /\ first_iteration_q' = FALSE
          /\ IF last_iteration_q THEN Finish /\ unchangedDemux
             ELSE /\ CountDown(i, TRUE)
                  /\ vrf_state' = IF final(i) \/ i.gnt THEN "STORE_READ" ELSE "STORE_WAITGNT"
                  /\ curr_demux_sel' = IF lsu_offset_q # 0 /\ (IF final(i) THEN i.lsu_done ELSE i.gnt)
                                         THEN 1 - curr_demux_sel ELSE curr_demux_sel
  /\ unchangedSetup /\ UNCHANGED slide_first_write_q

VrfStoreWaitGnt(i) ==
  /\ vrf_state = "STORE_WAITGNT"
  /\ OnGrant(i, "STORE_READ")
  /\ unchangedIterations /\ unchangedSetup /\ unchangedFirst /\ unchangedDemux

Fsm(i) == \/ VrfIdle(i) \/ VrfStart(i)
          \/ VrfIntRead1(i) \/ VrfIntRead2(i) \/ VrfIntRead3(i) \/ VrfIntWrite(i)
          \/ VrfLoadSlide(i) \/ VrfRead(i) \/ VrfWrite(i)
          \/ VrfLoad(i) \/ VrfLoadWaitGnt(i) \/ VrfLoadWrite(i)
          \/ VrfStoreRead(i) \/ VrfStoreWaitLsu(i) \/ VrfStoreWaitGnt(i)

----------------------------------------------------------------------------
(* The operand and result registers.                                       *)

rs1_en(i) == i.rvalid /\ vrf_state = "INT_READ1" /\ ~last_iteration_q /\ "rs1" \in i.op.sel
rs2_en(i) == /\ i.rvalid
             /\ \/ vrf_state = "INT_READ1" /\ ~last_iteration_q /\ "rs1" \notin i.op.sel
                \/ vrf_state = "INT_READ2" /\ "rs1" \in i.op.sel
                \/ vrf_state = "LOAD_SLIDE"
                \/ vrf_state = "READ" /\ ~last_iteration_q
rs3_en(i) == /\ i.rvalid
             /\ \/ vrf_state = "INT_READ2" /\ "rs1" \notin i.op.sel
                \/ vrf_state \in {"INT_READ3", "STORE_READ"}
rd_en(i) == vrf_state = "LOAD" /\ i.lsu_done
slide_buffer_en(i) == rs2_en(i) /\ i.op.slide_op

(* Bytes kept from one source word for the next destination word.           *)
kept(i) == IF i.op.is_slide_up THEN slide_offset_q ELSE 4 - slide_offset_q

slide_rdata(i) ==
  [k \in WordLanes |-> IF slide_offset_q = 0 THEN i.rdata[k]
                       ELSE IF k < kept(i) THEN slide_buffer_q[k] ELSE i.rdata[k - kept(i)]]

slide_buffer_d(i, zero) ==
  IF slide_offset_q = 0 THEN slide_buffer_q
  ELSE [k \in 0 .. 2 |-> IF k < kept(i) THEN i.rdata[4 - kept(i) + k] ELSE zero]

(* While a write waits for its grant its data moves to a buffer: rd_q for a *)
(* result of the ALU, buffer_q for a loaded word or a stored operand.       *)
delayed(i) == delay_state = "none" /\ (write_delayed(i) \/ read_delayed(i))

M_DelayFsm(i) == delay_state' = "none"

DelayFsm(i) ==
  delay_state' = IF delayed(i) THEN IF write_delayed(i) THEN "write" ELSE "read"
                 ELSE IF delay_state = "write" /\ write_delayed(i) THEN "write"
                 ELSE IF delay_state = "read" /\ read_delayed(i) THEN "read" ELSE "none"

Operands(i, zero) ==
  /\ rs1_q' = IF rs1_en(i) THEN i.rdata ELSE rs1_q
  /\ rs2_q' = IF rs2_en(i) THEN IF i.op.slide_op THEN slide_rdata(i) ELSE i.rdata ELSE rs2_q
  /\ rs3_q' = IF rs3_en(i) /\ curr_demux_sel = 0 THEN i.rdata ELSE rs3_q
  /\ rs3_q_1' = IF rs3_en(i) /\ curr_demux_sel = 1 THEN i.rdata ELSE rs3_q_1
  /\ rd_q' = IF rd_en(i) \/ (delayed(i) /\ ~i.op.memory_op) THEN i.wdata ELSE rd_q
  /\ buffer_q' = IF delayed(i) /\ i.op.memory_op
                   THEN IF read_delayed(i) THEN store_operand(i) ELSE rd_q
                   ELSE buffer_q
  /\ slide_buffer_q' = IF slide_buffer_en(i) THEN slide_buffer_d(i, zero) ELSE slide_buffer_q

VrfCycle(i, zero) == Fsm(i) /\ DelayFsm(i) /\ Operands(i, zero)
=============================================================================
