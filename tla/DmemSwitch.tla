------------------------------- MODULE DmemSwitch -------------------------------
(***************************************************************************)
(* cve2_dmem_switch: gives the data port to the vector register file or to   *)
(* the load/store unit and routes the answers.  It remembers only whom it    *)
(* served last, so it takes an answer for that of the last request.          *)
(***************************************************************************)
VARIABLE prev_op_q    \* "VRF" or "LSU"

M_vrf_has_mem(vector_op, vector_mem_op, lsu_busy) == vector_op /\ ~vector_mem_op

vrf_has_mem(vector_op, vector_mem_op, lsu_busy) == vector_op /\ ~vector_mem_op /\ ~lsu_busy

vrf_rvalid(vector_op, rvalid) == prev_op_q = "VRF" /\ vector_op /\ rvalid
lsu_rvalid(vector_op, rvalid) == (prev_op_q = "LSU" \/ ~vector_op) /\ rvalid

SwitchInit == prev_op_q = "VRF"

M_SwitchCycle(vector_op, has_mem, lsu_resp_valid) ==
  prev_op_q' = IF vector_op /\ (prev_op_q = "LSU" \/ ~has_mem) THEN "LSU" ELSE "VRF"

SwitchCycle(vector_op, has_mem, lsu_resp_valid) ==
  prev_op_q' = IF ~vector_op THEN "VRF"
               ELSE IF prev_op_q = "LSU" /\ ~lsu_resp_valid THEN "LSU"
               ELSE IF has_mem THEN "VRF" ELSE "LSU"
=============================================================================
