----------------------------- MODULE LoadStoreUnit -----------------------------
(***************************************************************************)
(* cve2_load_store_unit: the registers and the logic of one load/store      *)
(* unit, with no environment.  It splits a misaligned access into two word  *)
(* accesses and answers once for both.  A memory word is a function from    *)
(* the byte lanes to byte values, a byte enable the set of enabled lanes.   *)
(* The inputs of a clock cycle are a record i:                              *)
(*   lsu_req, lsu_we, lsu_type, lsu_sign_ext, lsu_wdata, vec_be             *)
(*                     the access                                           *)
(*   addr              adder_result_ex_i                                    *)
(*   gnt, rvalid, err, rdata, pmp_err                                       *)
(*                     the data_*_i inputs                                  *)
(***************************************************************************)
EXTENDS Integers, FiniteSets

CONSTANT NumBytes    \* size of the address space, for 2^32

ASSUME NumBytesAssumption == NumBytes \in Nat \ {0} /\ NumBytes % 4 = 0

VARIABLES ls_fsm_cs,            \* state of the FSM
          handle_misaligned_q,  \* in the second half of a misaligned access
          pmp_err_q, lsu_err_q, \* PMP error of this half, any error of the first
          rdata_q,              \* upper three bytes of the first half of a load
          ctrl_q,               \* rdata_offset_q, data_type_q, data_sign_ext_q, data_we_q
          addr_last_q           \* address of the access, for mtval and the adder

lsuVars == <<ls_fsm_cs, handle_misaligned_q, pmp_err_q, lsu_err_q, rdata_q, ctrl_q, addr_last_q>>

Addr == 0 .. NumBytes - 1
Lanes == 0 .. 3
Types == {"word", "half", "byte"}
LsuStates == {"IDLE", "WAIT_GNT_MIS", "WAIT_RVALID_MIS", "WAIT_GNT", "WAIT_RVALID_MIS_GNTS_DONE"}

w_aligned(a) == a - (a % 4)
data_offset(i) == i.addr % 4

----------------------------------------------------------------------------
(* Combinational logic.  Definitions named M_... are faults put in the      *)
(* place of the definition they precede to see which property notices.      *)

(* A word access of the vector unit moves the bytes below a byte enable     *)
(* that is a prefix of the word; any other enable counts as all four.       *)
access_bytes(i) == CASE i.lsu_type = "byte" -> 1
                     [] i.lsu_type = "half" -> 2
                     [] OTHER -> IF \E n \in 0 .. 3 : i.vec_be = 0 .. n - 1
                                 THEN Cardinality(i.vec_be) ELSE 4

M_data_be_unclipped(i) == IF handle_misaligned_q
                            THEN 0 .. data_offset(i) + access_bytes(i) - 5
                            ELSE data_offset(i) .. data_offset(i) + access_bytes(i) - 1

M_data_be_one_more(i) == IF handle_misaligned_q
                           THEN 0 .. data_offset(i) + access_bytes(i) - 4
                           ELSE (data_offset(i) .. data_offset(i) + access_bytes(i) - 1) \cap Lanes

data_be(i) ==
  CASE i.lsu_type = "word" /\ data_offset(i) = 0 ->
         IF handle_misaligned_q THEN {} ELSE i.vec_be
    [] i.lsu_type = "half" /\ handle_misaligned_q -> {0}
    [] i.lsu_type = "word" /\ handle_misaligned_q ->
         0 .. data_offset(i) + access_bytes(i) - 5
    [] OTHER -> (data_offset(i) .. data_offset(i) + access_bytes(i) - 1) \cap Lanes

(* The write data rotated to the lanes of the offset.                       *)
data_wdata(i) == [k \in Lanes |-> i.lsu_wdata[(k - data_offset(i)) % 4]]

split_misaligned_access(i) == \/ i.lsu_type = "word" /\ data_offset(i) # 0
                              \/ i.lsu_type = "half" /\ data_offset(i) = 3

data_req_o(i) == \/ ls_fsm_cs = "IDLE" /\ i.lsu_req
                 \/ ls_fsm_cs \in {"WAIT_GNT_MIS", "WAIT_RVALID_MIS", "WAIT_GNT"}

M_addr_incr_req_o == ls_fsm_cs \in {"WAIT_RVALID_MIS", "WAIT_RVALID_MIS_GNTS_DONE"}

(* The adder is to give the last address plus 4.                            *)
addr_incr_req_o == \/ ls_fsm_cs \in {"WAIT_RVALID_MIS", "WAIT_RVALID_MIS_GNTS_DONE"}
                   \/ ls_fsm_cs = "WAIT_GNT" /\ handle_misaligned_q

M_addr_last_d(i) == i.addr

addr_last_d(i) == IF addr_incr_req_o THEN w_aligned(i.addr) ELSE i.addr

M_rdata_byte(i, k) ==
  LET at == ctrl_q.offset + k
  IN  IF ctrl_q.type = "word" /\ ctrl_q.offset # 0 /\ at < 4
        THEN rdata_q[at] ELSE i.rdata[at % 4]

(* Byte k of the loaded word, half or byte: from the saved bytes of the     *)
(* first half where it lies in the first word of a misaligned access.       *)
rdata_byte(i, k) ==
  LET at == ctrl_q.offset + k
      split == \/ ctrl_q.type = "word" /\ ctrl_q.offset # 0
               \/ ctrl_q.type = "half" /\ ctrl_q.offset = 3
  IN  IF split /\ at < 4 THEN rdata_q[at] ELSE i.rdata[at % 4]

(* What a register takes of a load: its bytes and what fills the others.    *)
lsu_rdata_o(i) ==
  [bytes |-> CASE ctrl_q.type = "word" -> [k \in 0 .. 3 |-> rdata_byte(i, k)]
               [] ctrl_q.type = "half" -> [k \in 0 .. 1 |-> rdata_byte(i, k)]
               [] OTHER -> [k \in 0 .. 0 |-> rdata_byte(i, k)],
   ext |-> IF ctrl_q.type = "word" THEN "none"
           ELSE IF ctrl_q.sign_ext THEN "sign" ELSE "zero"]

data_or_pmp_err(i) == lsu_err_q \/ i.err \/ pmp_err_q

M_lsu_resp_valid_o(i) == i.rvalid \/ pmp_err_q

lsu_resp_valid_o(i) == (i.rvalid \/ pmp_err_q) /\ ls_fsm_cs = "IDLE"

lsu_rdata_valid_o(i) == ls_fsm_cs = "IDLE" /\ i.rvalid /\ ~data_or_pmp_err(i) /\ ~ctrl_q.we

load_err_o(i) == data_or_pmp_err(i) /\ ~ctrl_q.we /\ lsu_resp_valid_o(i)
store_err_o(i) == data_or_pmp_err(i) /\ ctrl_q.we /\ lsu_resp_valid_o(i)

busy_o == ls_fsm_cs # "IDLE"

----------------------------------------------------------------------------
LsuInit(zero) ==
           /\ ls_fsm_cs = "IDLE"
           /\ handle_misaligned_q = FALSE /\ pmp_err_q = FALSE /\ lsu_err_q = FALSE
           /\ rdata_q = [k \in 1 .. 3 |-> zero]
           /\ ctrl_q = [offset |-> 0, type |-> "word", sign_ext |-> FALSE, we |-> FALSE]
           /\ addr_last_q = 0

(* The registers behind addr_update, ctrl_update and rdata_update.          *)
Latch(i, addr_update, ctrl_update, rdata_update) ==
  /\ addr_last_q' = IF addr_update THEN addr_last_d(i) ELSE addr_last_q
  /\ ctrl_q' = IF ctrl_update
                 THEN [offset |-> data_offset(i), type |-> i.lsu_type,
                       sign_ext |-> i.lsu_sign_ext, we |-> i.lsu_we]
                 ELSE ctrl_q
  /\ rdata_q' = IF rdata_update THEN [k \in 1 .. 3 |-> i.rdata[k]] ELSE rdata_q

IdleNoRequest(i) ==
  /\ ls_fsm_cs = "IDLE" /\ ~i.lsu_req
  /\ pmp_err_q' = FALSE
  /\ Latch(i, FALSE, FALSE, FALSE)
  /\ UNCHANGED <<ls_fsm_cs, handle_misaligned_q, lsu_err_q>>

IdleRequest(i) ==
  /\ ls_fsm_cs = "IDLE" /\ i.lsu_req
  /\ pmp_err_q' = i.pmp_err
  /\ lsu_err_q' = FALSE
  /\ Latch(i, i.gnt, i.gnt, FALSE)
  /\ handle_misaligned_q' = IF i.gnt THEN split_misaligned_access(i) ELSE handle_misaligned_q
  /\ ls_fsm_cs' = IF i.gnt
                    THEN IF split_misaligned_access(i) THEN "WAIT_RVALID_MIS" ELSE "IDLE"
                    ELSE IF split_misaligned_access(i) THEN "WAIT_GNT_MIS" ELSE "WAIT_GNT"

WaitGntMis(i) ==
  /\ ls_fsm_cs = "WAIT_GNT_MIS"
  /\ LET go == i.gnt \/ pmp_err_q
     IN  /\ Latch(i, go, go, FALSE)
         /\ handle_misaligned_q' = (handle_misaligned_q \/ go)
         /\ ls_fsm_cs' = IF go THEN "WAIT_RVALID_MIS" ELSE ls_fsm_cs
  /\ UNCHANGED <<pmp_err_q, lsu_err_q>>

M_first_half_answered(i) == i.rvalid

first_half_answered(i) == i.rvalid \/ pmp_err_q

M_first_half_err(i) == i.err

(* The error the first half of a misaligned access leaves for the response. *)
first_half_err(i) == i.err \/ pmp_err_q

(* The second request is out while the first half is not answered.          *)
WaitRvalidMis(i) ==
  /\ ls_fsm_cs = "WAIT_RVALID_MIS"
  /\ IF first_half_answered(i)
       THEN /\ pmp_err_q' = i.pmp_err
            /\ lsu_err_q' = first_half_err(i)
            /\ Latch(i, i.gnt /\ ~first_half_err(i), FALSE, ~ctrl_q.we)
            /\ ls_fsm_cs' = IF i.gnt THEN "IDLE" ELSE "WAIT_GNT"
       ELSE /\ Latch(i, FALSE, FALSE, FALSE)
            /\ ls_fsm_cs' = IF i.gnt THEN "WAIT_RVALID_MIS_GNTS_DONE" ELSE ls_fsm_cs
            /\ UNCHANGED <<pmp_err_q, lsu_err_q>>
  /\ handle_misaligned_q' = IF first_half_answered(i) THEN ~i.gnt
                            ELSE handle_misaligned_q /\ ~i.gnt

WaitGnt(i) ==
  /\ ls_fsm_cs = "WAIT_GNT"
  /\ LET go == i.gnt \/ pmp_err_q
     IN  /\ Latch(i, go /\ ~lsu_err_q, go, FALSE)
         /\ handle_misaligned_q' = (handle_misaligned_q /\ ~go)
         /\ ls_fsm_cs' = IF go THEN "IDLE" ELSE ls_fsm_cs
  /\ UNCHANGED <<pmp_err_q, lsu_err_q>>

(* Both halves granted, the first not answered.                             *)
WaitRvalidMisGntsDone(i) ==
  /\ ls_fsm_cs = "WAIT_RVALID_MIS_GNTS_DONE"
  /\ IF i.rvalid
       THEN /\ pmp_err_q' = i.pmp_err
            /\ lsu_err_q' = i.err
            /\ Latch(i, ~i.err, FALSE, ~ctrl_q.we)
            /\ ls_fsm_cs' = "IDLE"
       ELSE /\ Latch(i, FALSE, FALSE, FALSE)
            /\ UNCHANGED <<pmp_err_q, lsu_err_q, ls_fsm_cs>>
  /\ UNCHANGED handle_misaligned_q

LsuCycle(i) == \/ IdleNoRequest(i) \/ IdleRequest(i) \/ WaitGntMis(i)
               \/ WaitRvalidMis(i) \/ WaitGnt(i) \/ WaitRvalidMisGntsDone(i)

(* Types of the registers; bytes are drawn from Byte.                       *)
LsuTypeOK(Byte) ==
  /\ ls_fsm_cs \in LsuStates
  /\ handle_misaligned_q \in BOOLEAN /\ pmp_err_q \in BOOLEAN /\ lsu_err_q \in BOOLEAN
  /\ rdata_q \in [1 .. 3 -> Byte]
  /\ ctrl_q \in [offset : Lanes, type : Types, sign_ext : BOOLEAN, we : BOOLEAN]
  /\ addr_last_q \in Addr
=============================================================================
