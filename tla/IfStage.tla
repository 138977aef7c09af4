------------------------------- MODULE IfStage -------------------------------
(***************************************************************************)
(* cve2_if_stage on top of the prefetch buffer: the PMP verdicts on the     *)
(* fetched address and on the halfword after it, combined with the bus      *)
(* errors into the two fetch-error flops of the IF/ID register.             *)
(***************************************************************************)
EXTENDS PrefetchBuffer

CONSTANT Denied   \* words the PMP does not let the core execute (its granule is a word or more)

ASSUME DeniedAssumption == Denied \subseteq WordAddr

VARIABLES instr_fetch_err_o, instr_fetch_err_plus2_o

ifVars == <<vars, instr_fetch_err_o, instr_fetch_err_plus2_o>>

(* Bit 2 of a byte address is bit 1 of a halfword address.                  *)
addr_bit_2 == (instr_addr_q \div 2) % 2 = 1

pmp_err_if_i == instr_addr_q \div 2 \in Denied
pmp_err_if_plus2_i == ((instr_addr_q + 1) % NumHalves) \div 2 \in Denied

second_half_denied(w) == addr_bit_2 /\ ~out_rdata_o(w)[1].c /\ pmp_err_if_plus2_i

if_instr_err(w) == out_err_o(w) \/ pmp_err_if_i \/ second_half_denied(w)
M_if_instr_err_plus2(w) == second_half_denied(w) \/ out_err_plus2_o(w)

if_instr_err_plus2(w) == (second_half_denied(w) \/ out_err_plus2_o(w)) /\ ~pmp_err_if_i

IfInit == Init /\ instr_fetch_err_o = FALSE /\ instr_fetch_err_plus2_o = FALSE

(* The flops load with every instruction that leaves the buffer, also with  *)
(* one that a redirect squashes.                                            *)
IfCycle(i) ==
  LET w == InWord(i)
      load == out_valid_o(fifo_valid(i), w) /\ i.ready
  IN  /\ Cycle(i)
      /\ instr_fetch_err_o' = IF load THEN if_instr_err(w) ELSE instr_fetch_err_o
      /\ instr_fetch_err_plus2_o' = IF load THEN if_instr_err_plus2(w)
                                            ELSE instr_fetch_err_plus2_o

IfNext == \E i \in Input : IfCycle(i)

IfSpec == IfInit /\ [][IfNext]_ifVars

FairIfSpec == IfSpec /\ Fairness

----------------------------------------------------------------------------
TakenFrom(instr) == {instr.rdata[k].at \div 2 : k \in DOMAIN instr.rdata}

(* A fetch fault on an instruction handed to the decoder is put on a half    *)
(* that came back with a bus error or that the PMP denies, and on the second *)
(* only if the PMP lets the first through.  (Both halves may be at fault:    *)
(* with a bus error in the first, a denied second half takes the blame.)     *)
FetchFaultsAreReal ==
  out.kind = "instr" /\ instr_fetch_err_o =>
    LET r == out.rdata
        blamed == IF instr_fetch_err_plus2_o THEN 2 ELSE 1
    IN  /\ blamed \in DOMAIN r
        /\ r[blamed].err \/ r[blamed].at \div 2 \in Denied
        /\ instr_fetch_err_plus2_o => out.addr \div 2 \notin Denied

(* "An error can come from the instruction address, or the next instruction *)
(* address for unaligned, uncompressed instructions": an instruction with a *)
(* word the PMP denies does not reach the decoder as a good one.            *)
DeniedNeverExecutes ==
  out.kind = "instr" /\ TakenFrom(out) \cap Denied # {} => instr_fetch_err_o
=============================================================================
