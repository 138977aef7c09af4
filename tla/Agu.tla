---------------------------------- MODULE Agu ----------------------------------
(***************************************************************************)
(* cve2_agu: three word counters that walk through the vector registers an   *)
(* instruction names.  The vector registers lie in memory from address 0 on. *)
(* A counter is as wide as the eight registers a group may have, and the two *)
(* upper bits of the register number choose which eight.                     *)
(***************************************************************************)
EXTENDS Integers

CONSTANT RegWords    \* words per vector register

ASSUME RegWordsAssumption == RegWords \in Nat \ {0}

VARIABLES addr_q    \* addr_rs1_q, addr_rs2_q and addr_rd_q

Ports == {"rs1", "rs2", "rd"}
BankWords == 8 * RegWords
VrfBytes == 4 * 4 * BankWords

(* regs gives the register number of each port; the port of a write is rd.  *)
port(access) == IF access = "write" THEN "rd" ELSE access

slide_start_addr(regs, is_slide_up) == 4 * RegWords * regs[IF is_slide_up THEN "rd" ELSE "rs2"]

mem_if_addr(regs, access) ==
  4 * (BankWords * (regs[port(access)] \div 8) + addr_q[port(access)])

AguInit == addr_q = [p \in Ports |-> 0]

(* A slide starts in the middle of the register it reads or writes, at the   *)
(* word of byte address slide_addr.                                          *)
AguLoad(regs, slide_op, is_slide_up, slide_addr) ==
  addr_q' = [p \in Ports |->
               IF slide_op /\ p = (IF is_slide_up THEN "rd" ELSE "rs2")
                 THEN (slide_addr \div 4) % BankWords ELSE RegWords * (regs[p] % 8)]

AguIncr(access) == addr_q' = [addr_q EXCEPT ![port(access)] = (@ + 1) % BankWords]
=============================================================================
