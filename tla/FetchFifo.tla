------------------------------ MODULE FetchFifo ------------------------------
(***************************************************************************)
(* cve2_fetch_fifo: the DEPTH = NUM_REQS + 1 entries between the memory     *)
(* and the decoder.  Entries are 32-bit words, instructions start on any    *)
(* halfword, and a word that arrives while the FIFO is empty, or that is    *)
(* the second half of the instruction at the head, is passed through.       *)
(*                                                                         *)
(* Addresses count halfwords (bit 0 of every address is zero), modulo       *)
(* NumHalves.  A word carries where it was fetched from, and of its         *)
(* contents what the FIFO looks at: whether each half reads as a compressed *)
(* instruction, and the bus error.  A bit vector is the set of the          *)
(* positions of its ones.                                                   *)
(***************************************************************************)
EXTENDS Integers

CONSTANTS NUM_REQS,   \* requests the buffer may have outstanding (2 in the core)
          NumHalves   \* halfwords in the address space (2^31 in the core)

ASSUME NumReqsAssumption == NUM_REQS \in Nat \ {0}
ASSUME NumHalvesAssumption == NumHalves \in Nat \ {0} /\ NumHalves % 2 = 0

VARIABLES valid_q,       \* the set of valid entries
          rdata_q,       \* the word in each entry, with its err_q bit
          instr_addr_q   \* the address of the instruction at the output

fifoVars == <<valid_q, rdata_q, instr_addr_q>>

Entries == 0 .. NUM_REQS
Halves == 0 .. NumHalves - 1
WordAddr == {a \div 2 : a \in Halves}

(* fresh is a ghost: no branch was taken since this word was requested.    *)
Word == [addr : WordAddr, fresh : BOOLEAN,
         c0 : BOOLEAN, c1 : BOOLEAN, err : BOOLEAN]

(* What an entry holds that is not valid: nothing an output may depend on.  *)
NoWord == [addr |-> 0, fresh |-> FALSE, c0 |-> TRUE, c1 |-> TRUE, err |-> FALSE]

(* Half k (0 low, 1 high) of a word, as the decoder receives it.           *)
Half(w, k) == [at |-> 2 * w.addr + k, fresh |-> w.fresh,
               c |-> IF k = 0 THEN w.c0 ELSE w.c1, err |-> w.err]

FifoTypeOK == /\ valid_q \subseteq Entries
              /\ rdata_q \in [Entries -> Word]
              /\ instr_addr_q \in Halves

----------------------------------------------------------------------------
(* Output port.  inValid and inWord are the input port, in the same cycle. *)

Unaligned == instr_addr_q % 2 = 1

HeadWord(inWord) == IF 0 \in valid_q THEN rdata_q[0] ELSE inWord
NextWord(inWord) == IF 1 \in valid_q THEN rdata_q[1] ELSE inWord

unaligned_is_compressed(inWord) == HeadWord(inWord).c1 /\ ~HeadWord(inWord).err
aligned_is_compressed(inWord) == HeadWord(inWord).c0 /\ ~HeadWord(inWord).err

addr_incr_two(inWord) == IF Unaligned THEN unaligned_is_compressed(inWord)
                                      ELSE aligned_is_compressed(inWord)

out_valid_o(inValid, inWord) ==
  IF Unaligned /\ ~unaligned_is_compressed(inWord)
    THEN 1 \in valid_q \/ (0 \in valid_q /\ inValid)
    ELSE 0 \in valid_q \/ inValid

err_unaligned(inWord) ==
  IF 1 \in valid_q
    THEN rdata_q[0].err \/ (rdata_q[1].err /\ ~unaligned_is_compressed(inWord))
    ELSE \/ 0 \in valid_q /\ rdata_q[0].err
         \/ inWord.err /\ (0 \notin valid_q \/ ~unaligned_is_compressed(inWord))

err_plus2(inWord) ==
  IF 1 \in valid_q THEN rdata_q[1].err /\ ~rdata_q[0].err
                   ELSE inWord.err /\ 0 \in valid_q /\ ~rdata_q[0].err

out_err_o(inWord) == IF Unaligned THEN err_unaligned(inWord)
                                  ELSE HeadWord(inWord).err
out_err_plus2_o(inWord) == Unaligned /\ err_plus2(inWord)

out_rdata_o(inWord) ==
  IF Unaligned THEN <<Half(HeadWord(inWord), 1), Half(NextWord(inWord), 0)>>
               ELSE <<Half(HeadWord(inWord), 0), Half(HeadWord(inWord), 1)>>

----------------------------------------------------------------------------
(* The clock edge.  popping shifts every entry down by one, pushing fills   *)
(* the lowest free one, clear_i empties the FIFO whatever else happens.     *)

pop_fifo(inValid, inWord, ready) ==
  /\ ready /\ out_valid_o(inValid, inWord)
  /\ ~aligned_is_compressed(inWord) \/ Unaligned

lowest_free_entry == {i \in Entries : i \notin valid_q /\ (i = 0 \/ i - 1 \in valid_q)}

valid_pushed(inValid) == valid_q \cup (IF inValid THEN lowest_free_entry ELSE {})

valid_popped(inValid, pop) ==
  IF pop THEN {i \in Entries : i + 1 \in valid_pushed(inValid)}
         ELSE valid_pushed(inValid)

(* rdata_d under entry_en: the next entry or the input when shifting, the   *)
(* input in the lowest free entry, otherwise the entry keeps its word.      *)
rdata_d(inValid, inWord, pop) ==
  [i \in Entries |->
     IF \/ pop /\ i + 1 \in valid_pushed(inValid)
        \/ inValid /\ i \in lowest_free_entry /\ (~pop \/ i = NUM_REQS)
       THEN IF i + 1 \in valid_q THEN rdata_q[i + 1] ELSE inWord
       ELSE rdata_q[i]]

instr_addr_d(inWord, clear, inAddr) ==
  IF clear THEN inAddr
           ELSE (instr_addr_q + (IF addr_incr_two(inWord) THEN 1 ELSE 2)) % NumHalves

FifoInit == /\ valid_q = {}
            /\ rdata_q = [i \in Entries |-> NoWord]
            /\ instr_addr_q = 0

FifoCycle(inValid, inWord, ready, clear, inAddr) ==
  LET pop == pop_fifo(inValid, inWord, ready)
  IN  /\ valid_q' = IF clear THEN {} ELSE valid_popped(inValid, pop)
      /\ rdata_q' = [i \in Entries |-> IF i \in valid_q'
                                        THEN [rdata_d(inValid, inWord, pop)[i]
                                                EXCEPT !.fresh = @ /\ ~clear]
                                        ELSE NoWord]
      /\ instr_addr_q' = IF clear \/ (ready /\ out_valid_o(inValid, inWord))
                           THEN instr_addr_d(inWord, clear, inAddr)
                           ELSE instr_addr_q
=============================================================================
