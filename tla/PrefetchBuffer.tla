---------------------------- MODULE PrefetchBuffer ----------------------------
(***************************************************************************)
(* cve2_prefetch_buffer with its fetch FIFO, the instruction bus it drives  *)
(* and the pipeline register of cve2_if_stage that takes its output.  One   *)
(* step of Next is one rising clock edge; the inputs of the cycle that ends *)
(* there are a record i:                                                    *)
(*   branch, target   a redirect (pc_set_i) and its address                 *)
(*   ready            id_in_ready_i: the decoder takes an instruction       *)
(*   gnt              instr_gnt_i                                           *)
(*   rvalid, kind     instr_rvalid_i; what is on the data lines, rvalid or  *)
(*                    not                                                   *)
(* req_i, the controller's fetch enable, is a variable so that a property   *)
(* can speak of a core that has stopped fetching.                           *)
(***************************************************************************)
EXTENDS FetchFifo, Sequences

CONSTANT Kinds   \* what a fetched word can hold: a set of [c0, c1, err]

ASSUME KindsAssumption == Kinds # {} /\ Kinds \subseteq [c0 : BOOLEAN, c1 : BOOLEAN, err : BOOLEAN]

VARIABLES valid_req_q, discard_req_q, rdata_outstanding_q, branch_discard_q,
          stored_addr_q, fetch_addr_q,
          req_i,     \* fetch enable in the coming cycle
          bus,       \* granted requests the memory has yet to answer, oldest first
          offered,   \* ghost: the request left ungranted on the bus, if any
          out        \* what the last clock edge did to the instruction stream

vars == <<fifoVars, valid_req_q, discard_req_q, rdata_outstanding_q, branch_discard_q,
          stored_addr_q, fetch_addr_q, req_i, bus, offered, out>>

Reqs == 0 .. NUM_REQS - 1
Request == [addr : WordAddr, fresh : BOOLEAN]
NoRequest == [none |-> TRUE]
Idle == [kind |-> "idle"]
Redirected(a) == [kind |-> "redirect", to |-> a]
HalfWord == [at : Halves, fresh : BOOLEAN, c : BOOLEAN, err : BOOLEAN]
Instruction == [kind : {"instr"}, addr : Halves, err : BOOLEAN, plus2 : BOOLEAN,
                rdata : {<<h>> : h \in HalfWord} \cup (HalfWord \X HalfWord)]

(* addr_i is looked at only under branch_i.                                *)
Input == [branch : {FALSE}, target : {0}, ready : BOOLEAN, gnt : BOOLEAN,
          rvalid : BOOLEAN, kind : Kinds]
         \cup [branch : {TRUE}, target : Halves, ready : BOOLEAN, gnt : BOOLEAN,
               rvalid : BOOLEAN, kind : Kinds]

----------------------------------------------------------------------------
(* Combinational logic.                                                    *)

(* Definitions named M_... are faults put in the place of the definition     *)
(* they precede to see which property notices.                              *)

M_fifo_ready == ~ \A i \in Reqs : i + 1 \in valid_q

(* One entry stays free for each outstanding request: entry i + 1 of the    *)
(* FIFO is spoken for when it is full or when NUM_REQS - i are outstanding. *)
fifo_ready == ~ \A i \in Reqs : \/ i + 1 \in valid_q
                                \/ NUM_REQS - 1 - i \in rdata_outstanding_q

valid_new_req(i) == /\ req_i
                    /\ fifo_ready \/ i.branch
                    /\ NUM_REQS - 1 \notin rdata_outstanding_q

valid_req(i) == valid_req_q \/ valid_new_req(i)

granted(i) == valid_req(i) /\ i.gnt

M_discard_req_d_forgets(i) == valid_req_q /\ i.branch

M_discard_req_d_sticks(i) == i.branch \/ discard_req_q

discard_req_d(i) == valid_req_q /\ (i.branch \/ discard_req_q)

M_instr_addr(i) == IF i.branch THEN i.target
                   ELSE IF valid_req_q THEN stored_addr_q ELSE fetch_addr_q

instr_addr(i) == IF valid_req_q THEN stored_addr_q
                 ELSE IF i.branch THEN i.target ELSE fetch_addr_q

M_fetch_addr_d(i) ==
  (IF i.branch THEN i.target ELSE 2 * (fetch_addr_q \div 2))
    + (IF valid_new_req(i) /\ ~valid_req_q THEN 2 ELSE 0)

fetch_addr_d(i) ==
  LET base == IF i.branch THEN i.target ELSE 2 * (fetch_addr_q \div 2)
  IN  (base + (IF valid_new_req(i) /\ ~valid_req_q THEN 2 ELSE 0)) % NumHalves

(* The entry a granted request takes: the lowest free one, and entry 0.     *)
entry_taken(i) == {k \in Reqs : granted(i) /\ (k = 0 \/ k - 1 \in rdata_outstanding_q)}

rdata_outstanding_n(i) == rdata_outstanding_q \cup entry_taken(i)

branch_discard_n(i) == branch_discard_q
                         \cup (IF discard_req_d(i) THEN entry_taken(i) ELSE {})
                         \cup (IF i.branch THEN rdata_outstanding_q ELSE {})

M_shift(i, entries) ==
  IF i.rvalid /\ ~i.branch THEN {k \in Reqs : k + 1 \in entries} ELSE entries

shift(i, entries) == IF i.rvalid THEN {k \in Reqs : k + 1 \in entries} ELSE entries

M_fifo_valid(i) == i.rvalid

fifo_valid(i) == i.rvalid /\ 0 \notin branch_discard_q

(* The word on the data lines: the answer to the oldest request, or noise.  *)
InWord(i) == [addr |-> IF bus = <<>> THEN 0 ELSE Head(bus).addr,
              fresh |-> i.rvalid /\ Head(bus).fresh,
              c0 |-> i.kind.c0, c1 |-> i.kind.c1, err |-> i.kind.err]

busy_o(i) == rdata_outstanding_q # {} \/ valid_req(i)

(* What the IF/ID pipeline register takes.  The decoder looks at the second *)
(* half only when the first does not read as a compressed instruction.      *)
TakenInstruction(w) ==
  LET r == out_rdata_o(w)
  IN  [kind |-> "instr", addr |-> instr_addr_q,
       rdata |-> IF r[1].c /\ ~out_err_o(w) THEN <<r[1]>> ELSE r,
       err |-> out_err_o(w), plus2 |-> out_err_plus2_o(w)]

----------------------------------------------------------------------------
Init == /\ FifoInit
        /\ valid_req_q = FALSE /\ discard_req_q = FALSE
        /\ rdata_outstanding_q = {} /\ branch_discard_q = {}
        /\ stored_addr_q = 0 /\ fetch_addr_q = 0
        /\ req_i = FALSE
        /\ bus = <<>> /\ offered = NoRequest
        /\ out = Idle

Registers(i) ==
  /\ valid_req_q' = (valid_req(i) /\ ~i.gnt)
  /\ discard_req_q' = discard_req_d(i)
  /\ rdata_outstanding_q' = shift(i, rdata_outstanding_n(i))
  /\ branch_discard_q' = shift(i, branch_discard_n(i))
  /\ stored_addr_q' = IF valid_new_req(i) /\ ~valid_req_q /\ ~i.gnt
                        THEN instr_addr(i) ELSE stored_addr_q
  /\ fetch_addr_q' = IF i.branch \/ (valid_new_req(i) /\ ~valid_req_q)
                       THEN fetch_addr_d(i) ELSE fetch_addr_q

(* The memory answers requests in the order it granted them, each at least  *)
(* one cycle after its grant.  A branch makes everything requested before   *)
(* it stale.                                                                *)
request(i) == [addr |-> instr_addr(i) \div 2,
               fresh |-> (valid_req_q => offered.fresh /\ ~i.branch)]

unanswered(i) == IF i.rvalid THEN Tail(bus) ELSE bus

aged(i) == [k \in DOMAIN unanswered(i) |->
              [unanswered(i)[k] EXCEPT !.fresh = @ /\ ~i.branch]]

Bus(i) == /\ i.rvalid => bus # <<>>
          /\ bus' = aged(i) \o (IF granted(i) THEN <<request(i)>> ELSE <<>>)
          /\ offered' = IF valid_req(i) /\ ~i.gnt THEN request(i) ELSE NoRequest

(* instr_valid_id_d: a redirect squashes the instruction of its cycle.      *)
Stream(i) ==
  out' = IF i.branch THEN Redirected(i.target)
         ELSE IF i.ready /\ out_valid_o(fifo_valid(i), InWord(i))
           THEN TakenInstruction(InWord(i))
           ELSE Idle

Cycle(i) == /\ Bus(i)
            /\ Registers(i)
            /\ FifoCycle(fifo_valid(i), InWord(i), i.ready, i.branch, i.target)
            /\ Stream(i)
            /\ req_i' \in BOOLEAN

Next == \E i \in Input : Cycle(i)

Spec == Init /\ [][Next]_vars

(* The bus grants a request that stays, and answers what it granted; the    *)
(* decoder is ready again and again (an instruction finishes).              *)
Grant == \E i \in Input : granted(i) /\ Cycle(i)
Answer == \E i \in Input : i.rvalid /\ Cycle(i)
Take == \E i \in Input : i.ready /\ ~i.branch /\ Cycle(i)
                         /\ out_valid_o(fifo_valid(i), InWord(i))

Fairness == WF_vars(Next) /\ SF_vars(Grant) /\ SF_vars(Answer) /\ SF_vars(Take)

FairSpec == Spec /\ Fairness

----------------------------------------------------------------------------
(* Every register of the buffer, the bus queue and the history hold values  *)
(* of their kind.                                                           *)
TypeOK == /\ FifoTypeOK
          /\ valid_req_q \in BOOLEAN /\ discard_req_q \in BOOLEAN
          /\ rdata_outstanding_q \subseteq Reqs /\ branch_discard_q \subseteq Reqs
          /\ stored_addr_q \in Halves /\ fetch_addr_q \in Halves
          /\ req_i \in BOOLEAN
          /\ bus \in Seq(Request)
          /\ offered \in Request \cup {NoRequest}
          /\ out \in Instruction \cup {Idle} \cup {Redirected(a) : a \in Halves}

(* cve2_fetch_fifo's assertion of the same name: whenever the memory may    *)
(* answer a request that is not discarded, the top entry is free.  fifo_ready *)
(* has to reserve room for every request it lets out, several cycles ahead. *)
CVE2FetchFifoPushFull == bus # <<>> /\ 0 \notin branch_discard_q => NUM_REQS \notin valid_q

(* The buffer's two bit vectors mirror the bus: one outstanding bit per     *)
(* unanswered request, oldest at 0, and a discard bit on exactly those      *)
(* requested before the last branch.  One bit too many loses an instruction *)
(* of the new path, one too few executes an instruction of the old one.     *)
DiscardsWhatIsStale ==
  /\ rdata_outstanding_q = {k \in Reqs : k < Len(bus)}
  /\ branch_discard_q \cap rdata_outstanding_q = {k \in Reqs : k < Len(bus) /\ ~bus[k + 1].fresh}

(* "Request valid, must stay high until instr_gnt_i", at a stable address:  *)
(* a request left ungranted is on the bus again in the next cycle, whatever *)
(* branches and fetch-enable changes come.                                  *)
RequestHeld == offered # NoRequest =>
                 \A i \in Input : valid_req(i) /\ instr_addr(i) \div 2 = offered.addr

(* Instruction fetch implements the stream of instructions in program order *)
(* that the decoder relies on.                                              *)
Stream_ == INSTANCE InstructionStream WITH pc <- instr_addr_q
ImplementsStream == Stream_!Spec

(* While the controller keeps fetching enabled and redirects only finitely  *)
(* often, the decoder gets instructions for ever: no combination of grants, *)
(* answers, errors and discards leaves the buffer stuck.                    *)
KeepsDelivering ==
  <>[](req_i /\ out.kind # "redirect") => []<>(out.kind = "instr")

(* A core that stops fetching (WAIT_SLEEP) sees busy_o fall for good, so    *)
(* that its clock can be gated.                                             *)
Drains == <>[]~req_i => <>[](\A i \in Input : ~busy_o(i))
=============================================================================
