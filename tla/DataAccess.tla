------------------------------- MODULE DataAccess -------------------------------
(***************************************************************************)
(* Scalar loads and stores: the load/store unit with the decode stage that  *)
(* asks it for an access and waits for the answer, the PMP verdicts that     *)
(* block a request, and the data bus.  One step of Next is one clock edge;   *)
(* the inputs of the cycle are gnt, rvalid and err.                          *)
(* Byte values are abstract: the byte of memory at address a is a, byte k of *)
(* the stored operand is k, and Noise is anything that should not be used.   *)
(***************************************************************************)
EXTENDS LoadStoreUnit, Sequences

CONSTANT Addresses    \* the addresses the program accesses

ASSUME AddressesAssumption == Addresses \subseteq Addr

(* The words of a misaligned access are two.                                *)
ASSUME TwoWordsAssumption == NumBytes > 4

VARIABLES access,    \* the load or store in the ID stage
          bus,       \* granted requests the memory has yet to answer, oldest first
          request,   \* ghost: the request of the last cycle, and whether it was granted
          written,   \* ghost: <<address, operand byte>> pairs the access has written
          failed,    \* ghost: words of the access denied by the PMP or failed on the bus
          response   \* what the last clock edge took from the unit

vars == <<lsuVars, access, bus, request, written, failed, response>>

Noise == -1
Byte == Addr \cup {Noise}
Word(a) == w_aligned(a % NumBytes)

NoAccess == [none |-> TRUE]
NoRequest == [none |-> TRUE]
NoResponse == [none |-> TRUE]
Stray == [stray |-> TRUE]   \* an answer nobody waits for

Size(type) == CASE type = "word" -> 4 [] type = "half" -> 2 [] OTHER -> 1
BytesOf(a) == {(a.addr + k) % NumBytes : k \in 0 .. Size(a.type) - 1}
WordsOf(a) == {Word(b) : b \in BytesOf(a)}

(* denied holds the words the PMP keeps from the access.                    *)
Access == {a \in [we : BOOLEAN, type : Types, sign_ext : BOOLEAN, addr : Addresses,
                  denied : SUBSET {Word(b) : b \in Addr}] :
             a.denied \subseteq WordsOf(a) /\ (a.we => ~a.sign_ext)}

(* An access is asked for in the first cycle of its instruction, and its    *)
(* operands stay put until the instruction leaves.                          *)
Fresh(a) == [a |-> a, first |-> TRUE]
current == access # NoAccess
the == IF current THEN access.a
       ELSE [we |-> FALSE, type |-> "word", sign_ext |-> FALSE, addr |-> 0, denied |-> {}]

adder_result == IF addr_incr_req_o THEN (addr_last_q + 4) % NumBytes ELSE the.addr

Input(gnt, rvalid, err) ==
  [lsu_req |-> current /\ access.first, lsu_we |-> the.we, lsu_type |-> the.type,
   lsu_sign_ext |-> the.sign_ext, lsu_wdata |-> [k \in Lanes |-> k], vec_be |-> Lanes,
   addr |-> adder_result, gnt |-> gnt, rvalid |-> rvalid, err |-> err,
   rdata |-> IF rvalid /\ bus # <<>> /\ ~err /\ ~Head(bus).we
               THEN [k \in Lanes |-> Head(bus).word + k] ELSE [k \in Lanes |-> Noise],
   pmp_err |-> Word(adder_result) \in the.denied]

(* data_req_o of the core: a denied request does not leave it.              *)
core_data_req(i) == data_req_o(i) /\ ~i.pmp_err

Requested(i) == [word |-> Word(i.addr), we |-> i.lsu_we, be |-> data_be(i),
                 wdata |-> IF i.lsu_we THEN data_wdata(i) ELSE [k \in Lanes |-> Noise]]

----------------------------------------------------------------------------
Init == /\ LsuInit(Noise)
        /\ access = NoAccess /\ bus = <<>>
        /\ request = NoRequest /\ written = {} /\ failed = {}
        /\ response = NoResponse

(* The memory answers in order, at least one cycle after the grant, and     *)
(* writes only what it does not refuse.                                     *)
Bus(i) ==
  LET rest == IF i.rvalid THEN Tail(bus) ELSE bus
  IN  /\ i.rvalid => bus # <<>>
      /\ i.err => i.rvalid
      /\ bus' = IF core_data_req(i) /\ i.gnt THEN Append(rest, Requested(i)) ELSE rest
      /\ request' = IF core_data_req(i) THEN [r |-> Requested(i), granted |-> i.gnt] ELSE NoRequest

(* What has become of the access by the end of the cycle.                   *)
written_by(i) ==
  IF i.rvalid /\ ~i.err /\ Head(bus).we
    THEN written \cup {<<Head(bus).word + k, Head(bus).wdata[k]>> : k \in Head(bus).be}
    ELSE written

failed_by(i) == failed \cup (IF i.err THEN {Head(bus).word} ELSE {})
                       \cup (IF data_req_o(i) /\ i.pmp_err THEN {Word(i.addr)} ELSE {})

(* The instruction leaves on an answer after its first cycle (stall_mem).   *)
answered(i) == current /\ ~access.first /\ lsu_resp_valid_o(i)

(* The next instruction may be another access, but not after a fault.       *)
NextAccess(i) == IF load_err_o(i) \/ store_err_o(i) THEN {NoAccess}
                 ELSE {NoAccess} \cup {Fresh(a) : a \in Access}

Wait(i) ==
  /\ current /\ ~answered(i)
  /\ access' = [access EXCEPT !.first = FALSE]
  /\ written' = written_by(i) /\ failed' = failed_by(i)
  /\ response' = IF lsu_resp_valid_o(i) THEN Stray ELSE NoResponse

Answer(i) ==
  /\ answered(i)
  /\ access' \in NextAccess(i)
  /\ written' = {} /\ failed' = {}
  /\ response' = [to |-> access.a, load_err |-> load_err_o(i), store_err |-> store_err_o(i),
                  rf_we |-> lsu_rdata_valid_o(i), rdata |-> lsu_rdata_o(i),
                  written |-> written_by(i), failed |-> failed_by(i)]

(* No load or store in the stage.                                           *)
Elsewhere(i) ==
  /\ ~current
  /\ access' \in {NoAccess} \cup {Fresh(a) : a \in Access}
  /\ written' = written_by(i) /\ failed' = failed_by(i)
  /\ response' = IF lsu_resp_valid_o(i) THEN Stray ELSE NoResponse

(* The quantifier over one value stands for the wires of the cycle.         *)
Cycle(gnt, rvalid, err) ==
  \E i \in {Input(gnt, rvalid, err)} :
    Bus(i) /\ LsuCycle(i) /\ (Wait(i) \/ Answer(i) \/ Elsewhere(i))

Next == \E gnt, rvalid, err \in BOOLEAN : Cycle(gnt, rvalid, err)

Spec == Init /\ [][Next]_vars

(* The memory keeps granting and keeps answering.                           *)
Granting == \E rvalid, err \in BOOLEAN : Cycle(TRUE, rvalid, err)
Answering == \E gnt, err \in BOOLEAN : Cycle(gnt, TRUE, err)

FairSpec == Spec /\ WF_vars(Next) /\ WF_vars(Granting) /\ WF_vars(Answering)

----------------------------------------------------------------------------
(* Every register and every history variable holds what it is meant to.     *)
TypeOK ==
  /\ LsuTypeOK(Byte)
  /\ access \in {NoAccess} \cup [a : Access, first : BOOLEAN]
  /\ \A k \in DOMAIN bus : bus[k].word \in Addr /\ bus[k].be \subseteq Lanes
  /\ Len(bus) <= 2
  /\ written \subseteq Addr \X Lanes
  /\ failed \subseteq Addr

(* A load that reports no error writes its register once, with the bytes at *)
(* its address in order, also when they come from two words                 *)
(* (rdata_q and the realignment of cve2_load_store_unit).                   *)
LoadsReadTheirBytes ==
  LET r == response
  IN  (r \notin {NoResponse, Stray} /\ ~r.load_err /\ ~r.to.we) =>
        /\ r.rf_we
        /\ r.rdata.bytes = [k \in 0 .. Size(r.to.type) - 1 |-> (r.to.addr + k) % NumBytes]
        /\ r.rdata.ext = (IF r.to.type = "word" THEN "none"
                          ELSE IF r.to.sign_ext THEN "sign" ELSE "zero")

(* A store that reports no error has put each byte of its operand at its    *)
(* own address and has written nothing else; a load writes nothing and a    *)
(* faulting store nothing beyond its bytes (byte enables, rotation).        *)
StoresWriteTheirBytes ==
  LET r == response
      asked == {<<(r.to.addr + k) % NumBytes, k>> : k \in 0 .. Size(r.to.type) - 1}
  IN  r \notin {NoResponse, Stray} =>
        /\ r.written \subseteq (IF r.to.we THEN asked ELSE {})
        /\ (r.to.we /\ ~r.store_err) => r.written = asked

(* An access reports an error exactly when the bus failed or the PMP denied *)
(* one of its halves, as a load or a store error after its kind, and a load *)
(* in error writes no register.                                             *)
FaultsAreReported ==
  LET r == response
  IN  r \notin {NoResponse, Stray} =>
        /\ r.load_err = (r.failed # {} /\ ~r.to.we)
        /\ r.store_err = (r.failed # {} /\ r.to.we)
        /\ r.load_err => ~r.rf_we

(* addr_last_o, which becomes mtval, is the address of the access if its    *)
(* first word failed, else the second word                                  *)
(* ("mtval needs the (first) failing address").                             *)
FirstFailingAddress ==
  LET r == response
  IN  (r \notin {NoResponse, Stray} /\ r.failed # {}) =>
        addr_last_q = IF Word(r.to.addr) \in r.failed THEN r.to.addr
                      ELSE Word(r.to.addr + 4)

(* The unit answers once for both halves, after the last answer of the bus: *)
(* no answer is left over to be taken for that of a later access.           *)
OneAnswerPerAccess ==
  /\ response # Stray
  /\ response # NoResponse => bus = <<>>

(* A request that is not granted stays on the bus unchanged.                *)
RequestHeld ==
  [][(request # NoRequest /\ ~request.granted) =>
       request' # NoRequest /\ request'.r = request.r]_vars

(* Every load and store ends, whatever the memory and the PMP refuse.       *)
EveryAccessEnds == current ~> response # NoResponse
=============================================================================
