------------------------ MODULE PrefetchBuffer_proof ------------------------
(***************************************************************************)
(* The safety of the prefetch buffer for every number of requests, every    *)
(* address space and every set of word contents.                            *)
(***************************************************************************)
EXTENDS PrefetchBuffer, TLAPS, SequenceTheorems

Pending == IF valid_req_q THEN 1 ELSE 0

(* The valid entries are a prefix of the FIFO.                              *)
Contiguous == \A i \in valid_q : \A j \in Entries : j <= i => j \in valid_q

(* Every entry taken, every request outstanding and the request waiting for *)
(* its grant have a place of their own in the FIFO.                         *)
RoomForAll == /\ Len(bus) + Pending <= NUM_REQS
              /\ \A i \in valid_q : i + Len(bus) + Pending <= NUM_REQS

(* The request held is the one that was offered, and it is to be discarded  *)
(* exactly when it is stale; then so is everything requested before it.     *)
OfferedIsHeld ==
  /\ valid_req_q = (offered # NoRequest)
  /\ valid_req_q => /\ offered \in Request
                    /\ offered.addr = stored_addr_q \div 2
                    /\ discard_req_q = ~offered.fresh
                    /\ discard_req_q => \A k \in 1 .. Len(bus) : ~bus[k].fresh

DiscardsAreOutstanding == branch_discard_q \subseteq rdata_outstanding_q

IInv == /\ TypeOK
        /\ Contiguous
        /\ DiscardsWhatIsStale
        /\ DiscardsAreOutstanding
        /\ RoomForAll
        /\ OfferedIsHeld

(* Halfword arithmetic stays in the address space.                          *)
LEMMA HalfArithmetic ==
  /\ 0 \in Halves /\ 0 \in WordAddr
  /\ \A x \in Nat : x % NumHalves \in Halves
  /\ \A a \in Halves : a \div 2 \in WordAddr
  /\ \A w \in WordAddr : 2 * w \in Halves /\ 2 * w + 1 \in Halves
<1>1. 0 \in Halves /\ \A x \in Nat : x % NumHalves \in Halves
  BY NumHalvesAssumption DEF Halves
<1>2. \A a \in Halves : a \div 2 \in WordAddr
  BY DEF WordAddr
<1>3. 0 \in WordAddr
  <2>1. 0 \div 2 = 0
    OBVIOUS
  <2> QED BY <1>1, <2>1 DEF WordAddr
<1>4. ASSUME NEW w \in WordAddr PROVE 2 * w \in Halves /\ 2 * w + 1 \in Halves
  <2>1. PICK a \in Halves : w = a \div 2
    BY DEF WordAddr
  <2>2. PICK n \in Nat : NumHalves = 2 * n
    <3>1. NumHalves = 2 * (NumHalves \div 2) /\ NumHalves \div 2 \in Nat
      BY NumHalvesAssumption
    <3> QED BY <3>1
  <2>3. a \in Nat /\ a <= 2 * n - 1
    BY <2>2 DEF Halves
  <2>4. w \in Nat /\ 2 * w <= a /\ a <= 2 * w + 1
    BY <2>1, <2>3
  <2> QED BY <2>2, <2>3, <2>4, NumHalvesAssumption DEF Halves
<1> QED BY <1>1, <1>2, <1>3, <1>4

LEMMA InputFields ==
  ASSUME NEW i \in Input
  PROVE  /\ i.branch \in BOOLEAN /\ i.ready \in BOOLEAN /\ i.gnt \in BOOLEAN
         /\ i.rvalid \in BOOLEAN /\ i.target \in Halves
         /\ i.kind.c0 \in BOOLEAN /\ i.kind.c1 \in BOOLEAN /\ i.kind.err \in BOOLEAN
BY HalfArithmetic, KindsAssumption DEF Input

LEMMA SignalTypes ==
  ASSUME TypeOK, OfferedIsHeld, NEW i \in Input
  PROVE  /\ instr_addr(i) \in Halves
         /\ request(i) \in Request
         /\ fetch_addr_d(i) \in Halves
         /\ valid_req(i) \in BOOLEAN /\ granted(i) \in BOOLEAN
         /\ discard_req_d(i) \in BOOLEAN
<1> USE InputFields, HalfArithmetic
<1>1. instr_addr(i) \in Halves
  BY DEF instr_addr, TypeOK
<1>2. (valid_req_q => offered.fresh /\ ~i.branch) \in BOOLEAN
  OBVIOUS
<1>3. request(i) \in Request
  BY <1>1, <1>2 DEF request, Request
<1>4. fetch_addr_d(i) \in Halves
  <2> DEFINE base == IF i.branch THEN i.target ELSE 2 * (fetch_addr_q \div 2)
  <2>1. base \in Halves
    BY DEF TypeOK
  <2>2. base \in Nat
    BY <2>1 DEF Halves
  <2>3. base + (IF valid_new_req(i) /\ ~valid_req_q THEN 2 ELSE 0) \in Nat
    BY <2>2
  <2> HIDE DEF base
  <2>4. (base + (IF valid_new_req(i) /\ ~valid_req_q THEN 2 ELSE 0)) % NumHalves \in Halves
    BY <2>3
  <2> QED BY <2>4 DEF fetch_addr_d, base
<1>5. valid_req(i) \in BOOLEAN /\ granted(i) \in BOOLEAN /\ discard_req_d(i) \in BOOLEAN
  BY DEF valid_req, valid_new_req, granted, discard_req_d
<1> QED BY <1>1, <1>3, <1>4, <1>5

(* One step of the bus: answered requests leave in front, a granted one     *)
(* enters behind, and a redirect makes every older one stale.               *)
LEMMA BusStep ==
  ASSUME TypeOK, OfferedIsHeld, NEW i \in Input, Bus(i)
  PROVE  LET a == IF i.rvalid THEN 1 ELSE 0
             g == IF granted(i) THEN 1 ELSE 0
         IN  /\ bus' \in Seq(Request)
             /\ a <= Len(bus)
             /\ Len(bus') = Len(bus) - a + g
             /\ \A k \in 1 .. Len(bus) - a :
                  /\ bus'[k].fresh = (bus[k + a].fresh /\ ~i.branch)
                  /\ bus'[k].addr = bus[k + a].addr
             /\ granted(i) => bus'[Len(bus) - a + 1] = request(i)
<1> DEFINE a == IF i.rvalid THEN 1 ELSE 0
           g == IF granted(i) THEN 1 ELSE 0
           new == IF granted(i) THEN <<request(i)>> ELSE <<>>
<1> USE InputFields
<1>1. bus \in Seq(Request) /\ (i.rvalid => bus # <<>>)
  BY DEF TypeOK, Bus
<1>2. /\ unanswered(i) \in Seq(Request)
      /\ a <= Len(bus)
      /\ Len(unanswered(i)) = Len(bus) - a
      /\ \A k \in 1 .. Len(bus) - a : unanswered(i)[k] = bus[k + a]
  <2>1. CASE i.rvalid
    BY <1>1, <2>1, HeadTailProperties, EmptySeq DEF unanswered
  <2>2. CASE ~i.rvalid
    BY <1>1, <2>2, LenProperties DEF unanswered
  <2> QED BY <2>1, <2>2
<1>3. /\ aged(i) \in Seq(Request)
      /\ Len(aged(i)) = Len(bus) - a
      /\ \A k \in 1 .. Len(bus) - a : /\ aged(i)[k].fresh = (bus[k + a].fresh /\ ~i.branch)
                                       /\ aged(i)[k].addr = bus[k + a].addr
  <2> DEFINE n == Len(unanswered(i))
  <2>1. n \in Nat /\ DOMAIN unanswered(i) = 1 .. n
    BY <1>2, LenProperties
  <2>2. \A k \in 1 .. n : unanswered(i)[k] \in Request
    BY <1>2, ElementOfSeq
  <2>3. \A k \in 1 .. n :
          [unanswered(i)[k] EXCEPT !.fresh = @ /\ ~i.branch] \in Request
    BY <2>2 DEF Request
  <2>4. aged(i) \in [1 .. n -> Request]
    BY <2>1, <2>3 DEF aged
  <2>5. aged(i) \in Seq(Request) /\ Len(aged(i)) = n
    BY <2>1, <2>4, SeqDef
  <2>6. \A k \in 1 .. n : /\ aged(i)[k].fresh = (unanswered(i)[k].fresh /\ ~i.branch)
                          /\ aged(i)[k].addr = unanswered(i)[k].addr
    BY <2>1, <2>2 DEF aged, Request
  <2> QED BY <1>2, <2>5, <2>6
<1>4. /\ new \in Seq(Request) /\ Len(new) = g
      /\ granted(i) => new[1] = request(i)
  BY SignalTypes, EmptySeq
<1>5. bus' = aged(i) \o new
  BY DEF Bus
<1>6. /\ bus' \in Seq(Request)
      /\ Len(bus') = Len(bus) - a + g
      /\ \A k \in 1 .. Len(bus) - a : bus'[k] = aged(i)[k]
      /\ granted(i) => bus'[Len(bus) - a + 1] = new[1]
  <2> HIDE DEF new
  <2>1. Len(bus) \in Nat /\ a \in Nat /\ g \in Nat
    BY <1>1, LenProperties
  <2> HIDE DEF a, g
  <2>2. /\ aged(i) \o new \in Seq(Request)
        /\ Len(aged(i) \o new) = Len(aged(i)) + Len(new)
        /\ \A k \in 1 .. Len(aged(i)) + Len(new) :
             (aged(i) \o new)[k] = IF k <= Len(aged(i)) THEN aged(i)[k]
                                                        ELSE new[k - Len(aged(i))]
    BY <1>3, <1>4, ConcatProperties
  <2>3. granted(i) => g = 1
    BY DEF g
  <2>4. Len(aged(i)) = Len(bus) - a /\ Len(new) = g /\ Len(bus) - a \in Nat
    BY <1>2, <1>3, <1>4, <2>1 DEF a
  <2> DEFINE m == Len(bus) - a
  <2>5. m \in Nat /\ Len(aged(i)) = m /\ Len(new) = g
    BY <2>4
  <2> HIDE DEF m
  <2>6. /\ bus' \in Seq(Request)
        /\ Len(bus') = m + g
        /\ \A k \in 1 .. m : bus'[k] = aged(i)[k]
    BY <1>5, <2>1, <2>2, <2>5
  <2>7. granted(i) => bus'[m + 1] = new[1]
    <3>1. granted(i) => m + 1 \in 1 .. m + g /\ ~(m + 1 <= m) /\ (m + 1) - m = 1
      BY <2>1, <2>3, <2>5
    <3>2. granted(i) => (aged(i) \o new)[m + 1] = new[(m + 1) - m]
      BY <2>2, <2>5, <3>1
    <3> QED BY <1>5, <3>1, <3>2
  <2> QED BY <2>6, <2>7, SMTT(30) DEF m
<1>7. \A k \in 1 .. Len(bus) - a : /\ bus'[k].fresh = (bus[k + a].fresh /\ ~i.branch)
                                   /\ bus'[k].addr = bus[k + a].addr
  <2> HIDE DEF a, g, new
  <2> TAKE k \in 1 .. Len(bus) - a
  <2>1. bus'[k] = aged(i)[k]
    BY <1>6
  <2>2. /\ aged(i)[k].fresh = (bus[k + a].fresh /\ ~i.branch)
        /\ aged(i)[k].addr = bus[k + a].addr
    BY <1>3
  <2> QED BY <2>1, <2>2
<1>8. granted(i) => bus'[Len(bus) - a + 1] = request(i)
  BY <1>4, <1>6
<1> QED BY <1>2, <1>6, <1>7, <1>8

----------------------------------------------------------------------------
LEMMA InWordType ==
  ASSUME TypeOK, NEW i \in Input, Bus(i)
  PROVE  InWord(i) \in Word
<1> USE InputFields, HalfArithmetic
<1>1. bus # <<>> => Head(bus) \in Request
  BY HeadTailProperties DEF TypeOK
<1>2. (IF bus = <<>> THEN 0 ELSE Head(bus).addr) \in WordAddr
  BY <1>1 DEF Request
<1>3. (i.rvalid /\ Head(bus).fresh) \in BOOLEAN
  OBVIOUS
<1> QED BY <1>2, <1>3 DEF InWord, Word

LEMMA TakenType ==
  ASSUME TypeOK, NEW w \in Word
  PROVE  TakenInstruction(w) \in Instruction
<1> USE DEF TypeOK, FifoTypeOK
<1>1. ASSUME NEW v \in Word
      PROVE  Half(v, 0) \in HalfWord /\ Half(v, 1) \in HalfWord
  <2>1. /\ v.addr \in WordAddr /\ v.fresh \in BOOLEAN
        /\ v.c0 \in BOOLEAN /\ v.c1 \in BOOLEAN /\ v.err \in BOOLEAN
    BY DEF Word
  <2>2. 2 * v.addr + 0 \in Halves /\ 2 * v.addr + 1 \in Halves
    <3>1. 2 * v.addr \in Halves /\ 2 * v.addr + 1 \in Halves
      BY <2>1, HalfArithmetic
    <3>2. 2 * v.addr + 0 = 2 * v.addr
      BY <3>1 DEF Halves
    <3> QED BY <3>1, <3>2
  <2>3. Half(v, 0) = [at |-> 2 * v.addr + 0, fresh |-> v.fresh, c |-> v.c0, err |-> v.err]
    BY DEF Half
  <2>4. Half(v, 1) = [at |-> 2 * v.addr + 1, fresh |-> v.fresh, c |-> v.c1, err |-> v.err]
    BY DEF Half
  <2> QED BY <2>1, <2>2, <2>3, <2>4 DEF HalfWord
<1>2. HeadWord(w) \in Word /\ NextWord(w) \in Word
  <2>1. 0 \in valid_q => rdata_q[0] \in Word
    BY DEF Entries
  <2>2. 1 \in valid_q => rdata_q[1] \in Word
    BY DEF Entries
  <2> QED BY <2>1, <2>2 DEF HeadWord, NextWord
<1>3. out_rdata_o(w) \in HalfWord \X HalfWord
  BY <1>1, <1>2 DEF out_rdata_o
<1>4. (IF out_rdata_o(w)[1].c /\ ~out_err_o(w) THEN <<out_rdata_o(w)[1]>> ELSE out_rdata_o(w))
        \in {<<h>> : h \in HalfWord} \cup (HalfWord \X HalfWord)
  BY <1>3
<1>5. out_err_o(w) \in BOOLEAN
  <2>1. HeadWord(w).err \in BOOLEAN
    BY <1>2 DEF Word
  <2>2. err_unaligned(w) \in BOOLEAN
    BY DEF err_unaligned
  <2> QED BY <2>1, <2>2 DEF out_err_o
<1>6. out_err_plus2_o(w) \in BOOLEAN
  BY DEF out_err_plus2_o
<1> QED BY <1>4, <1>5, <1>6 DEF TakenInstruction, Instruction

LEMMA InitIInv == Init => IInv
<1> SUFFICES ASSUME Init PROVE IInv
  OBVIOUS
<1> USE HalfArithmetic DEF Init, FifoInit
<1>1. NoWord \in Word
  BY DEF NoWord, Word
<1>2. bus \in Seq(Request) /\ Len(bus) = 0
  BY EmptySeq
<1>3. TypeOK
  BY <1>1, <1>2 DEF TypeOK, FifoTypeOK
<1>4. Contiguous /\ DiscardsAreOutstanding
  BY DEF Contiguous, DiscardsAreOutstanding
<1>5. DiscardsWhatIsStale
  BY <1>2 DEF DiscardsWhatIsStale, Reqs
<1>6. RoomForAll
  BY <1>2, NumReqsAssumption DEF RoomForAll, Pending
<1>7. OfferedIsHeld
  BY DEF OfferedIsHeld
<1> QED BY <1>3, <1>4, <1>5, <1>6, <1>7 DEF IInv

LEMMA StepTypeOK ==
  ASSUME IInv, NEW i \in Input, Cycle(i)
  PROVE  TypeOK'
<1> USE InputFields, HalfArithmetic, SignalTypes, InWordType DEF IInv, Cycle
<1> DEFINE v == fifo_valid(i)
           w == InWord(i)
           pop == pop_fifo(v, w, i.ready)
<1>1. valid_pushed(v) \subseteq Entries
  BY DEF TypeOK, FifoTypeOK, valid_pushed, lowest_free_entry
<1>2. valid_q' \subseteq Entries
  BY <1>1 DEF FifoCycle, valid_popped
<1>3. w \in Word
  OBVIOUS
<1>4. \A k \in Entries : rdata_d(v, w, pop)[k] \in Word
  BY <1>3 DEF rdata_d, TypeOK, FifoTypeOK
<1>5. rdata_q' \in [Entries -> Word]
  <2>1. NoWord \in Word
    BY DEF NoWord, Word
  <2>2. \A k \in Entries :
          [rdata_d(v, w, pop)[k] EXCEPT !.fresh = @ /\ ~i.branch] \in Word
    BY <1>4 DEF Word
  <2> QED BY <2>1, <2>2 DEF FifoCycle
<1>6. instr_addr_q' \in Halves
  <2>1. instr_addr_q \in Nat
    BY DEF TypeOK, FifoTypeOK, Halves
  <2>2. instr_addr_q + (IF addr_incr_two(w) THEN 1 ELSE 2) \in Nat
    BY <2>1
  <2>3. (instr_addr_q + (IF addr_incr_two(w) THEN 1 ELSE 2)) % NumHalves \in Halves
    BY <2>2
  <2> QED BY <2>3 DEF TypeOK, FifoTypeOK, FifoCycle, instr_addr_d
<1>7. /\ valid_req_q' \in BOOLEAN /\ discard_req_q' \in BOOLEAN
      /\ stored_addr_q' \in Halves /\ fetch_addr_q' \in Halves
  BY DEF Registers, TypeOK
<1>8. rdata_outstanding_q' \subseteq Reqs /\ branch_discard_q' \subseteq Reqs
  <2>1. rdata_outstanding_n(i) \subseteq Reqs /\ branch_discard_n(i) \subseteq Reqs
    BY DEF TypeOK, rdata_outstanding_n, branch_discard_n, entry_taken
  <2> QED BY <2>1 DEF Registers, shift
<1>9. bus' \in Seq(Request)
  BY BusStep
<1>10. offered' \in Request \cup {NoRequest}
  BY DEF Bus
<1>11. out' \in Instruction \cup {Idle} \cup {Redirected(a) : a \in Halves}
  BY TakenType DEF Stream
<1>12. req_i' \in BOOLEAN
  OBVIOUS
<1> QED BY <1>2, <1>5, <1>6, <1>7, <1>8, <1>9, <1>10, <1>11, <1>12 DEF TypeOK, FifoTypeOK

(* Pushing fills the lowest free entry and popping shifts all entries, so   *)
(* that the valid entries stay a prefix; no push enlarges it by more than   *)
(* one.                                                                     *)
LEMMA StepContiguous ==
  ASSUME IInv, NEW i \in Input, Cycle(i)
  PROVE  /\ Contiguous'
         /\ \A k \in valid_q' : \/ k \in valid_q
                                \/ fifo_valid(i) /\ (k = 0 \/ k - 1 \in valid_q)
<1> USE DEF IInv, Cycle
<1> DEFINE pushed == valid_pushed(fifo_valid(i))
<1>0. Entries \subseteq Nat /\ \A k \in Entries : \A j \in Nat : j <= k => j \in Entries
  BY NumReqsAssumption DEF Entries
<1>1. /\ pushed \subseteq Entries
      /\ \A k \in pushed : \A j \in Entries : j <= k => j \in pushed
      /\ \A k \in pushed : \/ k \in valid_q
                           \/ fifo_valid(i) /\ (k = 0 \/ k - 1 \in valid_q)
  <2>1. valid_q \subseteq Entries
    BY DEF TypeOK, FifoTypeOK
  <2>2. \A k \in pushed : \/ k \in valid_q
                          \/ /\ fifo_valid(i) /\ k \in Entries
                             /\ k = 0 \/ k - 1 \in valid_q
    BY DEF valid_pushed, lowest_free_entry
  <2>3. valid_q \subseteq pushed
    BY DEF valid_pushed
  <2>4. ASSUME NEW k \in pushed, NEW j \in Entries, j <= k PROVE j \in pushed
    <3> HIDE DEF pushed
    <3>1. k \in Entries
      BY <2>1, <2>2
    <3>2. CASE j = k
      BY <3>2
    <3>3. CASE j # k /\ k \in valid_q
      BY <2>3, <2>4, <3>3 DEF Contiguous
    <3>4. CASE j # k /\ k \notin valid_q
      <4>1. k # 0 /\ k - 1 \in valid_q /\ j <= k - 1
        BY <1>0, <2>2, <2>4, <3>1, <3>4
      <4> QED BY <2>3, <4>1 DEF Contiguous
    <3> QED BY <3>2, <3>3, <3>4
  <2> QED BY <2>1, <2>2, <2>4
<1>2. \A k \in Entries : k + 1 \in pushed => k \in pushed
  BY <1>0, <1>1
<1>3. valid_q' \subseteq pushed
  BY <1>1, <1>2 DEF FifoCycle, valid_popped
<1>4. Contiguous'
  <2>1. CASE i.branch
    BY <2>1 DEF FifoCycle, Contiguous
  <2>2. CASE ~i.branch /\ ~pop_fifo(fifo_valid(i), InWord(i), i.ready)
    BY <1>1, <2>2 DEF FifoCycle, valid_popped, Contiguous
  <2>3. CASE ~i.branch /\ pop_fifo(fifo_valid(i), InWord(i), i.ready)
    <3>1. valid_q' = {k \in Entries : k + 1 \in pushed}
      BY <2>3 DEF FifoCycle, valid_popped
    <3>2. ASSUME NEW k \in valid_q', NEW j \in Entries, j <= k PROVE j \in valid_q'
      <4>1. k \in Entries /\ k + 1 \in pushed
        BY <3>1
      <4>2. j + 1 <= k + 1 /\ j + 1 \in Entries
        BY <1>0, <1>1, <3>2, <4>1
      <4> QED BY <1>1, <3>1, <4>1, <4>2
    <3> QED BY <3>2 DEF Contiguous, Entries
  <2> QED BY <2>1, <2>2, <2>3
<1> QED BY <1>1, <1>3, <1>4

(* A request is made only when an entry is free beyond all those spoken for. *)
LEMMA NewRequestHasRoom ==
  ASSUME IInv, NEW i \in Input, valid_new_req(i), ~valid_req_q
  PROVE  /\ Len(bus) + 1 <= NUM_REQS
         /\ ~i.branch => \A k \in valid_q : k + Len(bus) + 1 <= NUM_REQS
<1> USE NumReqsAssumption DEF IInv
<1>1. Len(bus) \in Nat
  BY LenProperties DEF TypeOK
<1>2. \A k \in Reqs : k \in rdata_outstanding_q <=> k < Len(bus)
  BY DEF DiscardsWhatIsStale
<1>3. Len(bus) + 1 <= NUM_REQS
  <2>1. NUM_REQS - 1 \in Reqs /\ NUM_REQS - 1 \notin rdata_outstanding_q
    BY DEF Reqs, valid_new_req
  <2> QED BY <1>1, <1>2, <2>1
<1>4. ASSUME ~i.branch, NEW k \in valid_q PROVE k + Len(bus) + 1 <= NUM_REQS
  <2>1. PICK j \in Reqs : j + 1 \notin valid_q /\ NUM_REQS - 1 - j \notin rdata_outstanding_q
    BY <1>4 DEF valid_new_req, fifo_ready
  <2>2. j \in Nat /\ j <= NUM_REQS - 1 /\ NUM_REQS - 1 - j \in Reqs
    BY <2>1 DEF Reqs
  <2>3. NUM_REQS - 1 - j >= Len(bus)
    BY <1>1, <1>2, <2>1, <2>2
  <2>4. k \in Entries /\ k \in Nat /\ j + 1 \in Entries
    BY <2>2 DEF TypeOK, FifoTypeOK, Entries
  <2>5. k <= j
    BY <2>1, <2>2, <2>4 DEF Contiguous
  <2> QED BY <1>1, <2>2, <2>3, <2>4, <2>5
<1> QED BY <1>3, <1>4

LEMMA StepRoomForAll ==
  ASSUME IInv, NEW i \in Input, Cycle(i)
  PROVE  RoomForAll'
<1> USE NumReqsAssumption, InputFields DEF IInv, Cycle
<1> DEFINE a == IF i.rvalid THEN 1 ELSE 0
           g == IF granted(i) THEN 1 ELSE 0
           asked == IF valid_req(i) THEN 1 ELSE 0
           p == IF valid_req_q' THEN 1 ELSE 0
<1>1. Len(bus) \in Nat /\ a \in Nat /\ g \in Nat /\ asked \in Nat
  BY LenProperties DEF TypeOK
<1>2. a <= Len(bus) /\ Len(bus') = Len(bus) - a + g
  BY BusStep
<1>3. p + g = asked
  <2>1. valid_req_q' <=> (valid_req(i) /\ ~i.gnt)
    BY DEF Registers
  <2>2. granted(i) <=> (valid_req(i) /\ i.gnt)
    BY DEF granted
  <2>3. CASE granted(i)
    <3>1. g = 1 /\ asked = 1 /\ p = 0
      BY <2>1, <2>2, <2>3
    <3> QED BY <3>1
  <2>4. CASE ~granted(i) /\ valid_req(i)
    <3>1. g = 0 /\ asked = 1 /\ p = 1
      BY <2>1, <2>2, <2>4
    <3> QED BY <3>1
  <2>5. CASE ~valid_req(i)
    <3>1. g = 0 /\ asked = 0 /\ p = 0
      BY <2>1, <2>2, <2>5
    <3> QED BY <3>1
  <2> QED BY <2>3, <2>4, <2>5
<1>4. /\ Len(bus) + asked <= NUM_REQS
      /\ ~i.branch => \A k \in valid_q : k + Len(bus) + asked <= NUM_REQS
  <2>1. CASE valid_req_q
    <3>1. Pending = 1 /\ asked = 1
      BY <2>1 DEF Pending, valid_req
    <3> QED BY <3>1 DEF RoomForAll
  <2>2. CASE ~valid_req_q /\ valid_new_req(i)
    <3>1. asked = 1
      BY <2>2 DEF valid_req
    <3> QED BY <2>2, <3>1, NewRequestHasRoom
  <2>3. CASE ~valid_req_q /\ ~valid_new_req(i)
    <3>1. Pending = 0 /\ asked = 0
      BY <2>3 DEF Pending, valid_req
    <3> QED BY <3>1 DEF RoomForAll
  <2> QED BY <2>1, <2>2, <2>3
<1>5. p \in {0, 1}
  OBVIOUS
<1> HIDE DEF a, g, asked, p, IInv, Cycle
<1>6. Len(bus') + p <= NUM_REQS
  <2>1. Len(bus) - a + g + p <= NUM_REQS
    BY <1>1, <1>3, <1>4, <1>5
  <2> QED BY <1>2, <2>1
<1>7. ASSUME NEW k \in valid_q' PROVE k + Len(bus') + p <= NUM_REQS
  <2>1. ~i.branch
    BY <1>7 DEF Cycle, FifoCycle
  <2>2. k \in Nat
    BY StepTypeOK DEF TypeOK, FifoTypeOK, Entries
  <2>3. CASE k \in valid_q
    BY <1>1, <1>2, <1>3, <1>4, <1>5, <2>1, <2>2, <2>3
  <2>4. CASE fifo_valid(i) /\ k = 0
    BY <1>6, <1>1, <1>2, <1>5, <2>4
  <2>5. CASE fifo_valid(i) /\ k # 0 /\ k - 1 \in valid_q
    <3>1. a = 1
      BY <2>5 DEF fifo_valid, a
    <3>2. (k - 1) + Len(bus) + asked <= NUM_REQS
      BY <1>4, <2>1, <2>5
    <3>3. k + (Len(bus) - a + g) + p <= NUM_REQS
      BY <1>1, <1>3, <1>5, <2>2, <3>1, <3>2
    <3> QED BY <1>2, <3>3
  <2> QED BY <2>3, <2>4, <2>5, StepContiguous
<1> QED BY <1>6, <1>7 DEF RoomForAll, Pending, p

LEMMA StepOfferedIsHeld ==
  ASSUME IInv, NEW i \in Input, Cycle(i)
  PROVE  OfferedIsHeld'
<1> USE InputFields DEF IInv, Cycle
<1> DEFINE a == IF i.rvalid THEN 1 ELSE 0
<1>1. request(i) \in Request /\ request(i) # NoRequest
  <2>1. request(i) \in Request
    BY SignalTypes
  <2>2. \A r \in Request : "addr" \in DOMAIN r
    BY DEF Request
  <2>3. "addr" \notin DOMAIN NoRequest
    BY DEF NoRequest
  <2> QED BY <2>1, <2>2, <2>3
<1>2. valid_req_q' = (offered' # NoRequest)
  BY <1>1, SignalTypes DEF Registers, Bus
<1>3. ASSUME valid_req_q'
      PROVE  /\ offered' = request(i)
             /\ stored_addr_q' = instr_addr(i)
             /\ valid_req_q \/ valid_new_req(i)
             /\ ~granted(i)
  BY <1>3, SignalTypes DEF Registers, Bus, valid_req, instr_addr, granted
<1>4. valid_req_q' => discard_req_q' = ~offered'.fresh
  BY <1>3, SignalTypes DEF Registers, request, discard_req_d, OfferedIsHeld, Request, TypeOK
<1>5. ASSUME valid_req_q', discard_req_q', NEW k \in 1 .. Len(bus')
      PROVE  ~bus'[k].fresh
  <2>1. valid_req_q /\ (i.branch \/ discard_req_q)
    BY <1>5 DEF Registers, discard_req_d
  <2>2. Len(bus) \in Nat /\ a \in {0, 1} /\ a <= Len(bus) /\ Len(bus') = Len(bus) - a
    BY <1>3, <1>5, BusStep, LenProperties DEF TypeOK
  <2>3. bus'[k].fresh = (bus[k + a].fresh /\ ~i.branch)
    BY <1>5, <2>2, BusStep
  <2>4. k + a \in 1 .. Len(bus)
    BY <1>5, <2>2
  <2> QED BY <2>1, <2>3, <2>4 DEF OfferedIsHeld
<1>6. valid_req_q' => offered'.addr = stored_addr_q' \div 2
  BY <1>3 DEF request
<1> QED BY <1>1, <1>2, <1>3, <1>4, <1>5, <1>6 DEF OfferedIsHeld

LEMMA RequestHasRoom ==
  ASSUME IInv, NEW i \in Input, valid_req(i)
  PROVE  Len(bus) + 1 <= NUM_REQS
<1>1. CASE valid_req_q
  <2>1. Pending = 1
    BY <1>1 DEF Pending
  <2> QED BY <2>1 DEF IInv, RoomForAll
<1>2. CASE ~valid_req_q
  BY <1>2, NewRequestHasRoom DEF valid_req
<1> QED BY <1>1, <1>2

(* The outstanding and discard bits after a grant, before answers shift     *)
(* them, are those of the bus queue with the granted request at its end.    *)
LEMMA BitsBeforeShift ==
  ASSUME IInv, NEW i \in Input
  PROVE  LET g == IF granted(i) THEN 1 ELSE 0
         IN  /\ rdata_outstanding_n(i) = {k \in Reqs : k < Len(bus) + g}
             /\ branch_discard_n(i) \subseteq rdata_outstanding_n(i)
             /\ \A k \in Reqs : k < Len(bus) =>
                  (k \in branch_discard_n(i) <=> ~bus[k + 1].fresh \/ i.branch)
             /\ \A k \in Reqs : granted(i) /\ k = Len(bus) =>
                  (k \in branch_discard_n(i) <=> ~request(i).fresh)
<1> USE NumReqsAssumption
<1> DEFINE g == IF granted(i) THEN 1 ELSE 0
<1>1. Len(bus) \in Nat /\ \A k \in Reqs : k \in Nat
  BY LenProperties DEF IInv, TypeOK, Reqs
<1>2. rdata_outstanding_q = {k \in Reqs : k < Len(bus)}
  BY DEF IInv, DiscardsWhatIsStale
<1>3. /\ branch_discard_q \subseteq rdata_outstanding_q
      /\ \A k \in Reqs : k < Len(bus) => (k \in branch_discard_q <=> ~bus[k + 1].fresh)
  BY <1>2 DEF IInv, DiscardsWhatIsStale, DiscardsAreOutstanding
<1>4. \A k \in Reqs : k \in entry_taken(i) <=> granted(i) /\ k <= Len(bus)
  <2>1. \A k \in Reqs : k # 0 => k - 1 \in Reqs
    BY DEF Reqs
  <2>2. \A k \in Reqs : (k = 0 \/ k - 1 \in rdata_outstanding_q) <=> k <= Len(bus)
    BY <1>1, <1>2, <2>1
  <2> QED BY <2>2 DEF entry_taken
<1>5. rdata_outstanding_n(i) = {k \in Reqs : k < Len(bus) + g}
  <2>1. entry_taken(i) \subseteq Reqs
    BY DEF entry_taken
  <2>2. CASE granted(i)
    <3>1. g = 1
      BY <2>2
    <3>2. \A k \in Reqs : k \in rdata_outstanding_n(i) <=> k < Len(bus) + 1
      BY <1>1, <1>2, <1>4, <2>2 DEF rdata_outstanding_n
    <3> QED BY <1>2, <2>1, <3>1, <3>2 DEF rdata_outstanding_n
  <2>3. CASE ~granted(i)
    <3>1. g = 0 /\ entry_taken(i) = {}
      BY <1>4, <2>1, <2>3
    <3> QED BY <1>1, <1>2, <3>1 DEF rdata_outstanding_n
  <2> QED BY <2>2, <2>3
<1>6. branch_discard_n(i) \subseteq rdata_outstanding_n(i)
  BY <1>3 DEF branch_discard_n, rdata_outstanding_n
<1>7. discard_req_d(i) => /\ valid_req_q
                          /\ i.branch \/ \A k \in 1 .. Len(bus) : ~bus[k].fresh
  BY DEF discard_req_d, IInv, OfferedIsHeld
<1>8. ASSUME NEW k \in Reqs, k < Len(bus)
      PROVE  k \in branch_discard_n(i) <=> ~bus[k + 1].fresh \/ i.branch
  <2>1. k + 1 \in 1 .. Len(bus)
    BY <1>1, <1>8
  <2>2. k \in rdata_outstanding_q
    BY <1>2, <1>8
  <2> QED BY <1>3, <1>7, <1>8, <2>1, <2>2 DEF branch_discard_n
<1>9. ASSUME NEW k \in Reqs, granted(i), k = Len(bus)
      PROVE  k \in branch_discard_n(i) <=> ~request(i).fresh
  <2>1. k \notin rdata_outstanding_q /\ k \notin branch_discard_q
    BY <1>1, <1>2, <1>3, <1>9
  <2>2. k \in entry_taken(i)
    BY <1>1, <1>4, <1>9
  <2>3. k \in branch_discard_n(i) <=> discard_req_d(i)
    BY <2>1, <2>2 DEF branch_discard_n
  <2>4. request(i).fresh = (valid_req_q => offered.fresh /\ ~i.branch)
    BY DEF request
  <2>5. discard_req_d(i) <=> ~(valid_req_q => offered.fresh /\ ~i.branch)
    BY DEF discard_req_d, IInv, OfferedIsHeld, TypeOK
  <2> QED BY <2>3, <2>4, <2>5
<1> QED BY <1>5, <1>6, <1>8, <1>9

LEMMA StepDiscards ==
  ASSUME IInv, NEW i \in Input, Cycle(i)
  PROVE  DiscardsWhatIsStale' /\ DiscardsAreOutstanding'
<1> USE NumReqsAssumption, InputFields
<1> DEFINE a == IF i.rvalid THEN 1 ELSE 0
           g == IF granted(i) THEN 1 ELSE 0
<1>1. /\ Len(bus) \in Nat /\ a \in {0, 1} /\ g \in {0, 1} /\ a <= Len(bus)
      /\ Len(bus') = Len(bus) - a + g
      /\ \A k \in 1 .. Len(bus) - a : bus'[k].fresh = (bus[k + a].fresh /\ ~i.branch)
      /\ granted(i) => bus'[Len(bus) - a + 1] = request(i)
  BY BusStep, LenProperties DEF IInv, TypeOK, Cycle
<1>2. Len(bus) + g <= NUM_REQS
  <2>1. CASE granted(i)
    <3>1. g = 1
      BY <2>1
    <3> QED BY <2>1, <3>1, RequestHasRoom DEF granted
  <2>2. CASE ~granted(i)
    <3>1. g = 0
      BY <2>2
    <3>2. Len(bus) <= NUM_REQS
      <4>1. Pending \in {0, 1}
        BY DEF Pending
      <4> QED BY <1>1, <4>1 DEF IInv, RoomForAll
    <3> QED BY <1>1, <3>1, <3>2
  <2> QED BY <2>1, <2>2
<1>3. granted(i) <=> g = 1
  OBVIOUS
<1> HIDE DEF g
<1>4. /\ rdata_outstanding_n(i) = {k \in Reqs : k < Len(bus) + g}
      /\ branch_discard_n(i) \subseteq rdata_outstanding_n(i)
      /\ \A k \in Reqs : k < Len(bus) =>
           (k \in branch_discard_n(i) <=> ~bus[k + 1].fresh \/ i.branch)
      /\ \A k \in Reqs : granted(i) /\ k = Len(bus) =>
           (k \in branch_discard_n(i) <=> ~request(i).fresh)
  BY BitsBeforeShift DEF g
<1>5. /\ rdata_outstanding_q' = shift(i, rdata_outstanding_n(i))
      /\ branch_discard_q' = shift(i, branch_discard_n(i))
  BY DEF Cycle, Registers
<1>6. \A k \in Reqs : k \in Nat /\ k < NUM_REQS
                      /\ (k + 1 < NUM_REQS => k + 1 \in Reqs)
  BY DEF Reqs
<1>7. /\ rdata_outstanding_q' \subseteq Reqs
      /\ \A k \in Reqs : k \in rdata_outstanding_q' <=> k + a \in rdata_outstanding_n(i)
      /\ \A k \in Reqs : k \in branch_discard_q' <=> k + a \in branch_discard_n(i)
      /\ branch_discard_q' \subseteq rdata_outstanding_q'
  <2>1. CASE i.rvalid
    <3>1. a = 1
      BY <2>1
    <3>2. /\ rdata_outstanding_q' = {k \in Reqs : k + 1 \in rdata_outstanding_n(i)}
          /\ branch_discard_q' = {k \in Reqs : k + 1 \in branch_discard_n(i)}
      BY <1>5, <2>1 DEF shift
    <3> HIDE DEF a
    <3>3. /\ \A k \in Reqs : k \in rdata_outstanding_q' <=> k + a \in rdata_outstanding_n(i)
          /\ \A k \in Reqs : k \in branch_discard_q' <=> k + a \in branch_discard_n(i)
      BY <3>1, <3>2
    <3>4. rdata_outstanding_q' \subseteq Reqs /\ branch_discard_q' \subseteq rdata_outstanding_q'
      BY <1>4, <3>2
    <3> QED BY <3>3, <3>4
  <2>2. CASE ~i.rvalid
    <3>1. a = 0
      BY <2>2
    <3>2. /\ rdata_outstanding_q' = rdata_outstanding_n(i)
          /\ branch_discard_q' = branch_discard_n(i)
      BY <1>5, <2>2 DEF shift
    <3> HIDE DEF a
    <3>3. \A k \in Reqs : k + a = k
      BY <1>6, <3>1
    <3>4. rdata_outstanding_n(i) \subseteq Reqs
      BY <1>4
    <3> QED BY <1>4, <3>2, <3>3, <3>4
  <2> QED BY <2>1, <2>2
<1> HIDE DEF a
<1>8. ASSUME NEW k \in Reqs
      PROVE  k \in rdata_outstanding_q' <=> k < Len(bus')
  <2>1. k < Len(bus') <=> k + a < Len(bus) + g
    <3> DEFINE m == Len(bus)
               n == Len(bus')
    <3>1. k \in Nat /\ a \in Nat /\ g \in Nat /\ m \in Nat
      BY <1>1, <1>6
    <3>2. n = m - a + g
      BY <1>1
    <3> HIDE DEF m, n
    <3>3. k < n <=> k + a < m + g
      BY <3>1, <3>2, SMTT(30)
    <3> QED BY <3>3 DEF m, n
  <2>2. k + a < Len(bus) + g => k + a \in Reqs
    <3>1. k \in Nat /\ a \in Nat /\ g \in Nat /\ Len(bus) \in Nat
      BY <1>1, <1>6
    <3>2. k + a \in Nat
      BY <3>1
    <3>3. k + a < Len(bus) + g => k + a <= NUM_REQS - 1
      BY <1>2, <3>1
    <3> QED BY <3>2, <3>3 DEF Reqs
  <2> QED BY <1>4, <1>7, <2>1, <2>2
<1>9. ASSUME NEW k \in Reqs, k < Len(bus')
      PROVE  k \in branch_discard_q' <=> ~bus'[k + 1].fresh
  <2>1. k + a \in Reqs /\ k + a < Len(bus) + g
    <3> DEFINE m == Len(bus)
               n == Len(bus')
    <3>1. k \in Nat /\ a \in Nat /\ g \in Nat /\ m \in Nat
      BY <1>1, <1>6
    <3>2. n = m - a + g /\ k < n /\ m + g <= NUM_REQS
      BY <1>1, <1>2, <1>9
    <3> HIDE DEF m, n
    <3>3. k + a < m + g
      BY <3>1, <3>2
    <3>4. k + a \in Nat /\ k + a <= NUM_REQS - 1
      BY <3>1, <3>2, <3>3
    <3> QED BY <3>3, <3>4 DEF m, n, Reqs
  <2>2. CASE k + a < Len(bus)
    <3>1. k + 1 \in 1 .. Len(bus) - a /\ (k + 1) + a = (k + a) + 1
      BY <1>1, <1>6, <2>2
    <3>2. bus'[k + 1].fresh = (bus[(k + a) + 1].fresh /\ ~i.branch)
      BY <1>1, <3>1
    <3> QED BY <1>4, <1>7, <2>1, <2>2, <3>2
  <2>3. CASE ~(k + a < Len(bus))
    <3>1. k + a = Len(bus) /\ g = 1
      BY <1>1, <1>6, <2>1, <2>3
    <3>2. k + 1 = Len(bus) - a + 1
      BY <1>1, <1>6, <3>1
    <3>3. bus'[k + 1] = request(i)
      BY <1>1, <1>3, <3>1, <3>2
    <3> QED BY <1>3, <1>4, <1>7, <2>1, <3>1, <3>3
  <2> QED BY <2>2, <2>3
<1>10. DiscardsWhatIsStale'
  BY <1>7, <1>8, <1>9 DEF DiscardsWhatIsStale, Reqs
<1> QED BY <1>7, <1>10 DEF DiscardsAreOutstanding

LEMMA StepIInv == IInv /\ [Next]_vars => IInv'
<1> SUFFICES ASSUME IInv, [Next]_vars PROVE IInv'
  OBVIOUS
<1>1. CASE UNCHANGED vars
  BY <1>1 DEF vars, fifoVars, IInv, TypeOK, FifoTypeOK, Contiguous, DiscardsWhatIsStale,
              DiscardsAreOutstanding, RoomForAll, Pending, OfferedIsHeld
<1>2. ASSUME NEW i \in Input, Cycle(i) PROVE IInv'
  BY <1>2, StepTypeOK, StepContiguous, StepDiscards, StepRoomForAll, StepOfferedIsHeld DEF IInv
<1> QED BY <1>1, <1>2 DEF Next

(* The inductive invariant holds of every run of the buffer with its FIFO,   *)
(* for every NUM_REQS and every set of addresses.                             *)
THEOREM Invariance == Spec => []IInv
<1>1. Init => IInv
  BY InitIInv
<1>2. IInv /\ [Next]_vars => IInv'
  BY StepIInv
<1> QED BY <1>1, <1>2, PTL DEF Spec

(* Every register keeps a value of its kind.                                *)
THEOREM TypeCorrect == Spec => []TypeOK
<1>1. IInv => TypeOK
  BY DEF IInv
<1> QED BY <1>1, Invariance, PTL

(* The assertion CVE2FetchFifoPushFull of the fetch FIFO can never fail:    *)
(* the reservation made by fifo_ready is enough for every NUM_REQS.         *)
THEOREM NeverPushedWhenFull == Spec => []CVE2FetchFifoPushFull
<1>1. IInv => CVE2FetchFifoPushFull
  <2> SUFFICES ASSUME IInv, bus # <<>>, NUM_REQS \in valid_q PROVE FALSE
    BY DEF CVE2FetchFifoPushFull
  <2>1. Len(bus) \in Nat \ {0}
    BY EmptySeq DEF IInv, TypeOK
  <2>2. Pending \in Nat
    BY DEF Pending
  <2>3. NUM_REQS + Len(bus) + Pending <= NUM_REQS
    BY DEF IInv, RoomForAll
  <2> QED BY <2>1, <2>2, <2>3, NumReqsAssumption
<1> QED BY <1>1, Invariance, PTL

(* The outstanding bits count the unanswered requests and the discard bits  *)
(* mark exactly those a redirect made stale.                                *)
THEOREM DiscardsExactlyStale == Spec => []DiscardsWhatIsStale
<1>1. IInv => DiscardsWhatIsStale
  BY DEF IInv
<1> QED BY <1>1, Invariance, PTL

(* A request left ungranted is repeated with the same address.              *)
THEOREM RequestsAreHeld == Spec => []RequestHeld
<1>1. IInv => RequestHeld
  BY DEF IInv, OfferedIsHeld, RequestHeld, valid_req, instr_addr
<1> QED BY <1>1, Invariance, PTL
=============================================================================
