------------------------ MODULE InstructionStream_proof ------------------------
(***************************************************************************)
(* Instruction fetch implements the stream of instructions in program order *)
(* for every number of requests, every address space and every word: what   *)
(* the FIFO holds, what is on the bus and what is asked for next are the     *)
(* words that follow the instruction at the output.  On top of it, the       *)
(* fetch-error flops of the IF/ID register, for every set of words the PMP   *)
(* denies.                                                                   *)
(***************************************************************************)
EXTENDS IfStage, PrefetchBuffer_proof

NumWords == NumHalves \div 2

(* The n-th word from the one with halfword a in it, and from the one the    *)
(* next instruction starts in.                                               *)
WordFrom(a, n) == (a \div 2 + n) % NumWords
WordAt(n) == WordFrom(instr_addr_q, n)

(* The first v entries of the FIFO are valid and the first s requests on the *)
(* bus are stale; everything else is a run of words from WordAt(0) on.       *)
Aligned(v, s) ==
  LET n == v + Len(bus) - s
      kept == valid_req_q /\ offered.fresh
  IN  /\ valid_q = 0 .. v - 1
      /\ \A k \in 0 .. v - 1 : rdata_q[k].addr = WordAt(k) /\ rdata_q[k].fresh
      /\ \A k \in 1 .. Len(bus) : bus[k].fresh = (k > s)
      /\ \A k \in s + 1 .. Len(bus) : bus[k].addr = WordAt(v + (k - s - 1))
      /\ kept => offered.addr = WordAt(n)
      /\ fetch_addr_q \div 2 = WordAt(IF kept THEN n + 1 ELSE n)

InOrder == \E v \in 0 .. NUM_REQS + 1, s \in 0 .. Len(bus) : Aligned(v, s)

SInv == IInv /\ InOrder

----------------------------------------------------------------------------
(* Addresses wrap.                                                           *)
LEMMA ModUnique ==
  ASSUME NEW M \in Nat \ {0}, NEW q \in Nat, NEW r \in 0 .. M - 1
  PROVE  (M * q + r) % M = r /\ (M * q + r) \div M = q
<1> DEFINE x == M * q + r
<1>1. x \in Nat
  OBVIOUS
<1>2. x = M * (x \div M) + (x % M) /\ x \div M \in Nat /\ x % M \in 0 .. M - 1
  BY <1>1
<1> DEFINE d == x \div M
           e == x % M
<1>3. M * q + r = M * d + e /\ d \in Nat /\ e \in 0 .. M - 1
  BY <1>2
<1> HIDE DEF x, d, e
<1>4. CASE d = q
  BY <1>3, <1>4 DEF d, e, x
<1>5. CASE d < q
  <2>1. PICK k \in Nat : q = d + 1 + k
    <3>1. q - d - 1 \in Nat /\ q = d + 1 + (q - d - 1)
      BY <1>3, <1>5
    <3> QED BY <3>1
  <2>2. M * q = M * d + M + M * k /\ M * k >= 0
    BY <1>3, <2>1
  <2> QED BY <1>3, <2>2
<1>6. CASE q < d
  <2>1. PICK k \in Nat : d = q + 1 + k
    <3>1. d - q - 1 \in Nat /\ d = q + 1 + (d - q - 1)
      BY <1>3, <1>6
    <3> QED BY <3>1
  <2>2. M * d = M * q + M + M * k /\ M * k >= 0
    BY <1>3, <2>1
  <2> QED BY <1>3, <2>2
<1> QED BY <1>3, <1>4, <1>5, <1>6

LEMMA Wrapping ==
  /\ NumWords \in Nat \ {0} /\ NumHalves = 2 * NumWords
  /\ \A x, n \in Nat : ((x % NumWords) + n) % NumWords = (x + n) % NumWords
  /\ \A x \in Nat : (x % NumHalves) \div 2 = (x \div 2) % NumWords
  /\ \A x \in Nat : /\ (2 * x) % NumHalves = 2 * (x % NumWords)
                    /\ (2 * x + 1) % NumHalves = 2 * (x % NumWords) + 1
  /\ \A x \in Halves : x % NumHalves = x /\ x \div 2 \in 0 .. NumWords - 1
<1>1. NumHalves = 2 * NumWords /\ NumWords \in Nat \ {0}
  BY NumHalvesAssumption DEF NumWords
<1> DEFINE M == NumWords
<1>2. M \in Nat \ {0} /\ NumHalves = 2 * M
  BY <1>1
<1> HIDE DEF M
<1>3. ASSUME NEW x \in Nat
      PROVE  \E q \in Nat, r \in 0 .. M - 1 : x = M * q + r /\ x % M = r
  <2>1. x = M * (x \div M) + (x % M) /\ x \div M \in Nat /\ x % M \in 0 .. M - 1
    BY <1>2
  <2> QED BY <2>1
<1>4. ASSUME NEW x \in Nat, NEW n \in Nat
      PROVE  ((x % M) + n) % M = (x + n) % M
  <2>1. PICK q \in Nat, r \in 0 .. M - 1 : x = M * q + r /\ x % M = r
    BY <1>3
  <2>2. r + n \in Nat
    BY <1>2
  <2>3. PICK p \in Nat, t \in 0 .. M - 1 : r + n = M * p + t /\ (r + n) % M = t
    BY <1>3, <2>2
  <2>4. x + n = M * (q + p) + t /\ q + p \in Nat
    BY <1>2, <2>1, <2>3
  <2>5. (M * (q + p) + t) % M = t
    BY <1>2, <2>4, ModUnique
  <2> QED BY <2>1, <2>3, <2>4, <2>5
<1>5. ASSUME NEW x \in Nat
      PROVE  /\ (2 * x) % NumHalves = 2 * (x % M)
             /\ (2 * x + 1) % NumHalves = 2 * (x % M) + 1
  <2>1. PICK q \in Nat, r \in 0 .. M - 1 : x = M * q + r /\ x % M = r
    BY <1>3
  <2>2. /\ 2 * r \in 0 .. NumHalves - 1 /\ 2 * r + 1 \in 0 .. NumHalves - 1
        /\ NumHalves \in Nat \ {0}
    BY <1>2
  <2>3. (NumHalves * q + 2 * r) % NumHalves = 2 * r
    BY <2>2, ModUnique
  <2>4. (NumHalves * q + (2 * r + 1)) % NumHalves = 2 * r + 1
    BY <2>2, ModUnique
  <2>5. 2 * x = NumHalves * q + 2 * r /\ 2 * x + 1 = NumHalves * q + (2 * r + 1)
    BY <1>2, <2>1
  <2> QED BY <2>1, <2>3, <2>4, <2>5
<1>6. ASSUME NEW x \in Nat
      PROVE  (x % NumHalves) \div 2 = (x \div 2) % M
  <2>1. x \div 2 \in Nat /\ (x = 2 * (x \div 2) \/ x = 2 * (x \div 2) + 1)
    OBVIOUS
  <2>2. PICK h \in Nat : h = x \div 2 /\ (x = 2 * h \/ x = 2 * h + 1)
    BY <2>1
  <2>3. x % NumHalves = 2 * (h % M) \/ x % NumHalves = 2 * (h % M) + 1
    BY <1>5, <2>2
  <2>4. PICK q \in Nat, r \in 0 .. M - 1 : h = M * q + r /\ h % M = r
    BY <1>3
  <2>5. (2 * r) \div 2 = r /\ (2 * r + 1) \div 2 = r
    BY <1>2
  <2> QED BY <2>2, <2>3, <2>4, <2>5
<1>7. ASSUME NEW x \in Halves
      PROVE  x % NumHalves = x /\ x \div 2 \in 0 .. M - 1
  BY <1>2, NumHalvesAssumption DEF Halves
<1> QED BY <1>1, <1>4, <1>5, <1>6, <1>7 DEF M

(* How far an edge moves the output: by a word exactly when the FIFO pops.   *)
LEMMA Advance ==
  ASSUME IInv, NEW i \in Input, Cycle(i), ~i.branch,
         NEW p, p = IF pop_fifo(fifo_valid(i), InWord(i), i.ready) THEN 1 ELSE 0
  PROVE  \A n \in Nat : WordFrom(instr_addr_q', n) = WordAt(n + p)
<1> DEFINE a == instr_addr_q
           h == instr_addr_q \div 2
           w == InWord(i)
           taken == i.ready /\ out_valid_o(fifo_valid(i), w)
<1>1. a \in Halves /\ a \in Nat /\ h \in Nat /\ h \in 0 .. NumWords - 1
  <2>1. a \in Halves
    BY DEF IInv, TypeOK, FifoTypeOK
  <2>2. a \in Nat
    BY <2>1 DEF Halves
  <2> QED BY <2>1, <2>2, Wrapping
<1>2. instr_addr_q' \div 2 = (h + p) % NumWords
  <2>1. CASE taken
    <3> DEFINE d == IF addr_incr_two(w) THEN 1 ELSE 2
    <3>1. instr_addr_q' = (a + d) % NumHalves
      BY <2>1 DEF Cycle, FifoCycle, instr_addr_d
    <3>2. a + d \in Nat
      BY <1>1
    <3>3. instr_addr_q' \div 2 = ((a + d) \div 2) % NumWords
      BY <3>1, <3>2, Wrapping
    <3>4. (a + d) \div 2 = h + p
      <4>1. CASE Unaligned
        <5>1. p = 1
          BY <2>1, <4>1 DEF pop_fifo
        <5>2. a % 2 = 1
          BY <4>1 DEF Unaligned
        <5>3. d = 1 \/ d = 2
          OBVIOUS
        <5> HIDE DEF d
        <5> QED BY <1>1, <5>1, <5>2, <5>3
      <4>2. CASE ~Unaligned
        <5>1. a % 2 = 0
          BY <1>1, <4>2 DEF Unaligned
        <5>2. (d = 1 /\ p = 0) \/ (d = 2 /\ p = 1)
          BY <2>1, <4>2 DEF pop_fifo, addr_incr_two
        <5> HIDE DEF d
        <5> QED BY <1>1, <5>1, <5>2
      <4> QED BY <4>1, <4>2
    <3> QED BY <3>3, <3>4
  <2>2. CASE ~taken
    <3>1. p = 0 /\ instr_addr_q' = a
      BY <2>2 DEF pop_fifo, Cycle, FifoCycle
    <3>2. h % NumWords = h
      BY <1>1, Wrapping
    <3> QED BY <1>1, <3>1, <3>2
  <2> QED BY <2>1, <2>2
<1>3. p \in Nat
  OBVIOUS
<1> HIDE DEF h
<1>4. ASSUME NEW n \in Nat
      PROVE  (((h + p) % NumWords) + n) % NumWords = (h + (n + p)) % NumWords
  <2>1. h + p \in Nat
    BY <1>1, <1>3
  <2>2. (((h + p) % NumWords) + n) % NumWords = ((h + p) + n) % NumWords
    BY <2>1, Wrapping
  <2>3. (h + p) + n = h + (n + p)
    BY <1>1, <1>3
  <2> QED BY <2>2, <2>3
<1> QED BY <1>2, <1>4 DEF WordAt, WordFrom, h

(* Where the next request goes.                                              *)
LEMMA NextFetch ==
  ASSUME IInv, NEW i \in Input, Cycle(i)
  PROVE  LET new == valid_new_req(i) /\ ~valid_req_q
             from == IF i.branch THEN i.target \div 2 ELSE fetch_addr_q \div 2
         IN  fetch_addr_q' \div 2 = IF new THEN (from + 1) % NumWords ELSE from
<1> DEFINE new == valid_new_req(i) /\ ~valid_req_q
           from == IF i.branch THEN i.target \div 2 ELSE fetch_addr_q \div 2
           base == IF i.branch THEN i.target ELSE 2 * (fetch_addr_q \div 2)
<1>1. fetch_addr_q \in Halves /\ i.target \in Halves /\ i.branch \in BOOLEAN
  BY InputFields DEF IInv, TypeOK
<1>2. fetch_addr_q \in Nat /\ i.target \in Nat
  BY <1>1 DEF Halves
<1>3. base \in Nat /\ base \div 2 = from /\ from \in Nat
  <2>1. CASE i.branch
    BY <1>2, <2>1
  <2>2. CASE ~i.branch
    BY <1>2, <2>2
  <2> QED BY <2>1, <2>2
<1>4. CASE new
  <2>1. fetch_addr_q' = (base + 2) % NumHalves
    BY <1>4 DEF Cycle, Registers, fetch_addr_d
  <2> HIDE DEF base, from
  <2>2. base + 2 \in Nat /\ (base + 2) \div 2 = from + 1
    BY <1>3
  <2>3. fetch_addr_q' \div 2 = (from + 1) % NumWords
    BY <2>1, <2>2, Wrapping
  <2> QED BY <1>4, <2>3 DEF from
<1>5. CASE ~new /\ i.branch
  <2>1. fetch_addr_q' = (i.target + 0) % NumHalves
    BY <1>5 DEF Cycle, Registers, fetch_addr_d
  <2>2. i.target + 0 = i.target
    BY <1>2
  <2>3. fetch_addr_q' = i.target
    BY <1>1, <2>1, <2>2, Wrapping
  <2> QED BY <1>5, <2>3
<1>6. CASE ~new /\ ~i.branch
  BY <1>6 DEF Cycle, Registers
<1> QED BY <1>4, <1>5, <1>6

(* The answer to the oldest request goes on from the end of the FIFO.        *)
LEMMA Oldest ==
  ASSUME IInv, NEW i \in Input, Bus(i),
         NEW v \in 0 .. NUM_REQS + 1, NEW s \in 0 .. Len(bus), Aligned(v, s)
  PROVE  /\ Len(bus) \in Nat
         /\ i.rvalid => Len(bus) >= 1 /\ (fifo_valid(i) <=> s = 0)
         /\ fifo_valid(i) => /\ i.rvalid /\ v <= NUM_REQS
                             /\ InWord(i).addr = WordAt(v) /\ InWord(i).fresh
<1> USE NumReqsAssumption
<1>1. Len(bus) \in Nat /\ bus \in Seq(Request)
  BY LenProperties DEF IInv, TypeOK
<1>2. fifo_valid(i) => i.rvalid
  BY DEF fifo_valid
<1>3. ASSUME i.rvalid
      PROVE  /\ Len(bus) >= 1 /\ (fifo_valid(i) <=> s = 0)
             /\ fifo_valid(i) => v <= NUM_REQS /\ InWord(i).addr = WordAt(v) /\ InWord(i).fresh
  <2>1. bus # <<>> /\ Len(bus) >= 1
    BY <1>1, <1>3, EmptySeq DEF Bus
  <2>2. Head(bus) = bus[1]
    BY <1>1, <2>1, HeadTailProperties
  <2>3. 1 \in 1 .. Len(bus) /\ 0 \in Reqs
    BY <1>1, <2>1 DEF Reqs
  <2>4. bus[1].fresh = (1 > s)
    BY <2>3 DEF Aligned
  <2>5. 0 \in branch_discard_q <=> ~bus[1].fresh
    BY <1>1, <2>1, <2>3 DEF IInv, DiscardsWhatIsStale, DiscardsAreOutstanding
  <2>6a. bus[1].fresh <=> s = 0
    <3>1. (1 > s) <=> (s = 0)
      OBVIOUS
    <3> QED BY <2>4, <3>1
  <2>6. fifo_valid(i) <=> s = 0
    <3>1. bus[1].fresh <=> s = 0
      BY <2>6a
    <3> QED BY <1>3, <2>5, <3>1 DEF fifo_valid
  <2>7. ASSUME fifo_valid(i) PROVE v <= NUM_REQS /\ InWord(i).addr = WordAt(v) /\ InWord(i).fresh
    <3>1. s = 0
      BY <2>6, <2>7
    <3>2. bus[1].addr = WordAt(v)
      <4>1. bus[1].addr = WordAt(v + (1 - s - 1))
        BY <2>3, <3>1 DEF Aligned
      <4>2. v + (1 - s - 1) = v
        BY <3>1
      <4> QED BY <4>1, <4>2
    <3>3. InWord(i).addr = bus[1].addr
      BY <2>1, <2>2 DEF InWord
    <3>4. InWord(i).fresh
      <4>1. bus[1].fresh
        BY <2>6a, <3>1
      <4> QED BY <1>3, <2>2, <4>1 DEF InWord
    <3>5. v <= NUM_REQS
      <4>1. CASE v = 0
        BY <4>1
      <4>2. CASE v # 0
        <5>1. v - 1 \in valid_q
          BY <4>2 DEF Aligned
        <5>2. Pending \in Nat
          BY DEF Pending
        <5>3. (v - 1) + Len(bus) + Pending <= NUM_REQS
          BY <5>1 DEF IInv, RoomForAll
        <5> QED BY <1>1, <2>1, <5>2, <5>3
      <4> QED BY <4>1, <4>2
    <3> QED BY <3>2, <3>3, <3>4, <3>5
  <2> QED BY <2>1, <2>6, <2>7
<1> QED BY <1>1, <1>2, <1>3

(* Without a redirect, the FIFO takes the answer behind its last entry and   *)
(* gives up the first one when it pops.                                      *)
LEMMA StepEntries ==
  ASSUME IInv, NEW i \in Input, Cycle(i), ~i.branch,
         NEW v \in 0 .. NUM_REQS + 1, NEW s \in 0 .. Len(bus), Aligned(v, s),
         NEW p, p = IF pop_fifo(fifo_valid(i), InWord(i), i.ready) THEN 1 ELSE 0,
         NEW q, q = IF fifo_valid(i) THEN 1 ELSE 0
  PROVE  /\ v + q - p \in 0 .. NUM_REQS + 1
         /\ valid_q' = 0 .. (v + q - p) - 1
         /\ \A k \in 0 .. (v + q - p) - 1 :
              rdata_q'[k].addr = WordAt(k + p) /\ rdata_q'[k].fresh
<1> USE NumReqsAssumption
<1> DEFINE w == InWord(i)
           pop == pop_fifo(fifo_valid(i), w, i.ready)
           pushed == valid_pushed(fifo_valid(i))
           d == rdata_d(fifo_valid(i), w, pop)
<1>1. /\ p \in {0, 1} /\ q \in {0, 1} /\ (p = 1 <=> pop) /\ (q = 1 <=> fifo_valid(i))
      /\ v \in Nat /\ v <= NUM_REQS + 1
  OBVIOUS
<1>2. /\ valid_q = 0 .. v - 1
      /\ \A k \in 0 .. v - 1 : rdata_q[k].addr = WordAt(k) /\ rdata_q[k].fresh
  BY DEF Aligned
<1>3. q = 1 => v <= NUM_REQS /\ w.addr = WordAt(v) /\ w.fresh
  BY <1>1, Oldest DEF Cycle
<1>4. v <= NUM_REQS => lowest_free_entry = {v}
  <2> SUFFICES ASSUME v <= NUM_REQS, NEW k \in Int
               PROVE  k \in lowest_free_entry <=> k = v
    BY <1>1 DEF lowest_free_entry, Entries
  <2>1. k \in lowest_free_entry <=> /\ k \in 0 .. NUM_REQS /\ k \notin 0 .. v - 1
                                    /\ k = 0 \/ k - 1 \in 0 .. v - 1
    BY <1>2 DEF lowest_free_entry, Entries
  <2> QED BY <1>1, <2>1
<1>5. pushed = 0 .. v + q - 1
  <2>1. CASE fifo_valid(i)
    <3>1. q = 1 /\ pushed = (0 .. v - 1) \cup {v}
      BY <1>1, <1>2, <1>3, <1>4, <2>1 DEF valid_pushed
    <3> HIDE DEF pushed
    <3> QED BY <1>1, <3>1
  <2>2. CASE ~fifo_valid(i)
    <3>1. q = 0 /\ pushed = 0 .. v - 1
      BY <1>1, <1>2, <2>2 DEF valid_pushed
    <3>2. v + q - 1 = v - 1
      BY <1>1, <3>1
    <3> QED BY <3>1, <3>2
  <2> QED BY <2>1, <2>2
<1>6. p = 1 => v + q >= 1
  <2>1. pop => 0 \in valid_q \/ 1 \in valid_q \/ fifo_valid(i)
    BY DEF pop_fifo, out_valid_o
  <2> HIDE DEF pop
  <2> QED BY <1>1, <1>2, <2>1
<1>7. v + q <= NUM_REQS + 1
  BY <1>1, <1>3
<1>8. v + q - p \in 0 .. NUM_REQS + 1
  BY <1>1, <1>6, <1>7
<1>9. valid_q' = 0 .. (v + q - p) - 1
  <2> HIDE DEF pushed, pop
  <2>1. valid_q' = IF pop THEN {k \in Entries : k + 1 \in pushed} ELSE pushed
    BY DEF Cycle, FifoCycle, valid_popped, pop, pushed
  <2>2. CASE pop
    <3>1. p = 1
      BY <1>1, <2>2
    <3>2. valid_q' = {k \in 0 .. NUM_REQS : k + 1 \in 0 .. v + q - 1}
      BY <1>5, <2>1, <2>2 DEF Entries
    <3>3. {k \in 0 .. NUM_REQS : k + 1 \in 0 .. v + q - 1} = 0 .. (v + q - p) - 1
      BY <1>1, <1>7, <3>1
    <3> QED BY <3>2, <3>3
  <2>3. CASE ~pop
    <3>1. p = 0
      BY <1>1, <2>3
    <3>2. (v + q - p) - 1 = v + q - 1
      BY <1>1, <3>1
    <3> QED BY <1>5, <2>1, <2>3, <3>2
  <2> QED BY <2>2, <2>3
<1>10. ASSUME NEW k \in 0 .. (v + q - p) - 1
       PROVE  rdata_q'[k].addr = WordAt(k + p) /\ rdata_q'[k].fresh
  <2>1. k \in Nat /\ k \in Entries /\ k < v + q - p
    BY <1>1, <1>8 DEF Entries
  <2>2. rdata_q'[k] = [d[k] EXCEPT !.fresh = @ /\ ~i.branch]
    BY <1>9, <2>1 DEF Cycle, FifoCycle
  <2>3. d[k] = IF \/ pop /\ k + 1 \in pushed
                  \/ fifo_valid(i) /\ k \in lowest_free_entry /\ (~pop \/ k = NUM_REQS)
                 THEN IF k + 1 \in valid_q THEN rdata_q[k + 1] ELSE w
                 ELSE rdata_q[k]
    BY <2>1 DEF rdata_d
  <2> HIDE DEF d, pop, pushed
  <2>4. d[k] \in Word /\ d[k].addr = WordAt(k + p) /\ d[k].fresh
    <3>0. /\ w \in Word /\ \A j \in Entries : rdata_q[j] \in Word
      BY InWordType DEF Cycle, IInv, TypeOK, FifoTypeOK
    <3>1. CASE pop /\ k + 1 < v
      <4>1. p = 1 /\ k + 1 \in pushed /\ k + 1 \in valid_q /\ k + 1 \in 0 .. v - 1 /\ k + 1 \in Entries
        BY <1>1, <1>2, <1>5, <2>1, <3>1 DEF Entries
      <4> QED BY <1>2, <2>3, <3>0, <3>1, <4>1
    <3>2. CASE pop /\ ~(k + 1 < v)
      <4>1. p = 1 /\ q = 1 /\ k + 1 = v
        BY <1>1, <2>1, <3>2
      <4>2. k + 1 \in pushed /\ k + 1 \notin valid_q
        BY <1>1, <1>2, <1>5, <2>1, <4>1
      <4> QED BY <1>3, <2>3, <3>0, <3>2, <4>1, <4>2
    <3>3. CASE ~pop /\ k < v
      <4>1. p = 0 /\ k + p = k /\ k \in 0 .. v - 1
        BY <1>1, <2>1, <3>3
      <4>2. ~(fifo_valid(i) /\ k \in lowest_free_entry)
        BY <1>1, <1>3, <1>4, <3>3
      <4> QED BY <1>2, <2>1, <2>3, <3>0, <3>3, <4>1, <4>2
    <3>4. CASE ~pop /\ ~(k < v)
      <4>1. p = 0 /\ q = 1 /\ k = v /\ k + p = v
        BY <1>1, <2>1, <3>4
      <4>2. fifo_valid(i) /\ k \in lowest_free_entry /\ k + 1 \notin valid_q
        BY <1>1, <1>2, <1>3, <1>4, <4>1
      <4> QED BY <1>3, <2>3, <3>0, <3>4, <4>1, <4>2
    <3> QED BY <3>1, <3>2, <3>3, <3>4
  <2> QED BY <2>2, <2>4 DEF Word
<1> QED BY <1>8, <1>9, <1>10

(* Without a redirect, a request that is not stale asks for the next word,   *)
(* and one that is stale is behind stale ones only.                          *)
LEMMA Asked ==
  ASSUME IInv, NEW i \in Input, ~i.branch,
         NEW v \in 0 .. NUM_REQS + 1, NEW s \in 0 .. Len(bus), Aligned(v, s)
  PROVE  /\ request(i).fresh \in BOOLEAN
         /\ request(i).fresh => request(i).addr = WordAt(v + Len(bus) - s)
         /\ ~request(i).fresh => valid_req_q /\ s = Len(bus)
         /\ valid_req_q => request(i).fresh = offered.fresh
<1> DEFINE n == v + Len(bus) - s
<1>1. Len(bus) \in Nat /\ instr_addr(i) = (IF valid_req_q THEN stored_addr_q ELSE fetch_addr_q)
  BY LenProperties DEF IInv, TypeOK, instr_addr
<1>2. /\ request(i).fresh = (valid_req_q => offered.fresh /\ ~i.branch)
      /\ request(i).addr = instr_addr(i) \div 2
  BY DEF request
<1>3. CASE valid_req_q
  <2>1. /\ offered.fresh \in BOOLEAN /\ offered.addr = stored_addr_q \div 2
        /\ discard_req_q = ~offered.fresh
        /\ discard_req_q => \A k \in 1 .. Len(bus) : ~bus[k].fresh
    BY <1>3 DEF IInv, OfferedIsHeld, Request
  <2>2. request(i).fresh = offered.fresh
    BY <1>2, <1>3, <2>1
  <2>3. request(i).fresh => request(i).addr = WordAt(n)
    BY <1>1, <1>2, <1>3, <2>1, <2>2 DEF Aligned
  <2>4. ASSUME ~request(i).fresh PROVE s = Len(bus)
    <3>1. \A k \in 1 .. Len(bus) : ~bus[k].fresh
      BY <2>1, <2>2, <2>4
    <3>2. \A k \in 1 .. Len(bus) : bus[k].fresh = (k > s)
      BY DEF Aligned
    <3>3. \A k \in 1 .. Len(bus) : ~(k > s)
      BY <3>1, <3>2
    <3> QED BY <1>1, <3>3
  <2> QED BY <1>3, <2>1, <2>2, <2>3, <2>4
<1>4. CASE ~valid_req_q
  <2>1. request(i).fresh
    BY <1>2, <1>4
  <2>2. request(i).fresh \in BOOLEAN
    BY <1>2
  <2>3. request(i).addr = WordAt(n)
    BY <1>1, <1>2, <1>4 DEF Aligned
  <2> QED BY <1>4, <2>1, <2>2, <2>3
<1> QED BY <1>3, <1>4

LEMMA StepStraight ==
  ASSUME IInv, NEW i \in Input, Cycle(i), ~i.branch,
         NEW v \in 0 .. NUM_REQS + 1, NEW s \in 0 .. Len(bus), Aligned(v, s)
  PROVE  InOrder'
<1> USE NumReqsAssumption, InputFields
<1> DEFINE L == Len(bus)
           n == v + Len(bus) - s
           asked == valid_req(i) /\ request(i).fresh
<1>1. PICK p \in {0, 1} : p = IF pop_fifo(fifo_valid(i), InWord(i), i.ready) THEN 1 ELSE 0
  OBVIOUS
<1>2. PICK q \in {0, 1} : q = IF fifo_valid(i) THEN 1 ELSE 0
  OBVIOUS
<1>3. PICK a \in {0, 1} : a = IF i.rvalid THEN 1 ELSE 0
  OBVIOUS
<1>4. PICK g \in {0, 1} : g = IF granted(i) THEN 1 ELSE 0
  OBVIOUS
<1>5. PICK v1 \in 0 .. NUM_REQS + 1 :
        /\ v1 = v + q - p
        /\ valid_q' = 0 .. v1 - 1
        /\ \A k \in 0 .. v1 - 1 : rdata_q'[k].addr = WordAt(k + p) /\ rdata_q'[k].fresh
  <2>1. /\ v + q - p \in 0 .. NUM_REQS + 1
        /\ valid_q' = 0 .. (v + q - p) - 1
        /\ \A k \in 0 .. (v + q - p) - 1 :
             rdata_q'[k].addr = WordAt(k + p) /\ rdata_q'[k].fresh
    BY <1>1, <1>2, StepEntries
  <2> DEFINE x == v + q - p
  <2> HIDE DEF x
  <2>2. /\ x \in 0 .. NUM_REQS + 1
        /\ valid_q' = 0 .. x - 1
        /\ \A k \in 0 .. x - 1 : rdata_q'[k].addr = WordAt(k + p) /\ rdata_q'[k].fresh
    BY <2>1 DEF x
  <2> QED BY <2>2 DEF x
<1>6. /\ L \in Nat /\ a <= L /\ Len(bus') = L - a + g
      /\ \A k \in 1 .. L - a : /\ bus'[k].fresh = (bus[k + a].fresh /\ ~i.branch)
                               /\ bus'[k].addr = bus[k + a].addr
      /\ granted(i) => bus'[L - a + 1] = request(i)
  BY <1>3, <1>4, BusStep, LenProperties DEF IInv, TypeOK, Cycle
<1>7. /\ request(i).fresh \in BOOLEAN
      /\ request(i).fresh => request(i).addr = WordAt(n)
      /\ ~request(i).fresh => valid_req_q /\ s = L
      /\ valid_req_q => request(i).fresh = offered.fresh
  BY Asked
<1>8. q = 1 <=> a = 1 /\ s = 0
  BY <1>2, <1>3, Oldest DEF Cycle
<1> DEFINE W1(m) == WordFrom(instr_addr_q', m)
<1>9. \A m \in Nat : W1(m) = WordAt(m + p)
  BY <1>1, Advance
<1>10. g = 1 <=> granted(i)
  BY <1>4
<1> DEFINE stale == granted(i) /\ ~request(i).fresh
<1>11. PICK s1 \in 0 .. Len(bus') : s1 = IF stale THEN L - a + g ELSE s - a + q
  <2>1. (IF stale THEN L - a + g ELSE s - a + q) \in 0 .. Len(bus')
    BY <1>6, <1>8
  <2> QED BY <2>1
<1> DEFINE n1 == v1 + Len(bus') - s1
<1>12. n \in Nat /\ n1 \in Nat /\ n1 + p = n + (IF granted(i) /\ request(i).fresh THEN 1 ELSE 0)
  <2>1. CASE stale
    <3>1. q = 0 /\ s = L /\ s1 = L - a + g
      BY <1>6, <1>7, <1>8, <1>11, <2>1
    <3>2. ~(granted(i) /\ request(i).fresh)
      BY <2>1
    <3>3. n1 = v1 /\ n = v
      BY <1>6, <3>1
    <3> HIDE DEF n1, n
    <3> QED BY <1>5, <3>1, <3>2, <3>3
  <2>2. CASE ~stale
    <3>1. s1 = s - a + q
      BY <1>11, <2>2
    <3>2. g = IF granted(i) /\ request(i).fresh THEN 1 ELSE 0
      BY <1>7, <1>10, <2>2
    <3>3. n1 + p = n + g /\ n \in Nat
      BY <1>5, <1>6, <3>1
    <3>4. n1 \in Nat
      BY <1>5, <1>6, <1>11
    <3> QED BY <3>2, <3>3, <3>4
  <2> QED BY <2>1, <2>2
<1> HIDE DEF n1, n
<1>13. \A k \in 1 .. Len(bus') : bus'[k].fresh = (k > s1)
  <2> SUFFICES ASSUME NEW k \in 1 .. Len(bus') PROVE bus'[k].fresh = (k > s1)
    OBVIOUS
  <2>1. CASE k <= L - a
    <3>1. k \in 1 .. L - a /\ k + a \in 1 .. L
      BY <1>6, <2>1
    <3>2. bus[k + a].fresh = (k + a > s)
      BY <3>1 DEF Aligned
    <3>3. bus'[k].fresh = (k + a > s)
      <4>1. bus'[k].fresh = ((k + a > s) /\ ~i.branch)
        BY <1>6, <3>1, <3>2
      <4>2. CASE k + a > s
        BY <4>1, <4>2
      <4>3. CASE ~(k + a > s)
        BY <4>1, <4>3
      <4> QED BY <4>2, <4>3
    <3>4. (k + a > s) <=> (k > s1)
      <4>1. CASE stale
        BY <1>6, <1>7, <1>11, <3>1, <4>1
      <4>2. CASE ~stale
        BY <1>6, <1>8, <1>11, <3>1, <4>2
      <4> QED BY <4>1, <4>2
    <3> QED BY <3>3, <3>4
  <2>2. CASE ~(k <= L - a)
    <3>1. g = 1 /\ k = L - a + 1 /\ Len(bus') = L - a + 1
      BY <1>6, <2>2
    <3>2. granted(i) /\ bus'[k] = request(i)
      BY <1>6, <1>10, <3>1
    <3>3. CASE request(i).fresh
      <4>1. s1 = s - a + q /\ k > s1
        BY <1>6, <1>8, <1>11, <3>1, <3>3
      <4> QED BY <1>7, <3>2, <3>3, <4>1
    <3>4. CASE ~request(i).fresh
      <4>1. s1 = L - a + g /\ ~(k > s1)
        BY <1>6, <1>11, <3>1, <3>2, <3>4
      <4> QED BY <1>7, <3>2, <3>4, <4>1
    <3> QED BY <3>3, <3>4
  <2> QED BY <2>1, <2>2
<1>14. \A k \in s1 + 1 .. Len(bus') : bus'[k].addr = W1(v1 + (k - s1 - 1))
  <2> SUFFICES ASSUME NEW k \in s1 + 1 .. Len(bus')
               PROVE  bus'[k].addr = W1(v1 + (k - s1 - 1))
    OBVIOUS
  <2>0. /\ ~stale /\ s1 = s - a + q /\ k \in Nat /\ k >= s1 + 1
        /\ k <= L - a + g /\ Len(bus') = L - a + g
    BY <1>6, <1>11
  <2>1. W1(v1 + (k - s1 - 1)) = WordAt((v1 + (k - s1 - 1)) + p)
    <3>1. v1 + (k - s1 - 1) \in Nat
      BY <2>0
    <3> HIDE DEF W1
    <3> QED BY <1>9, <3>1
  <2>2. CASE k <= L - a
    <3>1. k \in 1 .. L - a /\ k + a \in s + 1 .. L
      BY <1>6, <1>8, <2>0, <2>2
    <3>2. bus'[k].addr = bus[k + a].addr
      BY <1>6, <3>1
    <3>3. bus[k + a].addr = WordAt(v + ((k + a) - s - 1))
      BY <3>1 DEF Aligned
    <3>4. v + ((k + a) - s - 1) = (v1 + (k - s1 - 1)) + p
      BY <1>5, <1>6, <2>0
    <3> QED BY <2>1, <3>2, <3>3, <3>4
  <2>3. CASE ~(k <= L - a)
    <3>1. g = 1 /\ k = L - a + 1
      BY <1>6, <2>0, <2>3
    <3>2. granted(i) /\ bus'[k] = request(i) /\ request(i).fresh
      BY <1>6, <1>10, <2>0, <3>1
    <3>3. request(i).addr = WordAt(v + L - s)
      BY <1>7, <3>2 DEF n
    <3>4. v + L - s = (v1 + (k - s1 - 1)) + p
      BY <1>5, <1>6, <2>0, <3>1
    <3> QED BY <2>1, <3>2, <3>3, <3>4
  <2> QED BY <2>2, <2>3
<1> DEFINE kept1 == valid_req_q' /\ offered'.fresh
<1>15. kept1 <=> asked /\ ~granted(i)
  BY DEF Cycle, Registers, Bus, granted
<1>16. kept1 => offered'.addr = W1(n1)
  <2> HIDE DEF W1
  <2> SUFFICES ASSUME kept1 PROVE offered'.addr = W1(n1)
    OBVIOUS
  <2>1. valid_req(i) /\ ~i.gnt /\ request(i).fresh /\ ~granted(i)
    BY <1>15 DEF granted
  <2>2. offered' = request(i)
    BY <2>1 DEF Cycle, Bus
  <2>3. n1 + p = n
    BY <1>12, <2>1
  <2>4. W1(n1) = WordAt(n)
    BY <1>9, <1>12, <2>3
  <2> QED BY <1>7, <2>1, <2>2, <2>4
<1>17. fetch_addr_q' \div 2 = W1(IF kept1 THEN n1 + 1 ELSE n1)
  <2> DEFINE new == valid_new_req(i) /\ ~valid_req_q
             kept == valid_req_q /\ offered.fresh
             at == IF kept1 THEN n1 + 1 ELSE n1
  <2>1. fetch_addr_q' \div 2 = IF new THEN (fetch_addr_q \div 2 + 1) % NumWords
                                    ELSE fetch_addr_q \div 2
    BY NextFetch DEF Cycle
  <2>2. fetch_addr_q \div 2 = WordAt(IF kept THEN n + 1 ELSE n)
    BY DEF Aligned, n
  <2>3. (WordAt(n) + 1) % NumWords = WordAt(n + 1)
    <3> DEFINE h == instr_addr_q \div 2
    <3>1. h \in Nat
      <4>1. instr_addr_q \in Nat
        BY DEF IInv, TypeOK, FifoTypeOK, Halves
      <4> QED BY <4>1
    <3> HIDE DEF h
    <3>2. h + n \in Nat /\ (h + n) + 1 = h + (n + 1)
      BY <1>12, <3>1
    <3>3. (((h + n) % NumWords) + 1) % NumWords = ((h + n) + 1) % NumWords
      BY <3>2, Wrapping
    <3> QED BY <3>2, <3>3 DEF WordAt, WordFrom, h
  <2>4. asked <=> kept \/ new
    BY <1>7 DEF valid_req
  <2>5. W1(at) = WordAt(IF asked THEN n + 1 ELSE n)
    <3>1. at \in Nat /\ at + p = IF asked THEN n + 1 ELSE n
      <4>1. granted(i) => valid_req(i)
        BY DEF granted
      <4> HIDE DEF kept1
      <4> QED BY <1>12, <1>15, <4>1
    <3> HIDE DEF W1, at
    <3> QED BY <1>9, <3>1
  <2> HIDE DEF W1, at
  <2>6. CASE new
    BY <2>1, <2>2, <2>3, <2>4, <2>5, <2>6 DEF at
  <2>7. CASE ~new
    BY <2>1, <2>2, <2>4, <2>5, <2>7 DEF at
  <2> QED BY <2>6, <2>7
<1>18. Aligned(v1, s1)'
  <2>1. \A k \in 0 .. v1 - 1 : rdata_q'[k].addr = W1(k) /\ rdata_q'[k].fresh
    <3> HIDE DEF W1
    <3>1. \A k \in 0 .. v1 - 1 : k \in Nat
      BY <1>5
    <3> QED BY <1>5, <1>9, <3>1
  <2>2. valid_q' = 0 .. v1 - 1
    BY <1>5
  <2>3. n1 = v1 + Len(bus') - s1
    BY DEF n1
  <2> QED BY <2>1, <2>2, <2>3, <1>13, <1>14, <1>16, <1>17 DEF Aligned, WordAt
<1> QED BY <1>5, <1>11, <1>18 DEF InOrder, Aligned, WordAt

(* After a redirect everything older is stale, and the words go on from its  *)
(* target: with the request made in the same cycle, or with the next one     *)
(* when an older request still waits for its grant.                          *)
LEMMA StepRedirect ==
  ASSUME IInv, NEW i \in Input, Cycle(i), i.branch
  PROVE  InOrder'
<1> USE InputFields
<1> DEFINE L == Len(bus)
           new == valid_new_req(i) /\ ~valid_req_q
           T == i.target \div 2
           W1(m) == WordFrom(instr_addr_q', m)
<1>0. PICK v1 \in 0 .. NUM_REQS + 1 : v1 = 0
  BY NumReqsAssumption
<1>1. PICK a \in {0, 1} : a = IF i.rvalid THEN 1 ELSE 0
  OBVIOUS
<1>2. PICK g \in {0, 1} : g = IF granted(i) THEN 1 ELSE 0
  OBVIOUS
<1>3. /\ L \in Nat /\ a <= L /\ Len(bus') = L - a + g
      /\ \A k \in 1 .. L - a : bus'[k].fresh = (bus[k + a].fresh /\ ~i.branch)
      /\ granted(i) => bus'[L - a + 1] = request(i)
  BY <1>1, <1>2, BusStep, LenProperties DEF IInv, TypeOK, Cycle
<1>4. /\ request(i).fresh <=> ~valid_req_q
      /\ request(i).fresh \in BOOLEAN
      /\ ~valid_req_q => request(i).addr = T
  BY DEF request, instr_addr
<1>5. /\ i.target \in Halves /\ i.target \in Nat /\ T \in Nat /\ T \in 0 .. NumWords - 1
  <2>1. i.target \in Halves
    OBVIOUS
  <2>2. i.target \in Nat
    BY <2>1 DEF Halves
  <2>3. T \in Nat
    BY <2>2
  <2>4. T \in 0 .. NumWords - 1
    BY <2>1, Wrapping
  <2> QED BY <2>1, <2>2, <2>3, <2>4
<1>6. instr_addr_q' = i.target /\ valid_q' = {}
  BY DEF Cycle, FifoCycle, instr_addr_d
<1>7. W1(0) = T /\ W1(1) = (T + 1) % NumWords
  <2>0. T \in 0 .. NumWords - 1 /\ NumWords \in Nat \ {0}
    BY <1>5, Wrapping
  <2> HIDE DEF T
  <2>1. T + 0 = T /\ T % NumWords = T
    BY <2>0
  <2> QED BY <1>6, <2>1 DEF WordFrom, T
<1>8. granted(i) /\ ~valid_req_q <=> new /\ i.gnt
  BY DEF granted, valid_req
<1>9. PICK s1 \in 0 .. Len(bus') : s1 = IF granted(i) /\ ~valid_req_q THEN L - a ELSE Len(bus')
  <2>1. (IF granted(i) /\ ~valid_req_q THEN L - a ELSE Len(bus')) \in 0 .. Len(bus')
    BY <1>2, <1>3
  <2> QED BY <2>1
<1>10. \A k \in 1 .. Len(bus') : bus'[k].fresh = (k > s1)
  <2> SUFFICES ASSUME NEW k \in 1 .. Len(bus') PROVE bus'[k].fresh = (k > s1)
    OBVIOUS
  <2>1. CASE k <= L - a
    <3>1. k \in 1 .. L - a /\ ~(k > s1)
      BY <1>3, <1>9, <2>1
    <3>2. bus'[k].fresh = FALSE
      BY <1>3, <3>1
    <3>3. (k > s1) = FALSE
      BY <3>1
    <3> QED BY <3>2, <3>3
  <2>2. CASE ~(k <= L - a)
    <3>1. g = 1 /\ k = L - a + 1 /\ Len(bus') = L - a + 1
      BY <1>3, <2>2
    <3>2. granted(i) /\ bus'[k] = request(i)
      BY <1>2, <1>3, <3>1
    <3>3. (k > s1) <=> ~valid_req_q
      BY <1>3, <1>9, <3>1, <3>2
    <3>4. CASE valid_req_q
      BY <1>4, <3>2, <3>3, <3>4
    <3>5. CASE ~valid_req_q
      BY <1>4, <3>2, <3>3, <3>5
    <3> QED BY <3>4, <3>5
  <2> QED BY <2>1, <2>2
<1>11. \A k \in s1 + 1 .. Len(bus') : bus'[k].addr = W1(v1 + (k - s1 - 1))
  <2> SUFFICES ASSUME NEW k \in s1 + 1 .. Len(bus')
               PROVE  bus'[k].addr = W1(v1 + (k - s1 - 1))
    OBVIOUS
  <2>1. granted(i) /\ ~valid_req_q /\ k = L - a + 1 /\ v1 + (k - s1 - 1) = 0
    BY <1>0, <1>2, <1>3, <1>9
  <2> HIDE DEF W1
  <2> QED BY <1>3, <1>4, <1>7, <2>1
<1> DEFINE kept1 == valid_req_q' /\ offered'.fresh
           n1 == v1 + Len(bus') - s1
<1>12. n1 = IF new /\ i.gnt THEN 1 ELSE 0
  <2> DEFINE m == Len(bus')
  <2>1. m \in Nat /\ L - a \in Nat /\ m = L - a + g
    BY <1>3
  <2>2. CASE new /\ i.gnt
    <3>1. g = 1 /\ s1 = L - a
      BY <1>2, <1>8, <1>9, <2>2
    <3> QED BY <1>0, <2>1, <2>2, <3>1
  <2>3. CASE ~(new /\ i.gnt)
    <3>1. s1 = m
      BY <1>8, <1>9, <2>3
    <3> QED BY <1>0, <2>1, <2>3, <3>1
  <2> QED BY <2>2, <2>3
<1>13. kept1 <=> new /\ ~i.gnt
  <2>1. valid_req_q' = (valid_req(i) /\ ~i.gnt)
    BY DEF Cycle, Registers
  <2>2. valid_req(i) /\ ~i.gnt => offered' = request(i)
    BY DEF Cycle, Bus
  <2> QED BY <1>4, <2>1, <2>2 DEF valid_req
<1>14. kept1 => offered'.addr = T
  BY <1>4, <1>13 DEF Cycle, Bus, valid_req
<1> HIDE DEF n1, W1
<1>15. kept1 => offered'.addr = W1(n1)
  BY <1>7, <1>12, <1>13, <1>14
<1>16. fetch_addr_q' \div 2 = W1(IF kept1 THEN n1 + 1 ELSE n1)
  <2>1. fetch_addr_q' \div 2 = IF new THEN (T + 1) % NumWords ELSE T
    BY NextFetch DEF Cycle
  <2> HIDE DEF new, kept1, T
  <2>2. (IF kept1 THEN n1 + 1 ELSE n1) = IF new THEN 1 ELSE 0
    BY <1>12, <1>13
  <2> QED BY <1>7, <2>1, <2>2
<1>17. Aligned(v1, s1)'
  <2>1. valid_q' = 0 .. v1 - 1 /\ \A k \in 0 .. v1 - 1 : FALSE
    BY <1>0, <1>6
  <2> QED BY <2>1, <1>10, <1>11, <1>15, <1>16 DEF Aligned, WordAt, W1, n1
<1> QED BY <1>0, <1>9, <1>17 DEF InOrder, Aligned, WordAt

LEMMA InitInOrder == Init => InOrder
<1> SUFFICES ASSUME Init PROVE InOrder
  OBVIOUS
<1> USE NumReqsAssumption DEF Init, FifoInit
<1>1. Len(bus) = 0
  BY EmptySeq
<1>2. WordAt(0) = 0
  <2>1. instr_addr_q \div 2 + 0 = 0 /\ 0 \in Nat /\ 0 \div 2 = 0
    OBVIOUS
  <2>2. 0 \in Halves /\ (0 % NumHalves) \div 2 = (0 \div 2) % NumWords
    BY Wrapping, HalfArithmetic
  <2>3. 0 % NumHalves = 0
    BY <2>2, Wrapping
  <2> QED BY <2>1, <2>2, <2>3 DEF WordAt, WordFrom
<1>3. Aligned(0, 0)
  <2>1. valid_q = 0 .. 0 - 1 /\ \A k \in 0 .. 0 - 1 : FALSE
    OBVIOUS
  <2>2. \A k \in 1 .. Len(bus) : FALSE
    BY <1>1
  <2>3. \A k \in 0 + 1 .. Len(bus) : FALSE
    BY <1>1
  <2>4. fetch_addr_q \div 2 = 0 /\ 0 + Len(bus) - 0 = 0
    BY <1>1
  <2> QED BY <1>2, <2>1, <2>2, <2>3, <2>4 DEF Aligned
<1> QED BY <1>1, <1>3 DEF InOrder

(* Everything buffered, outstanding or to be asked for next is where it has  *)
(* to be for instructions to come in program order.                          *)
THEOREM AlwaysInOrder == Spec => []SInv
<1>1. Init => SInv
  BY InitIInv, InitInOrder DEF SInv
<1>2. SInv /\ [Next]_vars => SInv'
  <2> SUFFICES ASSUME SInv, [Next]_vars PROVE SInv'
    OBVIOUS
  <2>1. IInv'
    BY StepIInv DEF SInv
  <2>2. CASE UNCHANGED vars
    <3>1. PICK v \in 0 .. NUM_REQS + 1, s \in 0 .. Len(bus) : Aligned(v, s)
      BY DEF SInv, InOrder
    <3>2. Aligned(v, s)'
      BY <2>2, <3>1 DEF Aligned, WordAt, vars, fifoVars
    <3>3. bus' = bus
      BY <2>2 DEF vars
    <3> QED BY <2>1, <3>1, <3>2, <3>3 DEF SInv, InOrder, Aligned, WordAt
  <2>3. CASE Next
    <3>1. PICK i \in Input : Cycle(i)
      BY <2>3 DEF Next
    <3>2. CASE i.branch
      BY <2>1, <3>1, <3>2, StepRedirect DEF SInv
    <3>3. CASE ~i.branch
      BY <2>1, <3>1, <3>3, StepStraight DEF SInv, InOrder
    <3> QED BY <3>2, <3>3
  <2> QED BY <2>2, <2>3
<1> QED BY <1>1, <1>2, PTL DEF Spec

----------------------------------------------------------------------------
(* The words at the output: the one the instruction starts in, and for an    *)
(* unaligned uncompressed one the word after it.                             *)
LEMMA OutputWords ==
  ASSUME IInv, NEW i \in Input, Bus(i),
         NEW v \in 0 .. NUM_REQS + 1, NEW s \in 0 .. Len(bus), Aligned(v, s),
         out_valid_o(fifo_valid(i), InWord(i))
  PROVE  LET w == InWord(i)
         IN  /\ HeadWord(w) \in Word /\ NextWord(w) \in Word /\ w \in Word
             /\ HeadWord(w).addr = WordAt(0) /\ HeadWord(w).fresh
             /\ 1 \in valid_q => 0 \in valid_q
             /\ Unaligned /\ ~unaligned_is_compressed(w) =>
                  /\ 0 \in valid_q
                  /\ NextWord(w).addr = WordAt(1) /\ NextWord(w).fresh
<1> USE NumReqsAssumption
<1> DEFINE w == InWord(i)
<1>1. /\ w \in Word /\ (0 \in valid_q => rdata_q[0] \in Word)
      /\ 1 \in valid_q => rdata_q[1] \in Word
  BY InWordType DEF IInv, TypeOK, FifoTypeOK, Entries
<1>2. /\ v \in Nat /\ valid_q = 0 .. v - 1
      /\ \A k \in 0 .. v - 1 : rdata_q[k].addr = WordAt(k) /\ rdata_q[k].fresh
  BY DEF Aligned
<1>3. fifo_valid(i) => w.addr = WordAt(v) /\ w.fresh
  BY Oldest
<1> HIDE DEF w
<1>4. HeadWord(w) \in Word /\ NextWord(w) \in Word
  BY <1>1 DEF HeadWord, NextWord
<1>5. 1 \in valid_q => 0 \in valid_q
  BY <1>2
<1>6. HeadWord(w).addr = WordAt(0) /\ HeadWord(w).fresh
  <2>1. CASE 0 \in valid_q
    BY <1>2, <2>1 DEF HeadWord
  <2>2. CASE 0 \notin valid_q
    <3>1. v = 0
      BY <1>2, <2>2
    <3>2. fifo_valid(i)
      BY <1>5, <2>2 DEF out_valid_o, w
    <3> QED BY <1>3, <2>2, <3>1, <3>2 DEF HeadWord
  <2> QED BY <2>1, <2>2
<1>7. ASSUME Unaligned, ~unaligned_is_compressed(w)
      PROVE  0 \in valid_q /\ NextWord(w).addr = WordAt(1) /\ NextWord(w).fresh
  <2>1. 1 \in valid_q \/ (0 \in valid_q /\ fifo_valid(i))
    BY <1>7 DEF out_valid_o, w
  <2>2. CASE 1 \in valid_q
    BY <1>2, <1>5, <2>2 DEF NextWord
  <2>3. CASE 1 \notin valid_q
    <3>1. v = 1 /\ fifo_valid(i)
      BY <1>2, <2>1, <2>3
    <3> QED BY <1>3, <2>1, <2>3, <3>1 DEF NextWord
  <2> QED BY <2>2, <2>3
<1> QED BY <1>1, <1>4, <1>5, <1>6, <1>7 DEF w

(* Well-formedness of an instruction of one halfword, and of two.            *)
LEMMA OneHalf ==
  ASSUME NEW x, NEW instr, instr.rdata = <<x>>, x.c, ~x.err, instr.err = FALSE,
         x.at = (instr.addr + 1 - 1) % NumHalves, x.fresh
  PROVE  Stream_!WellFormed(instr) /\ Len(instr.rdata) = 1
<1>1. Len(instr.rdata) = 1 /\ DOMAIN instr.rdata = {1} /\ instr.rdata[1] = x
  OBVIOUS
<1>2. instr.err = \E k \in DOMAIN instr.rdata : instr.rdata[k].err
  BY <1>1
<1> QED BY <1>1, <1>2 DEF Stream_!WellFormed

LEMMA TwoHalves ==
  ASSUME NEW x, NEW y, NEW instr, instr.rdata = <<x, y>>, ~(x.c /\ ~x.err),
         instr.err \in BOOLEAN, instr.plus2 \in BOOLEAN,
         instr.err <=> x.err \/ y.err, instr.err => (instr.plus2 <=> ~x.err),
         x.at = (instr.addr + 1 - 1) % NumHalves, x.fresh,
         y.at = (instr.addr + 2 - 1) % NumHalves, y.fresh
  PROVE  Stream_!WellFormed(instr) /\ Len(instr.rdata) = 2
<1>1. /\ Len(instr.rdata) = 2 /\ DOMAIN instr.rdata = {1, 2}
      /\ instr.rdata[1] = x /\ instr.rdata[2] = y
  OBVIOUS
<1>2. instr.err = \E k \in DOMAIN instr.rdata : instr.rdata[k].err
  BY <1>1
<1>3. instr.err => instr.plus2 = ~x.err
  OBVIOUS
<1> QED BY <1>1, <1>2, <1>3 DEF Stream_!WellFormed

(* An instruction is handed over whole, from its own address on, with its    *)
(* errors where they are.                                                    *)
LEMMA OutputInstruction ==
  ASSUME IInv, NEW i \in Input, Bus(i),
         NEW v \in 0 .. NUM_REQS + 1, NEW s \in 0 .. Len(bus), Aligned(v, s),
         out_valid_o(fifo_valid(i), InWord(i))
  PROVE  /\ Stream_!WellFormed(TakenInstruction(InWord(i)))
         /\ Len(TakenInstruction(InWord(i)).rdata)
              = IF addr_incr_two(InWord(i)) THEN 1 ELSE 2
<1> DEFINE w == InWord(i)
           H == HeadWord(w)
           N == NextWord(w)
           a == instr_addr_q
           h == instr_addr_q \div 2
           r == out_rdata_o(w)
           instr == TakenInstruction(w)
           compressed == r[1].c /\ ~r[1].err
<1>1. /\ H \in Word /\ N \in Word /\ w \in Word
      /\ H.addr = WordAt(0) /\ H.fresh
      /\ 1 \in valid_q => 0 \in valid_q
      /\ Unaligned /\ ~unaligned_is_compressed(w) =>
           0 \in valid_q /\ N.addr = WordAt(1) /\ N.fresh
  BY OutputWords
<1>2. a \in Halves /\ a \in Nat /\ h \in Nat /\ h \in 0 .. NumWords - 1
  <2>1. a \in Halves
    BY DEF IInv, TypeOK, FifoTypeOK
  <2>2. a \in Nat
    BY <2>1 DEF Halves
  <2> QED BY <2>1, <2>2, Wrapping
<1>3. WordAt(0) = h /\ WordAt(1) = (h + 1) % NumWords
  <2>1. h + 0 = h /\ h % NumWords = h
    <3>1. NumWords \in Nat \ {0}
      BY Wrapping
    <3> QED BY <1>2, <3>1
  <2> QED BY <2>1 DEF WordAt, WordFrom
<1>4. CASE Unaligned
  <2>1. r = <<Half(H, 1), Half(N, 0)>> /\ r[1] = Half(H, 1) /\ r[2] = Half(N, 0)
    BY <1>4 DEF out_rdata_o
  <2>2. /\ r[1].at = 2 * H.addr + 1 /\ r[1].fresh = H.fresh /\ r[1].c = H.c1 /\ r[1].err = H.err
        /\ r[2].at = 2 * N.addr + 0 /\ r[2].fresh = N.fresh /\ r[2].err = N.err
    BY <2>1 DEF Half
  <2>3. /\ compressed <=> unaligned_is_compressed(w)
        /\ addr_incr_two(w) <=> compressed
        /\ out_err_o(w) = err_unaligned(w) /\ out_err_plus2_o(w) = err_plus2(w)
    <3>1. unaligned_is_compressed(w) <=> H.c1 /\ ~H.err
      BY DEF unaligned_is_compressed
    <3>2. compressed <=> H.c1 /\ ~H.err
      BY <2>2
    <3>3. addr_incr_two(w) = unaligned_is_compressed(w)
      BY <1>4 DEF addr_incr_two
    <3>4. out_err_o(w) = err_unaligned(w)
      BY <1>4 DEF out_err_o
    <3>5. out_err_plus2_o(w) = err_plus2(w)
      BY <1>4 DEF out_err_plus2_o, err_plus2
    <3> QED BY <3>1, <3>2, <3>3, <3>4, <3>5
  <2>4. a % 2 = 1 /\ 2 * h + 1 = a
    BY <1>2, <1>4 DEF Unaligned
  <2>5. r[1].at = a
    BY <1>1, <1>3, <2>2, <2>4
  <2>6. CASE compressed
    <3>1. out_err_o(w) = FALSE
      <4>0. ~out_err_o(w) => out_err_o(w) = FALSE
        BY <2>3 DEF err_unaligned
      <4>1. unaligned_is_compressed(w) /\ ~H.err
        BY <2>2, <2>3, <2>6
      <4> QED BY <1>1, <2>3, <4>0, <4>1 DEF err_unaligned, HeadWord
    <3>2. instr.rdata = <<r[1]>> /\ instr.err = FALSE /\ instr.addr = a
      BY <2>6, <3>1 DEF TakenInstruction
    <3>3. r[1].at = (a + 1 - 1) % NumHalves
      <4>0. a % NumHalves = a
        BY <1>2, Wrapping
      <4>1. a % NumHalves = a /\ a + 1 - 1 = a
        BY <1>2, <4>0
      <4> QED BY <2>5, <4>1
    <3>4. Stream_!WellFormed(instr) /\ Len(instr.rdata) = 1
      <4> HIDE DEF r, instr
      <4> QED BY <1>1, <2>2, <2>6, <3>2, <3>3, OneHalf
    <3> QED BY <2>3, <2>6, <3>4
  <2>7. CASE ~compressed
    <3>1. ~unaligned_is_compressed(w) /\ 0 \in valid_q /\ N.addr = WordAt(1) /\ N.fresh
      BY <1>1, <1>4, <2>3, <2>7
    <3>2. H = rdata_q[0] /\ N = IF 1 \in valid_q THEN rdata_q[1] ELSE w
      BY <3>1 DEF HeadWord, NextWord
    <3>3. /\ H.err \in BOOLEAN /\ N.err \in BOOLEAN
          /\ out_err_o(w) <=> H.err \/ N.err
          /\ out_err_plus2_o(w) <=> N.err /\ ~H.err
      <4>1. H.err \in BOOLEAN /\ N.err \in BOOLEAN
        BY <1>1 DEF Word
      <4>2. /\ err_unaligned(w) <=> H.err \/ N.err
            /\ err_plus2(w) <=> N.err /\ ~H.err
        <5> HIDE DEF H, N, w
        <5>1. CASE 1 \in valid_q
          BY <3>1, <3>2, <5>1 DEF err_unaligned, err_plus2
        <5>2. CASE 1 \notin valid_q
          BY <3>1, <3>2, <5>2 DEF err_unaligned, err_plus2
        <5> QED BY <5>1, <5>2
      <4> QED BY <2>3, <4>1, <4>2
    <3>4. ~(r[1].c /\ ~out_err_o(w))
      BY <2>2, <2>7, <3>3
    <3>5. instr.rdata = <<r[1], r[2]>> /\ instr.addr = a
      BY <2>1, <3>4 DEF TakenInstruction
    <3>6. /\ instr.err = out_err_o(w) /\ instr.plus2 = out_err_plus2_o(w)
          /\ instr.err \in BOOLEAN /\ instr.plus2 \in BOOLEAN
      <4>1. instr \in Instruction
        BY <1>1, TakenType DEF IInv
      <4>2. instr.err \in BOOLEAN /\ instr.plus2 \in BOOLEAN
        BY <4>1 DEF Instruction
      <4> QED BY <4>2 DEF TakenInstruction
    <3>7. r[1].at = (a + 1 - 1) % NumHalves /\ r[2].at = (a + 2 - 1) % NumHalves
      <4>0. a % NumHalves = a
        BY <1>2, Wrapping
      <4>1. a % NumHalves = a /\ a + 1 - 1 = a
        BY <1>2, <4>0
      <4>2. r[2].at = 2 * ((h + 1) % NumWords)
        <5>1. (h + 1) % NumWords \in Nat
          <6>1. NumWords \in Nat \ {0} /\ h + 1 \in Nat
            BY <1>2, Wrapping
          <6> QED BY <6>1
        <5> QED BY <1>3, <2>2, <3>1, <5>1
      <4>3. 2 * ((h + 1) % NumWords) = (2 * (h + 1)) % NumHalves
        <5>1. h + 1 \in Nat
          BY <1>2
        <5> HIDE DEF h
        <5> QED BY <5>1, Wrapping
      <4>4. 2 * (h + 1) = a + 2 - 1
        BY <1>2, <2>4
      <4> QED BY <2>5, <4>1, <4>2, <4>3, <4>4
    <3>8. Stream_!WellFormed(instr) /\ Len(instr.rdata) = 2
      <4> HIDE DEF r, instr
      <4>1. ~(r[1].c /\ ~r[1].err)
        BY <2>7
      <4>2. /\ instr.err <=> r[1].err \/ r[2].err
            /\ instr.err => (instr.plus2 <=> ~r[1].err)
        BY <2>2, <3>3, <3>6
      <4> QED BY <1>1, <2>2, <3>1, <3>5, <3>6, <3>7, <4>1, <4>2, TwoHalves
    <3> QED BY <2>3, <2>7, <3>8
  <2> QED BY <2>6, <2>7
<1>5. CASE ~Unaligned
  <2>1. r = <<Half(H, 0), Half(H, 1)>> /\ r[1] = Half(H, 0) /\ r[2] = Half(H, 1)
    BY <1>5 DEF out_rdata_o
  <2>2. /\ r[1].at = 2 * H.addr + 0 /\ r[1].fresh = H.fresh /\ r[1].c = H.c0 /\ r[1].err = H.err
        /\ r[2].at = 2 * H.addr + 1 /\ r[2].fresh = H.fresh /\ r[2].err = H.err
    BY <2>1 DEF Half
  <2>3. /\ addr_incr_two(w) <=> compressed
        /\ out_err_o(w) = H.err /\ out_err_plus2_o(w) = FALSE /\ H.err \in BOOLEAN
    <3>1. aligned_is_compressed(w) <=> H.c0 /\ ~H.err
      BY DEF aligned_is_compressed
    <3>2. compressed <=> H.c0 /\ ~H.err
      BY <2>2
    <3>3. addr_incr_two(w) = aligned_is_compressed(w)
      BY <1>5 DEF addr_incr_two
    <3>4. out_err_o(w) = H.err
      BY <1>5 DEF out_err_o
    <3>5. out_err_plus2_o(w) = FALSE
      BY <1>5 DEF out_err_plus2_o
    <3>6. H.err \in BOOLEAN
      BY <1>1 DEF Word
    <3> QED BY <3>1, <3>2, <3>3, <3>4, <3>5, <3>6
  <2>4. a % 2 = 0 /\ 2 * h = a /\ a + 1 \in Halves
    <3>1. a % 2 = 0 /\ 2 * h = a
      BY <1>2, <1>5 DEF Unaligned
    <3>2. a < NumHalves /\ NumHalves % 2 = 0 /\ NumHalves \in Nat
      BY <1>2, NumHalvesAssumption DEF Halves
    <3>3. a + 1 # NumHalves
      BY <1>2, <3>1, <3>2
    <3> HIDE DEF h
    <3> QED BY <1>2, <3>1, <3>2, <3>3 DEF Halves
  <2>5. r[1].at = (a + 1 - 1) % NumHalves /\ r[2].at = (a + 2 - 1) % NumHalves
    <3>1. a % NumHalves = a /\ (a + 1) % NumHalves = a + 1
      BY <1>2, <2>4, Wrapping
    <3>2. a + 1 - 1 = a /\ a + 2 - 1 = a + 1
      BY <1>2
    <3>3. r[1].at = a /\ r[2].at = a + 1
      <4>1. r[1].at = 2 * h + 0 /\ r[2].at = 2 * h + 1
        BY <1>1, <1>3, <2>2
      <4> QED BY <1>2, <2>4, <4>1
    <3> QED BY <3>1, <3>2, <3>3
  <2>6. CASE compressed
    <3>1. instr.rdata = <<r[1]>> /\ instr.err = FALSE /\ instr.addr = a
      BY <2>2, <2>3, <2>6 DEF TakenInstruction
    <3>2. Stream_!WellFormed(instr) /\ Len(instr.rdata) = 1
      <4> HIDE DEF r, instr
      <4> QED BY <1>1, <2>2, <2>5, <2>6, <3>1, OneHalf
    <3> QED BY <2>3, <2>6, <3>2
  <2>7. CASE ~compressed
    <3>1. instr.rdata = <<r[1], r[2]>> /\ instr.addr = a /\ instr.err = H.err /\ instr.plus2 = FALSE
      <4>1. ~(r[1].c /\ ~out_err_o(w))
        BY <2>2, <2>3, <2>7
      <4> QED BY <2>1, <2>3, <4>1 DEF TakenInstruction
    <3>2. Stream_!WellFormed(instr) /\ Len(instr.rdata) = 2
      <4> HIDE DEF r, instr
      <4>1. ~(r[1].c /\ ~r[1].err)
        BY <2>7
      <4>2. /\ instr.err \in BOOLEAN /\ instr.plus2 \in BOOLEAN
            /\ instr.err <=> r[1].err \/ r[2].err
            /\ instr.err => (instr.plus2 <=> ~r[1].err)
        BY <2>2, <2>3, <3>1
      <4> QED BY <1>1, <2>2, <2>5, <3>1, <4>1, <4>2, TwoHalves
    <3> QED BY <2>3, <2>7, <3>2
  <2> QED BY <2>6, <2>7
<1> QED BY <1>4, <1>5

(* Instruction fetch implements the stream of instructions in program order: *)
(* every clock edge redirects the stream, delivers the instruction at its    *)
(* head, or leaves it alone.                                                 *)
THEOREM Implements == Spec => ImplementsStream
<1>1. Init => Stream_!Init
  BY DEF Init, FifoInit, Idle, Stream_!Init
<1>2. SInv /\ [Next]_vars => [Stream_!Next]_<<instr_addr_q, out>>
  <2> SUFFICES ASSUME SInv, [Next]_vars
               PROVE  Stream_!Next \/ UNCHANGED <<instr_addr_q, out>>
    OBVIOUS
  <2>1. CASE UNCHANGED vars
    BY <2>1 DEF vars, fifoVars
  <2>2. CASE Next
    <3>1. PICK i \in Input : Cycle(i)
      BY <2>2 DEF Next
    <3> DEFINE w == InWord(i)
               delivers == i.ready /\ out_valid_o(fifo_valid(i), w)
    <3>2. CASE i.branch
      <4>1. out' = Redirected(i.target) /\ instr_addr_q' = i.target
        BY <3>1, <3>2 DEF Cycle, Stream, FifoCycle, instr_addr_d
      <4>2. Stream_!Redirect
        BY <4>1 DEF Stream_!Redirect, Redirected
      <4> QED BY <4>2 DEF Stream_!Next
    <3>3. CASE ~i.branch /\ delivers
      <4>1. /\ out' = TakenInstruction(w)
            /\ instr_addr_q' = (instr_addr_q + (IF addr_incr_two(w) THEN 1 ELSE 2)) % NumHalves
        BY <3>1, <3>3 DEF Cycle, Stream, FifoCycle, instr_addr_d
      <4>2. PICK v \in 0 .. NUM_REQS + 1, s \in 0 .. Len(bus) : Aligned(v, s)
        BY DEF SInv, InOrder
      <4>3. /\ Stream_!WellFormed(TakenInstruction(w))
            /\ Len(TakenInstruction(w).rdata) = IF addr_incr_two(w) THEN 1 ELSE 2
        BY <3>1, <3>3, <4>2, OutputInstruction DEF SInv, Cycle
      <4>4. TakenInstruction(w).kind = "instr" /\ TakenInstruction(w).addr = instr_addr_q
        BY DEF TakenInstruction
      <4>5. Stream_!Deliver
        BY <4>1, <4>3, <4>4 DEF Stream_!Deliver
      <4> QED BY <4>5 DEF Stream_!Next
    <3>4. CASE ~i.branch /\ ~delivers
      <4>1. out' = Idle /\ instr_addr_q' = instr_addr_q
        BY <3>1, <3>4 DEF Cycle, Stream, FifoCycle
      <4>2. Stream_!Wait
        BY <4>1 DEF Stream_!Wait, Idle
      <4> QED BY <4>2 DEF Stream_!Next
    <3> QED BY <3>2, <3>3, <3>4
  <2> QED BY <2>1, <2>2
<1> QED BY <1>1, <1>2, AlwaysInOrder, PTL DEF Spec, ImplementsStream, Stream_!Spec

----------------------------------------------------------------------------
(* The fetch-error flops of the IF/ID register.                              *)

(* The fetch stage only adds to the prefetch buffer: what is proved of the  *)
(* buffer holds of it in place.                                             *)
THEOREM KeepsTheBuffer == IfSpec => Spec
<1>1. IfInit => Init
  BY DEF IfInit
<1>2. [IfNext]_ifVars => [Next]_vars
  BY DEF IfNext, IfCycle, Next, ifVars
<1> QED BY <1>1, <1>2, PTL DEF IfSpec, Spec

(* What the two flops say of an instruction as it leaves the buffer.         *)
LEMMA StepFaults ==
  ASSUME SInv, NEW i \in Input, IfCycle(i)
  PROVE  FetchFaultsAreReal'
<1> DEFINE w == InWord(i)
           instr == TakenInstruction(w)
           a == instr_addr_q
<1> SUFFICES ASSUME out'.kind = "instr", instr_fetch_err_o'
             PROVE  LET r == out'.rdata
                        blamed == IF instr_fetch_err_plus2_o' THEN 2 ELSE 1
                    IN  /\ blamed \in DOMAIN r
                        /\ r[blamed].err \/ r[blamed].at \div 2 \in Denied
                        /\ instr_fetch_err_plus2_o' => out'.addr \div 2 \notin Denied
  BY DEF FetchFaultsAreReal
<1>1. Cycle(i)
  BY DEF IfCycle
<1>2. ~i.branch /\ i.ready /\ out_valid_o(fifo_valid(i), w) /\ out' = instr
  BY <1>1 DEF Cycle, Stream, Redirected, Idle
<1>3. /\ instr_fetch_err_o' = if_instr_err(w)
      /\ instr_fetch_err_plus2_o' = if_instr_err_plus2(w)
  BY <1>2 DEF IfCycle
<1>4. PICK v \in 0 .. NUM_REQS + 1, s \in 0 .. Len(bus) : Aligned(v, s)
  BY DEF SInv, InOrder
<1>5. Stream_!WellFormed(instr)
  BY <1>1, <1>2, <1>4, OutputInstruction DEF SInv, Cycle
<1> DEFINE r == instr.rdata
<1>6. /\ instr.addr = a /\ instr.err = out_err_o(w) /\ instr.plus2 = out_err_plus2_o(w)
      /\ r = IF out_rdata_o(w)[1].c /\ ~out_err_o(w) THEN <<out_rdata_o(w)[1]>>
                                                     ELSE out_rdata_o(w)
  BY DEF TakenInstruction
<1>7. /\ (DOMAIN r = {1} \/ DOMAIN r = {1, 2}) /\ r[1] = out_rdata_o(w)[1]
      /\ ~out_rdata_o(w)[1].c => DOMAIN r = {1, 2}
  BY <1>6 DEF out_rdata_o
<1>8. a \in Halves /\ a \in Nat
  BY DEF SInv, IInv, TypeOK, FifoTypeOK, Halves
<1> HIDE DEF r
<1>9. /\ \A k \in DOMAIN r : r[k].at = (a + k - 1) % NumHalves
      /\ instr.err = \E k \in DOMAIN r : r[k].err
      /\ instr.err => instr.plus2 = ~r[1].err
  BY <1>5, <1>6 DEF Stream_!WellFormed, r
<1>10. r[1].at = a
  <2>1. a % NumHalves = a
    BY <1>8, Wrapping
  <2>2. a + 1 - 1 = a
    BY <1>8
  <2>3. 1 \in DOMAIN r
    BY <1>7
  <2> QED BY <1>9, <2>1, <2>2, <2>3
<1>11. 2 \in DOMAIN r => r[2].at = (a + 1) % NumHalves
  <2>1. a + 2 - 1 = a + 1
    BY <1>8
  <2> QED BY <1>9, <2>1
<1>12. CASE if_instr_err_plus2(w)
  <2>1. a \div 2 \notin Denied /\ (second_half_denied(w) \/ out_err_plus2_o(w))
    BY <1>12 DEF if_instr_err_plus2, pmp_err_if_i
  <2>2. CASE second_half_denied(w)
    <3>1. 2 \in DOMAIN r /\ ((a + 1) % NumHalves) \div 2 \in Denied
      BY <1>7, <2>2 DEF second_half_denied, pmp_err_if_plus2_i
    <3> QED BY <1>2, <1>3, <1>6, <1>11, <1>12, <2>1, <3>1 DEF r
  <2>3. CASE ~second_half_denied(w)
    <3>1. out_err_plus2_o(w) /\ out_err_o(w)
      BY <1>3, <2>1, <2>3 DEF if_instr_err, pmp_err_if_i
    <3>2. ~r[1].err /\ \E k \in DOMAIN r : r[k].err
      BY <1>6, <1>9, <3>1
    <3>3. 2 \in DOMAIN r /\ r[2].err
      BY <1>7, <3>2
    <3> QED BY <1>2, <1>3, <1>6, <1>12, <2>1, <3>3 DEF r
  <2> QED BY <2>2, <2>3
<1>13. CASE ~if_instr_err_plus2(w)
  <2>1. 1 \in DOMAIN r
    BY <1>7
  <2>2. CASE pmp_err_if_i
    BY <1>2, <1>3, <1>10, <1>13, <2>1, <2>2 DEF pmp_err_if_i, r
  <2>3. CASE ~pmp_err_if_i
    <3>1. out_err_o(w) /\ ~out_err_plus2_o(w)
      BY <1>3, <1>13, <2>3 DEF if_instr_err, if_instr_err_plus2
    <3>2. r[1].err
      BY <1>6, <1>9, <3>1
    <3> QED BY <1>2, <1>3, <1>13, <2>1, <3>2 DEF r
  <2> QED BY <2>2, <2>3
<1> QED BY <1>12, <1>13

(* A fetch fault is put on a half that is itself at fault, on the second     *)
(* one only when the first may be executed.                                  *)
THEOREM FaultsAreReal == IfSpec => []FetchFaultsAreReal
<1>1. IfInit => FetchFaultsAreReal
  BY DEF IfInit, Init, Idle, FetchFaultsAreReal
<1>2. SInv /\ FetchFaultsAreReal /\ [IfNext]_ifVars => FetchFaultsAreReal'
  <2> SUFFICES ASSUME SInv, FetchFaultsAreReal, [IfNext]_ifVars
               PROVE  FetchFaultsAreReal'
    OBVIOUS
  <2>1. CASE UNCHANGED ifVars
    BY <2>1 DEF ifVars, vars, fifoVars, FetchFaultsAreReal
  <2>2. CASE IfNext
    BY <2>2, StepFaults DEF IfNext
  <2> QED BY <2>1, <2>2
<1> QED BY <1>1, <1>2, KeepsTheBuffer, AlwaysInOrder, PTL DEF IfSpec
=============================================================================
