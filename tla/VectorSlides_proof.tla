-------------------------- MODULE VectorSlides_proof --------------------------
(***************************************************************************)
(* Slides take effect as the abstract machine says: for every length and     *)
(* offset below it, wherever in a word these end, with every timing of the   *)
(* memory.                                                                   *)
(***************************************************************************)
EXTENDS VectorLanes_proof

----------------------------------------------------------------------------
(* Words of the destination and of the source.  The bytes of a slide are     *)
(* moved by Skip words and Shift bytes.                                      *)
Up(n) == n.name = "vslideup"
Skip(n) == n.offset \div 4
Shift(n) == n.offset % 4
Count(n) == n.bytes \div 4
Rest(n) == n.bytes % 4
FirstWord(n) == From(n) \div 4
EndWord(n) == (Ends(n) + 3) \div 4

(* The last word of the source that word w of the destination is made of.    *)
Lead(n, w) == IF Up(n) THEN w - Skip(n) ELSE w + Skip(n) + (IF Shift(n) = 0 THEN 0 ELSE 1)

(* Words left to count after word w.                                         *)
Remaining(n, w) == IF Up(n) THEN Count(n) - w ELSE Count(n) - Skip(n) - w

SlideUpto(n, w) == IF w = EndWord(n) THEN Ends(n) ELSE 4 * w

(* The lanes of word w that are written.                                     *)
SlideBytes(n, w) == {k \in WordLanes : From(n) <= 4 * w + k /\ 4 * w + k < Ends(n)}

LEMMA Quarters ==
  ASSUME NEW x \in Nat
  PROVE  /\ x \div 4 \in Nat /\ x % 4 \in 0 .. 3 /\ x = 4 * (x \div 4) + (x % 4)
         /\ (x + 3) \div 4 \in Nat /\ x <= 4 * ((x + 3) \div 4) /\ 4 * ((x + 3) \div 4) < x + 4
OBVIOUS

LEMMA SlideNumbers ==
  ASSUME NEW n, Sliding(n), n.bytes \in Nat, n.offset \in Nat
  PROVE  /\ Skip(n) \in Nat /\ Shift(n) \in 0 .. 3 /\ n.offset = 4 * Skip(n) + Shift(n)
         /\ Count(n) \in Nat /\ Count(n) < MaxIterations /\ Rest(n) \in 0 .. 3
         /\ n.bytes = 4 * Count(n) + Rest(n) /\ Skip(n) <= Count(n)
         /\ Words(n) \in Nat /\ Words(n) = (IF Rest(n) = 0 THEN Count(n) ELSE Count(n) + 1)
         /\ Skip(n) < Words(n)
         /\ FirstWord(n) \in Nat /\ EndWord(n) \in Nat /\ FirstWord(n) < EndWord(n)
         /\ EndWord(n) <= Words(n)
         /\ From(n) \in Nat /\ Ends(n) \in Nat /\ 4 * EndWord(n) - 4 < Ends(n) /\ Ends(n) <= 4 * EndWord(n)
         /\ Up(n) => /\ FirstWord(n) = Skip(n) /\ From(n) = n.offset /\ Ends(n) = n.bytes
                     /\ EndWord(n) = Words(n)
         /\ ~Up(n) => /\ FirstWord(n) = 0 /\ From(n) = 0 /\ Ends(n) = n.bytes - n.offset
                      /\ EndWord(n) = Count(n) - Skip(n) + (IF Rest(n) <= Shift(n) THEN 0 ELSE 1)
<1> DEFINE b == n.bytes
           o == n.offset
           S == Skip(n)
           h == Shift(n)
           q == Count(n)
           t == Rest(n)
           W == Words(n)
           f == From(n)
           e == Ends(n)
           F == FirstWord(n)
           E == EndWord(n)
<1>1. b \in Nat /\ o \in Nat /\ o < b /\ q < MaxIterations
  BY DEF Sliding, Count
<1>2. Up(n) \/ n.name = "vslidedown"
  BY DEF Sliding, SlideNames, Up
<1>3. IF Up(n) THEN f = o /\ e = b ELSE f = 0 /\ e = b - o
  BY <1>2 DEF Up, From, Ends
<1>4. S \in Nat /\ h \in 0 .. 3 /\ o = 4 * S + h
  BY <1>1, Quarters DEF Skip, Shift
<1>5. q \in Nat /\ t \in 0 .. 3 /\ b = 4 * q + t
  BY <1>1, Quarters DEF Count, Rest
<1>6. W \in Nat /\ b <= 4 * W /\ 4 * W < b + 4
  BY <1>1, Quarters DEF Words
<1>7. f \in Nat /\ e \in Nat /\ f < e
  <2> HIDE DEF b, o, f, e
  <2> QED BY <1>1, <1>3
<1>8. F \in Nat /\ 4 * F <= f /\ f < 4 * F + 4
  <2> HIDE DEF f
  <2>1. F = f \div 4
    BY DEF F, f, FirstWord
  <2>2. f \div 4 \in Nat /\ f % 4 \in 0 .. 3 /\ f = 4 * (f \div 4) + (f % 4)
    BY <1>7, Quarters
  <2> DEFINE y == f \div 4
             z == f % 4
  <2>3. y \in Nat /\ z \in 0 .. 3 /\ f = 4 * y + z
    BY <2>2
  <2> HIDE DEF y, z
  <2>4. 4 * y <= f /\ f < 4 * y + 4
    BY <2>3
  <2> QED BY <2>1, <2>3, <2>4 DEF y
<1>9. E \in Nat /\ e <= 4 * E /\ 4 * E < e + 4
  <2> HIDE DEF e
  <2>1. E = (e + 3) \div 4
    BY DEF E, e, EndWord
  <2> QED BY <1>7, <2>1, Quarters
<1> HIDE DEF b, o, S, h, q, t, W, f, e, F, E
<1>10. S <= q /\ (W = IF t = 0 THEN q ELSE q + 1)
  BY <1>1, <1>4, <1>5, <1>6
<1>11. F < E /\ 4 * E - 4 < e
  BY <1>7, <1>8, <1>9
<1>12. E <= W
  <2>1. e <= b
    BY <1>1, <1>3
  <2> QED BY <1>1, <1>6, <1>7, <1>9, <2>1
<1>13. Up(n) => F = S /\ f = o /\ e = b /\ E = W
  BY <1>1, <1>3, <1>4, <1>6, <1>8, <1>9
<1>14. ~Up(n) => F = 0 /\ f = 0 /\ e = b - o
  BY <1>3, <1>8
<1>15. ~Up(n) => E = q - S + (IF t <= h THEN 0 ELSE 1)
  <2> SUFFICES ASSUME ~Up(n) PROVE E = q - S + (IF t <= h THEN 0 ELSE 1)
    OBVIOUS
  <2>1. e = 4 * (q - S) + (t - h)
    BY <1>4, <1>5, <1>14
  <2> QED BY <1>4, <1>5, <1>9, <1>10, <2>1
<1>16. S < W
  BY <1>1, <1>4, <1>6
<1> QED BY <1>1, <1>4, <1>5, <1>6, <1>7, <1>8, <1>9, <1>10, <1>11, <1>12, <1>13, <1>14, <1>15, <1>16
        DEF b, o, S, h, q, t, W, f, e, F, E

LEMMA SlideFields ==
  ASSUME InvType, vector_op, Sliding(insn)
  PROVE  /\ insn.name \in SlideNames /\ insn.bytes \in Nat /\ insn.offset \in Nat
         /\ insn.vd \in 0 .. 31 /\ insn.vs2 \in 0 .. 31 /\ insn.vd \in Nat
         /\ regs["rd"] = insn.vd /\ regs["rs2"] = insn.vs2 /\ "rd" \in Ports /\ "rs2" \in Ports
         /\ InItsBank(insn, insn.vd) /\ InItsBank(insn, insn.vs2)
         /\ Apart(insn, insn.vs2) \/ (~Up(insn) /\ insn.vs2 = insn.vd)
<1>1. /\ insn.bytes \in Nat /\ insn.vd \in 0 .. 31 /\ insn.vs2 \in 0 .. 31 /\ insn.offset \in Nat
  BY InsnFields
<1>2. insn.vd \in Nat
  BY <1>1
<1>3. regs["rs2"] = insn.vs2 /\ regs["rd"] = insn.vd /\ "rd" \in Ports /\ "rs2" \in Ports
  BY DEF regs, Ports
<1> QED BY <1>1, <1>2, <1>3 DEF Sliding, Up

----------------------------------------------------------------------------
(* A clock edge with a slide.                                                *)

SlideLoop == {"LOAD_SLIDE", "READ", "WRITE"}

Slides == Active /\ insn.name \in SlideNames /\ vrf_state \in {"START"} \cup SlideLoop

LEMMA SlideOps ==
  ASSUME insn.name \in SlideNames
  PROVE  /\ ~memory_op /\ slide_op /\ Op.op = Decoded
         /\ Decoded.memory_op = FALSE /\ Decoded.slide_op = TRUE /\ (Decoded.is_slide_up <=> Up(insn))
         /\ Decoded.sel = {"rs2", "rd"} /\ Decoded.mult_ops = FALSE
<1>1. insn.name \in {"vslideup", "vslidedown"}
  BY DEF SlideNames
<1>2. memory_op = FALSE /\ slide_op = TRUE /\ mult_ops = FALSE
  BY <1>1 DEF memory_op, slide_op, mult_ops, ISA!Loads, ISA!Stores
<1>3. sel_operation = {"rs2", "rd"}
  BY <1>1 DEF sel_operation, ISA!Loads, ISA!Stores
<1> QED BY <1>2, <1>3 DEF Decoded, Op, Up

LEMMA SlideAccess ==
  ASSUME insn.name \in SlideNames
  PROVE  /\ vrf_state \in {"START", "LOAD_SLIDE"} => data_access(Op) = "rs2"
         /\ vrf_state = "READ" => data_access(Op) = IF first_iteration_q THEN "none" ELSE "write"
         /\ vrf_state = "WRITE" => data_access(Op) = IF last_iteration_q \/ final(Op) THEN "none" ELSE "rs2"
<1> DEFINE sel == Op.op.sel
<1>1. Op.op.memory_op = FALSE /\ sel = {"rs2", "rd"} /\ Op.op.mult_ops = FALSE
  BY SlideOps
<1>2. "rs1" \notin sel /\ sel \cap {"rs1", "rs2"} # {}
  BY <1>1
<1> HIDE DEF sel
<1>3. vrf_state \in {"START", "LOAD_SLIDE"} => data_access(Op) = "rs2"
  BY <1>1, <1>2 DEF data_access, load_ready, lsu_answered, sel
<1>4. vrf_state = "READ" => data_access(Op) = IF first_iteration_q THEN "none" ELSE "write"
  BY DEF data_access, load_ready, lsu_answered
<1>5. vrf_state = "WRITE" => data_access(Op) = IF last_iteration_q \/ final(Op) THEN "none" ELSE "rs2"
  BY <1>2 DEF data_access, load_ready, lsu_answered, sel
<1> QED BY <1>3, <1>4, <1>5

LEMMA SlideMoves ==
  ASSUME PortInv, NEW gnt \in BOOLEAN, NEW rvalid \in Answers, NEW i, NEW l, NEW r,
         Wired(gnt, rvalid, i, l, r), Slides
  PROVE  /\ vrf_state = "START" =>
              /\ vrf_state' = IF ~gnt THEN "START"
                              ELSE IF ~Up(insn) /\ slide_offset_q # 0 THEN "LOAD_SLIDE" ELSE "READ"
              /\ first_iteration_q' = TRUE /\ slide_first_write_q' = TRUE
              /\ UNCHANGED <<num_iterations_q, last_iteration_q>>
         /\ vrf_state = "LOAD_SLIDE" =>
              /\ vrf_state' = IF gnt THEN "READ" ELSE "LOAD_SLIDE"
              /\ UNCHANGED <<num_iterations_q, last_iteration_q, first_iteration_q, slide_first_write_q>>
         /\ vrf_state = "READ" =>
              /\ vrf_state' = IF ~first_iteration_q /\ ~gnt THEN "READ" ELSE "WRITE"
              /\ first_iteration_q' = FALSE
              /\ slide_first_write_q' <=> slide_first_write_q /\ (first_iteration_q \/ ~gnt)
              /\ UNCHANGED <<num_iterations_q, last_iteration_q>>
         /\ vrf_state = "WRITE" /\ ~last_iteration_q =>
              /\ vrf_state' = IF final(Op) \/ gnt THEN "READ" ELSE "WRITE"
              /\ CountDown(Op, final(Op) \/ gnt)
              /\ UNCHANGED <<first_iteration_q, slide_first_write_q>>
         /\ UNCHANGED <<offset_q, slide_offset_q>>
<1>0. Active /\ vector_op /\ insn.name \in SlideNames /\ vrf_state \in {"START", "LOAD_SLIDE", "READ", "WRITE"}
  BY DEF Slides, Active, SlideLoop
<1>1. i.op = Decoded /\ (i.gnt <=> gnt) /\ data_access(i) = data_access(Op) /\ (final(i) <=> final(Op))
  BY <1>0, UnitWires
<1>2. Fsm(i)
  BY DEF Wired, VrfCycle
<1>4. /\ i.op.memory_op = FALSE /\ i.op.slide_op = TRUE /\ (i.op.is_slide_up <=> Up(insn))
      /\ i.op.mult_ops = FALSE /\ i.op.sel \cap {"rs1", "rs2"} # {}
  <2>1. i.op.sel = {"rs2", "rd"}
    BY <1>0, <1>1, SlideOps
  <2>2. i.op.sel \cap {"rs1", "rs2"} # {}
    BY <2>1
  <2> QED BY <1>0, <1>1, <2>2, SlideOps
<1>6. CASE vrf_state = "START"
  <2>1. VrfStart(i)
    BY <1>2, <1>6, FsmStates
  <2>2. data_access(i) = "rs2"
    BY <1>0, <1>1, <1>6, SlideAccess
  <2>3. vrf_state' = IF ~gnt THEN "START" ELSE IF ~Up(insn) /\ slide_offset_q # 0 THEN "LOAD_SLIDE" ELSE "READ"
    BY <1>1, <1>4, <1>6, <2>1, <2>2 DEF VrfStart, OnGrant, slide_down
  <2> QED BY <1>6, <2>1, <2>3 DEF VrfStart, unchangedIterations
<1>7. CASE vrf_state = "LOAD_SLIDE"
  <2>1. VrfLoadSlide(i)
    BY <1>2, <1>7, FsmStates
  <2> QED BY <1>1, <1>7, <2>1 DEF VrfLoadSlide, OnGrant, unchangedIterations, unchangedSetup, unchangedFirst
<1>8. CASE vrf_state = "READ"
  <2>1. VrfRead(i)
    BY <1>2, <1>8, FsmStates
  <2>2. slide_first_write_q' <=> slide_first_write_q /\ (first_iteration_q \/ ~gnt)
    BY <1>1, <2>1 DEF VrfRead
  <2> QED BY <1>1, <1>8, <2>1, <2>2 DEF VrfRead, OnGrant, unchangedIterations, unchangedSetup
<1>9. CASE vrf_state = "WRITE"
  <2>1. VrfWrite(i)
    BY <1>2, <1>9, FsmStates
  <2>2. /\ CountDown(i, i.gnt) /\ ~final(i) => CountDown(Op, final(Op) \/ gnt)
        /\ CountDown(i, TRUE) /\ final(i) => CountDown(Op, final(Op) \/ gnt)
    BY <1>1 DEF CountDown
  <2>3. ~last_iteration_q => /\ vrf_state' = IF final(Op) \/ gnt THEN "READ" ELSE vrf_state
                             /\ CountDown(Op, final(Op) \/ gnt)
    BY <1>1, <1>4, <2>1, <2>2 DEF VrfWrite, OnGrant
  <2>4. UNCHANGED <<first_iteration_q, slide_first_write_q, offset_q, slide_offset_q>>
    BY <2>1 DEF VrfWrite, unchangedSetup, unchangedFirst
  <2> QED BY <1>9, <2>3, <2>4
<1> QED BY <1>0, <1>6, <1>7, <1>8, <1>9

(* A word of the source that arrives.                                        *)
TakesWord == bus # <<>> /\ (vrf_state = "LOAD_SLIDE" \/ (vrf_state = "READ" /\ ~last_iteration_q))

LEMMA SlideOperands ==
  ASSUME PortInv, NEW gnt \in BOOLEAN, NEW rvalid \in Answers, NEW i, NEW l, NEW r,
         Wired(gnt, rvalid, i, l, r), Slides
  PROVE  /\ rs2_q' = IF TakesWord THEN slide_rdata(i) ELSE rs2_q
         /\ slide_buffer_q' = IF TakesWord THEN slide_buffer_d(i, Zero) ELSE slide_buffer_q
         /\ delay_state' = IF vrf_state = "READ" /\ ~first_iteration_q /\ ~gnt THEN "write" ELSE "none"
         /\ vrf_state = "READ" /\ ~first_iteration_q /\ ~gnt => rd_q' = Out
         /\ i.op = Decoded
<1>0. Active /\ vector_op /\ insn.name \in SlideNames /\ vrf_state \in {"START", "LOAD_SLIDE", "READ", "WRITE"}
      /\ delay_state # "read"
  BY DEF Slides, Active, SlideLoop
<1>1. /\ i.op = Decoded /\ (i.gnt <=> gnt) /\ data_access(i) = data_access(Op)
      /\ i.rvalid <=> bus # <<>>
      /\ i.wdata = AluWord
  BY <1>0, UnitWires
<1>2. i.op.memory_op = FALSE /\ i.op.slide_op = TRUE
  BY <1>0, <1>1, SlideOps
<1>3. Operands(i, Zero) /\ DelayFsm(i)
  BY DEF Wired, VrfCycle
<1>4. rs2_en(i) <=> TakesWord
  BY <1>0, <1>1 DEF rs2_en, TakesWord
<1>5. /\ rs2_q' = IF TakesWord THEN slide_rdata(i) ELSE rs2_q
      /\ slide_buffer_q' = IF TakesWord THEN slide_buffer_d(i, Zero) ELSE slide_buffer_q
      /\ rd_q' = IF rd_en(i) \/ (delayed(i) /\ ~i.op.memory_op) THEN i.wdata ELSE rd_q
  BY <1>2, <1>3, <1>4 DEF Operands, slide_buffer_en
<1>6. write_delayed(i) <=> vrf_state = "READ" /\ ~first_iteration_q /\ ~gnt
  <2>1. vrf_state = "READ" => (data_access(i) = "write" <=> ~first_iteration_q)
    BY <1>0, <1>1, SlideAccess
  <2> QED BY <1>0, <1>1, <2>1 DEF write_delayed, data_we_o
<1>7. ~read_delayed(i) /\ ~rd_en(i)
  BY <1>0 DEF read_delayed, store_ready, rd_en
<1>8. delay_state \in {"none", "write"}
  BY <1>0 DEF PortInv, InvType, VrfRegs
<1>9. delay_state' = IF write_delayed(i) THEN "write" ELSE "none"
  BY <1>3, <1>7, <1>8 DEF DelayFsm, delayed
<1>10. write_delayed(i) => rd_q' = Out
  BY <1>1, <1>2, <1>5, <1>7, <1>8 DEF delayed, Out
<1> QED BY <1>1, <1>5, <1>6, <1>9, <1>10

----------------------------------------------------------------------------
(* The bytes a slide moves.                                                  *)

(* Bytes of a word of the source that go with the next word.                 *)
Keep(n) == IF Up(n) THEN Shift(n) ELSE 4 - Shift(n)

Kept(n, m, buf, j) ==
  Shift(n) # 0 => \A k \in 0 .. Keep(n) - 1 : buf[k] = Word(m, n.vs2, j)[4 - Keep(n) + k]

HasBytes(n, m, q, w) == \A k \in SlideBytes(n, w) : q[k] = ISA!Value(n, m, 4 * w + k)

LEMMA LeadIs ==
  ASSUME NEW n, Sliding(n), n.bytes \in Nat, n.offset \in Nat, NEW w \in FirstWord(n) .. EndWord(n)
  PROVE  /\ w \in Nat /\ Lead(n, w) \in Nat /\ Lead(n, w + 1) = Lead(n, w) + 1
         /\ w + 1 < EndWord(n) => Lead(n, w) < Words(n)
         /\ ~Up(n) => w <= Lead(n, w)
         /\ Lead(n, FirstWord(n)) = IF Up(n) THEN 0 ELSE Skip(n) + (IF Shift(n) = 0 THEN 0 ELSE 1)
         /\ Remaining(n, w) \in Int /\ Remaining(n, w + 1) = Remaining(n, w) - 1
         /\ Remaining(n, FirstWord(n)) = Count(n) - Skip(n)
         /\ 4 * FirstWord(n) <= From(n)
<1> DEFINE S == Skip(n)
           h == Shift(n)
           q == Count(n)
           t == Rest(n)
           W == Words(n)
           F == FirstWord(n)
           E == EndWord(n)
           f == From(n)
<1>1. /\ S \in Nat /\ h \in 0 .. 3 /\ q \in Nat /\ t \in 0 .. 3 /\ S <= q
      /\ W \in Nat /\ W = (IF t = 0 THEN q ELSE q + 1)
      /\ F \in Nat /\ E \in Nat /\ F < E /\ E <= W
      /\ Up(n) => F = S /\ f = 4 * S + h
      /\ ~Up(n) => F = 0 /\ f = 0 /\ E = q - S + (IF t <= h THEN 0 ELSE 1)
  BY SlideNumbers
<1>2. \A x : /\ Lead(n, x) = IF Up(n) THEN x - S ELSE x + S + (IF h = 0 THEN 0 ELSE 1)
             /\ Remaining(n, x) = IF Up(n) THEN q - x ELSE q - S - x
  BY DEF Lead, Remaining
<1>3. w \in F .. E
  OBVIOUS
<1> HIDE DEF S, h, q, t, W, F, E, f
<1>4. w \in Nat /\ F <= w /\ w <= E
  BY <1>1, <1>3
<1>5. /\ Lead(n, w) \in Nat /\ Lead(n, w + 1) = Lead(n, w) + 1
      /\ w + 1 < E => Lead(n, w) < W
      /\ ~Up(n) => w <= Lead(n, w)
  BY <1>1, <1>2, <1>4
<1>6. /\ Lead(n, F) = IF Up(n) THEN 0 ELSE S + (IF h = 0 THEN 0 ELSE 1)
      /\ Remaining(n, w) \in Int /\ Remaining(n, w + 1) = Remaining(n, w) - 1
      /\ Remaining(n, F) = q - S
      /\ 4 * F <= f
  BY <1>1, <1>2, <1>4
<1> QED BY <1>4, <1>5, <1>6 DEF S, h, q, W, F, E, f

(* Lanes of one word and the bytes they take from the source.                *)
LEMMA SlideLanes ==
  ASSUME NEW n, Sliding(n), n.bytes \in Nat, n.offset \in Nat,
         NEW w \in FirstWord(n) .. EndWord(n) - 1, NEW k \in SlideBytes(n, w)
  PROVE  LET j == Lead(n, w)
             b == IF Up(n) THEN 4 * w + k - n.offset ELSE 4 * w + k + n.offset
         IN  /\ k \in 0 .. 3 /\ Keep(n) \in 0 .. 4
             /\ Shift(n) = 0 => b = 4 * j + k /\ j < Words(n)
             /\ Shift(n) # 0 /\ k < Keep(n) => /\ b = 4 * (j - 1) + (4 - Keep(n) + k)
                                               /\ 4 - Keep(n) + k \in 0 .. 3
                                               /\ ~(Up(n) /\ w = FirstWord(n))
             /\ Shift(n) # 0 /\ k >= Keep(n) => /\ b = 4 * j + (k - Keep(n)) /\ k - Keep(n) \in 0 .. 3
                                                /\ j < Words(n)
<1> DEFINE S == Skip(n)
           h == Shift(n)
           W == Words(n)
           F == FirstWord(n)
           E == EndWord(n)
           f == From(n)
           e == Ends(n)
           o == n.offset
           y == n.bytes
           j == Lead(n, w)
           K == Keep(n)
           b == IF Up(n) THEN 4 * w + k - o ELSE 4 * w + k + o
<1>1. /\ S \in Nat /\ h \in 0 .. 3 /\ o = 4 * S + h /\ y \in Nat
      /\ W \in Nat /\ F \in Nat /\ E \in Nat /\ F < E /\ E <= W
      /\ Up(n) => F = S /\ f = o
      /\ ~Up(n) => F = 0 /\ f = 0 /\ e = y - o
  BY SlideNumbers
<1>2. y <= 4 * W
  BY WordCounts
<1>3. /\ j = IF Up(n) THEN w - S ELSE w + S + (IF h = 0 THEN 0 ELSE 1)
      /\ K = IF Up(n) THEN h ELSE 4 - h
  BY DEF Lead, Keep
<1>4. k \in 0 .. 3 /\ f <= 4 * w + k /\ 4 * w + k < e
  BY DEF SlideBytes, WordLanes
<1>5. w \in F .. E - 1
  OBVIOUS
<1> HIDE DEF S, h, W, F, E, f, e, o, y, j, K
<1>6. w \in Nat /\ F <= w /\ w < E
  BY <1>1, <1>5
<1>7. CASE Up(n)
  <2>1. K \in 0 .. 4 /\ j < W
    BY <1>1, <1>3, <1>6, <1>7
  <2>2. h = 0 => b = 4 * j + k
    BY <1>1, <1>3, <1>4, <1>6, <1>7
  <2>3. h # 0 /\ k < K => b = 4 * (j - 1) + (4 - K + k) /\ 4 - K + k \in 0 .. 3
    BY <1>1, <1>3, <1>4, <1>6, <1>7
  <2>4. k < K => w # F
    BY <1>1, <1>3, <1>4, <1>6, <1>7
  <2>5. h # 0 /\ k >= K => b = 4 * j + (k - K) /\ k - K \in 0 .. 3
    BY <1>1, <1>3, <1>4, <1>6, <1>7
  <2> QED BY <1>4, <2>1, <2>2, <2>3, <2>4, <2>5 DEF h, j, K, W, F, o
<1>8. CASE ~Up(n)
  <2>1. K \in 0 .. 4
    BY <1>1, <1>3, <1>8
  <2>2. h = 0 => b = 4 * j + k /\ j < W
    BY <1>1, <1>2, <1>3, <1>4, <1>6, <1>8
  <2>3. h # 0 /\ k < K => b = 4 * (j - 1) + (4 - K + k) /\ 4 - K + k \in 0 .. 3
    BY <1>1, <1>3, <1>4, <1>6, <1>8
  <2>4. h # 0 /\ k >= K => b = 4 * j + (k - K) /\ k - K \in 0 .. 3 /\ j < W
    BY <1>1, <1>2, <1>3, <1>4, <1>6, <1>8
  <2> QED BY <1>4, <1>8, <2>1, <2>2, <2>3, <2>4 DEF h, j, K, W, F, o
<1> QED BY <1>7, <1>8

(* A word that arrives and the bytes kept of the one before make a word of   *)
(* the result.                                                               *)
LEMMA SlideResult ==
  ASSUME NEW n, Sliding(n), n.bytes \in Nat, n.offset \in Nat, NEW m, NEW buf, NEW d,
         NEW w \in FirstWord(n) .. EndWord(n) - 1,
         Lead(n, w) < Words(n) => d = Word(m, n.vs2, Lead(n, w)),
         ~(Up(n) /\ w = FirstWord(n)) => Kept(n, m, buf, Lead(n, w) - 1),
         NEW q, \A k \in WordLanes : q[k] = IF Shift(n) = 0 THEN d[k]
                                            ELSE IF k < Keep(n) THEN buf[k] ELSE d[k - Keep(n)]
  PROVE  HasBytes(n, m, q, w)
<1> SUFFICES ASSUME NEW k \in SlideBytes(n, w) PROVE q[k] = ISA!Value(n, m, 4 * w + k)
  BY DEF HasBytes
<1> DEFINE j == Lead(n, w)
           b == IF Up(n) THEN 4 * w + k - n.offset ELSE 4 * w + k + n.offset
           K == Keep(n)
<1>1. /\ k \in 0 .. 3 /\ K \in 0 .. 4
      /\ Shift(n) = 0 => b = 4 * j + k /\ j < Words(n)
      /\ Shift(n) # 0 /\ k < K => /\ b = 4 * (j - 1) + (4 - K + k) /\ 4 - K + k \in 0 .. 3
                                  /\ ~(Up(n) /\ w = FirstWord(n))
      /\ Shift(n) # 0 /\ k >= K => /\ b = 4 * j + (k - K) /\ k - K \in 0 .. 3
                                   /\ j < Words(n)
  BY SlideLanes
<1>2. ISA!Value(n, m, 4 * w + k) = ISA!Read(m, ISA!RegByte(n.vs2, b))
  <2>1. n.name \in {"vslideup", "vslidedown"}
    BY DEF Sliding, SlideNames
  <2>2. \A x : n.name = "vslideup" => ISA!Value(n, m, x) = ISA!Read(m, ISA!RegByte(n.vs2, x - n.offset))
    BY DEF ISA!Value, ISA!Loads, ISA!Stores
  <2>3. \A x : n.name = "vslidedown" => ISA!Value(n, m, x) = ISA!Read(m, ISA!RegByte(n.vs2, x + n.offset))
    BY DEF ISA!Value, ISA!Loads, ISA!Stores
  <2> DEFINE z == 4 * w + k
  <2>4. b = IF Up(n) THEN z - n.offset ELSE z + n.offset
    BY <1>1
  <2> HIDE DEF b, z
  <2>5. ISA!Value(n, m, z) = ISA!Read(m, ISA!RegByte(n.vs2, b))
    <3>1. CASE Up(n)
      <4>1. ISA!Value(n, m, z) = ISA!Read(m, ISA!RegByte(n.vs2, z - n.offset))
        BY <2>2, <3>1 DEF Up
      <4> QED BY <2>4, <3>1, <4>1
    <3>2. CASE ~Up(n)
      <4>1. ISA!Value(n, m, z) = ISA!Read(m, ISA!RegByte(n.vs2, z + n.offset))
        BY <2>1, <2>3, <3>2 DEF Up
      <4> QED BY <2>4, <3>2, <4>1
    <3> QED BY <3>1, <3>2
  <2> QED BY <2>5 DEF z
<1> DEFINE V(x) == ISA!Read(m, ISA!RegByte(n.vs2, x))
<1>3. \A x, z : z \in 0 .. 3 => Word(m, n.vs2, x)[z] = V(4 * x + z)
  BY DEF Word, WordLanes
<1>4. q[k] = IF Shift(n) = 0 THEN d[k] ELSE IF k < K THEN buf[k] ELSE d[k - K]
  BY <1>1 DEF WordLanes
<1>5. j < Words(n) => d = Word(m, n.vs2, j)
  OBVIOUS
<1>6. ~(Up(n) /\ w = FirstWord(n)) /\ Shift(n) # 0 =>
        \A x \in 0 .. K - 1 : buf[x] = Word(m, n.vs2, j - 1)[4 - K + x]
  BY DEF Kept
<1>7. ISA!Value(n, m, 4 * w + k) = V(b)
  BY <1>2
<1> HIDE DEF j, b, K, V
<1>8. CASE Shift(n) = 0
  <2>1. q[k] = Word(m, n.vs2, j)[k]
    BY <1>1, <1>4, <1>5, <1>8
  <2> QED BY <1>1, <1>3, <1>7, <1>8, <2>1
<1>9. CASE Shift(n) # 0 /\ k < K
  <2>1. q[k] = buf[k] /\ k \in 0 .. K - 1
    BY <1>1, <1>4, <1>9
  <2>2. buf[k] = Word(m, n.vs2, j - 1)[4 - K + k]
    BY <1>1, <1>6, <1>9, <2>1
  <2>3. Word(m, n.vs2, j - 1)[4 - K + k] = V(4 * (j - 1) + (4 - K + k))
    BY <1>1, <1>3, <1>9
  <2> QED BY <1>1, <1>7, <1>9, <2>1, <2>2, <2>3
<1>10. CASE Shift(n) # 0 /\ k >= K
  <2>1. q[k] = d[k - K]
    BY <1>1, <1>4, <1>10
  <2>2. d = Word(m, n.vs2, j)
    BY <1>1, <1>5, <1>10
  <2>3. Word(m, n.vs2, j)[k - K] = V(4 * j + (k - K))
    BY <1>1, <1>3, <1>10
  <2> QED BY <1>1, <1>7, <1>10, <2>1, <2>2, <2>3
<1>11. k < K \/ k >= K
  BY <1>1
<1> QED BY <1>8, <1>9, <1>10, <1>11

(* The next word keeps the end of this one.                                  *)
LEMMA SlideKeeps ==
  ASSUME NEW n, Sliding(n), n.bytes \in Nat, n.offset \in Nat, NEW m, NEW j, NEW old, NEW d,
         d = Word(m, n.vs2, j),
         NEW buf, buf = IF Shift(n) = 0 THEN old
                        ELSE [k \in 0 .. 2 |-> IF k < Keep(n) THEN d[4 - Keep(n) + k] ELSE Zero]
  PROVE  Kept(n, m, buf, j)
<1> SUFFICES ASSUME Shift(n) # 0, NEW k \in 0 .. Keep(n) - 1
             PROVE  buf[k] = Word(m, n.vs2, j)[4 - Keep(n) + k]
  BY DEF Kept
<1>1. Shift(n) \in 0 .. 3
  BY SlideNumbers
<1>2. k \in 0 .. 2 /\ k < Keep(n)
  BY <1>1 DEF Keep
<1> QED BY <1>2

(* Another word of the result, or the part of it that is written.            *)
LEMMA StoresSlide ==
  ASSUME NEW n, Sliding(n), n.bytes \in Nat, n.offset \in Nat, n.vd \in Nat, NEW m,
         NEW w \in FirstWord(n) .. EndWord(n) - 1,
         mem = Partial(n, m, SlideUpto(n, w)), NEW q, HasBytes(n, m, q, w)
  PROVE  Stored(RegBytes * n.vd + 4 * w, SlideBytes(n, w), q) = Partial(n, m, SlideUpto(n, w + 1))
<1> DEFINE F == FirstWord(n)
           E == EndWord(n)
           f == From(n)
           e == Ends(n)
           D == RegBytes * n.vd
           b == SlideUpto(n, w)
           c == SlideUpto(n, w + 1)
           be == SlideBytes(n, w)
           s == {D + 4 * w + k : k \in be}
<1>1. /\ F \in Nat /\ E \in Nat /\ F < E /\ f \in Nat /\ e \in Nat
      /\ 4 * E - 4 < e /\ e <= 4 * E
  BY SlideNumbers
<1>2. PICK y \in Nat : D = 4 * y
  BY Registers
<1>3. w \in F .. E - 1 /\ b = (IF w = E THEN e ELSE 4 * w) /\ c = (IF w + 1 = E THEN e ELSE 4 * (w + 1))
  BY DEF SlideUpto
<1>4. \A k : k \in be <=> k \in 0 .. 3 /\ f <= 4 * w + k /\ 4 * w + k < e
  BY DEF SlideBytes, WordLanes
<1>5. \A a : a \in s <=> \E k \in be : a = D + 4 * w + k
  OBVIOUS
<1>6. D \in Nat
  BY <1>2
<1>7. \A k \in be : q[k] = ISA!Value(n, m, 4 * w + k)
  BY DEF HasBytes
<1>8. Stored(D + 4 * w, be, q) = Update(mem, s, q)
  BY DEF Stored
<1>9. mem = Partial(n, m, b)
  OBVIOUS
<1>16. D = RegBytes * n.vd
  OBVIOUS
<1> HIDE DEF F, E, f, e, D, b, c, be, s
<1>10. w \in Nat /\ F <= w /\ w < E
  BY <1>1, <1>3
<1>11. b = 4 * w /\ b \in Nat /\ c \in Nat /\ b <= c /\ c <= e /\ c <= 4 * w + 4 /\ (c = e \/ c = 4 * w + 4)
  BY <1>1, <1>3, <1>10
<1>12. \A a : a \in s <=> a \in Int /\ D + b <= a /\ D + f <= a /\ a < D + c
  <2>1. ASSUME NEW a \in s PROVE a \in Int /\ D + b <= a /\ D + f <= a /\ a < D + c
    <3>1. PICK k \in be : a = D + 4 * w + k
      BY <1>5
    <3>2. k \in 0 .. 3 /\ f <= 4 * w + k /\ 4 * w + k < e
      BY <1>4
    <3> QED BY <1>1, <1>6, <1>10, <1>11, <3>1, <3>2
  <2>2. ASSUME NEW a \in Int, D + b <= a, D + f <= a, a < D + c PROVE a \in s
    <3> DEFINE k == a - (D + 4 * w)
    <3>1. k \in 0 .. 3 /\ f <= 4 * w + k /\ 4 * w + k < e /\ a = D + 4 * w + k
      BY <1>1, <1>6, <1>10, <1>11, <2>2
    <3> HIDE DEF k
    <3> QED BY <1>4, <1>5, <3>1
  <2> QED BY <2>1, <2>2
<1>13. ASSUME NEW a \in s PROVE q[a % 4] = ISA!Value(n, m, a - D)
  <2>1. PICK k \in be : a = D + 4 * w + k
    BY <1>5, <1>13
  <2>2. k \in 0 .. 3
    BY <1>4
  <2>3. a % 4 = k
    <3>1. a = 4 * (y + w) + k
      BY <1>2, <1>10, <2>1, <2>2
    <3> QED BY <1>10, <2>2, <3>1
  <2>4. a - D = 4 * w + k
    BY <1>6, <1>10, <2>1, <2>2
  <2> QED BY <1>7, <2>3, <2>4
<1>14. Update(Partial(n, m, b), s, q) = Partial(n, m, c)
  <2>1. From(n) \in Nat /\ \A a : a \in s <=> a \in Int /\ D + b <= a /\ D + From(n) <= a /\ a < D + c
    BY <1>1, <1>12 DEF f
  <2> QED BY <1>11, <1>13, <1>16, <2>1, PartialNext
<1>15. Stored(D + 4 * w, be, q) = Partial(n, m, c)
  BY <1>8, <1>9, <1>14
<1> QED BY <1>15 DEF D, be, c

----------------------------------------------------------------------------
(* Where a slide is, with the words before w of its result written.          *)

SlidePlace(w) ==
  /\ vrf_state \in SlideLoop /\ w \in FirstWord(insn) .. EndWord(insn)
  /\ offset_q = Rest(insn) /\ slide_offset_q = Shift(insn)
  /\ slide_first_write_q <=> w = FirstWord(insn)
  /\ vrf_state = "LOAD_SLIDE" => first_iteration_q /\ ~Up(insn) /\ Shift(insn) # 0
  /\ first_iteration_q => vrf_state \in {"LOAD_SLIDE", "READ"} /\ w = FirstWord(insn)
  /\ IF last_iteration_q
       THEN ~first_iteration_q /\ w = IF vrf_state = "WRITE" THEN EndWord(insn) ELSE EndWord(insn) - 1
       ELSE IF vrf_state = "WRITE" \/ first_iteration_q
              THEN w < EndWord(insn) /\ num_iterations_q = Remaining(insn, w)
              ELSE w + 1 < EndWord(insn) /\ num_iterations_q = Remaining(insn, w) - 1

(* Words of the source asked for.                                            *)
SlideAsked(w) ==
  IF vrf_state = "LOAD_SLIDE" \/ (vrf_state = "WRITE" /\ last_iteration_q) THEN Lead(insn, w)
  ELSE IF vrf_state = "READ" /\ ~first_iteration_q /\ ~last_iteration_q THEN Lead(insn, w) + 2
  ELSE Lead(insn, w) + 1

SlideCounts(w) ==
  CounterAt("rd", w) /\ (SlideAsked(w) <= Words(insn) => CounterAt("rs2", SlideAsked(w)))

(* The bus brings word j of the source; nothing of use when there is none.   *)
Brings(j) ==
  /\ bus # <<>> /\ ~Head(bus).we
  /\ j < Words(insn) => Head(bus).data = Word(before, insn.vs2, j)

KeptOf(j) == Kept(insn, before, slide_buffer_q, j)

SlideData(w) ==
  /\ delay_state = "none" \/ (delay_state = "write" /\ vrf_state = "READ" /\ ~first_iteration_q)
  /\ vrf_state = "LOAD_SLIDE" => IF bus = <<>> THEN KeptOf(Lead(insn, w) - 1) ELSE Brings(Lead(insn, w) - 1)
  /\ vrf_state = "READ" /\ first_iteration_q =>
       Brings(Lead(insn, w)) /\ (~Up(insn) => KeptOf(Lead(insn, w) - 1))
  /\ vrf_state = "WRITE" /\ ~last_iteration_q =>
       HasBytes(insn, before, rs2_q, w) /\ (Lead(insn, w) < Words(insn) => KeptOf(Lead(insn, w)))
  /\ vrf_state = "READ" /\ ~first_iteration_q =>
       IF delay_state = "write"
         THEN /\ HasBytes(insn, before, rd_q, w)
              /\ ~last_iteration_q =>
                   /\ bus = <<>> /\ HasBytes(insn, before, rs2_q, w + 1)
                   /\ Lead(insn, w + 1) < Words(insn) => KeptOf(Lead(insn, w + 1))
         ELSE /\ HasBytes(insn, before, rs2_q, w)
              /\ ~last_iteration_q => Brings(Lead(insn, w + 1)) /\ KeptOf(Lead(insn, w))

SlideAt(w) ==
  SlidePlace(w) /\ SlideCounts(w) /\ SlideData(w) /\ mem = Partial(insn, before, SlideUpto(insn, w))

(* The slide that waits for its first word.                                  *)
SlideBegun ==
  /\ mem = before /\ delay_state = "none" /\ ~last_iteration_q
  /\ num_iterations_q = Count(insn) - Skip(insn)
  /\ offset_q = Rest(insn) /\ slide_offset_q = Shift(insn)
  /\ CounterAt("rd", FirstWord(insn)) /\ CounterAt("rs2", IF Up(insn) THEN 0 ELSE Skip(insn))

----------------------------------------------------------------------------
(* The last word is known by the counter.                                    *)
LEMMA SlideFinal ==
  ASSUME InvType, vector_op, Sliding(insn), NEW w \in FirstWord(insn) .. EndWord(insn) - 1,
         offset_q = Rest(insn), slide_offset_q = Shift(insn), num_iterations_q = Remaining(insn, w)
  PROVE  /\ final(Op) <=> w = EndWord(insn) - 1
         /\ ~final(Op) => (num_iterations_q - 1) % MaxIterations = Remaining(insn, w) - 1
<1> DEFINE S == Skip(insn)
           h == Shift(insn)
           q == Count(insn)
           t == Rest(insn)
           W == Words(insn)
           F == FirstWord(insn)
           E == EndWord(insn)
           R == Remaining(insn, w)
<1>1. insn.name \in SlideNames /\ insn.bytes \in Nat /\ insn.offset \in Nat
  BY SlideFields
<1>2. /\ S \in Nat /\ h \in 0 .. 3 /\ q \in Nat /\ t \in 0 .. 3 /\ S <= q /\ q < MaxIterations
      /\ W = (IF t = 0 THEN q ELSE q + 1) /\ F \in Nat /\ E \in Nat
      /\ Up(insn) => F = S /\ E = W
      /\ ~Up(insn) => F = 0 /\ E = q - S + (IF t <= h THEN 0 ELSE 1)
  BY <1>1, SlideNumbers
<1>3. w \in F .. E - 1 /\ R = IF Up(insn) THEN q - w ELSE q - S - w
  BY DEF Remaining
<1>4. final(Op) <=> R = IF (IF Up(insn) THEN t = 0 ELSE t <= h) THEN 1 ELSE 0
  <2>1. Op.op.slide_op = TRUE /\ (Op.op.is_slide_up <=> Up(insn))
    BY <1>1, SlideOps
  <2>2. no_offset(Op) <=> IF Up(insn) THEN t = 0 ELSE t <= h
    BY <2>1 DEF no_offset, slide_down
  <2> QED BY <2>2 DEF final
<1>5. num_iterations_q = R
  OBVIOUS
<1> HIDE DEF S, h, q, t, W, F, E, R
<1>6. final(Op) <=> w = E - 1
  BY <1>2, <1>3, <1>4
<1>7. ~final(Op) => R - 1 \in 0 .. MaxIterations - 1
  BY <1>2, <1>3, <1>6, MaxIterationsAssumption
<1>8. ~final(Op) => (R - 1) % MaxIterations = R - 1
  BY <1>7, MaxIterationsAssumption
<1> QED BY <1>5, <1>6, <1>8 DEF E, R

(* What is written of the word.                                              *)
LEMMA SlideEnables ==
  ASSUME InvType, vector_op, Sliding(insn), NEW w \in FirstWord(insn) .. EndWord(insn) - 1,
         SlidePlace(w), vrf_state = "READ", ~first_iteration_q
  PROVE  data_be_o(Op) = SlideBytes(insn, w)
<1> DEFINE S == Skip(insn)
           h == Shift(insn)
           q == Count(insn)
           t == Rest(insn)
           W == Words(insn)
           F == FirstWord(insn)
           E == EndWord(insn)
           f == From(insn)
           e == Ends(insn)
           c == IF Up(insn) THEN t ELSE (t - h) % 4
<1>1. insn.name \in SlideNames /\ insn.bytes \in Nat /\ insn.offset \in Nat
  BY SlideFields
<1>2. /\ S \in Nat /\ h \in 0 .. 3 /\ q \in Nat /\ t \in 0 .. 3 /\ S <= q
      /\ W = (IF t = 0 THEN q ELSE q + 1) /\ F \in Nat /\ E \in Nat
      /\ insn.offset = 4 * S + h /\ insn.bytes = 4 * q + t
      /\ 4 * E - 4 < e /\ e <= 4 * E /\ e \in Nat
      /\ Up(insn) => F = S /\ E = W /\ f = insn.offset /\ e = insn.bytes
      /\ ~Up(insn) => /\ F = 0 /\ E = q - S + (IF t <= h THEN 0 ELSE 1)
                      /\ f = 0 /\ e = insn.bytes - insn.offset
  BY <1>1, SlideNumbers
<1>3. w \in F .. E - 1
  OBVIOUS
<1>4. \A k : k \in data_be_o(Op) <=> /\ k \in 0 .. 3
                                     /\ Up(insn) /\ w = F => h <= k
                                     /\ w = E - 1 /\ c # 0 => k < c
  <2>1. Op.op.slide_op = TRUE /\ (Op.op.is_slide_up <=> Up(insn))
    BY <1>1, SlideOps
  <2>2. sel_slide_be(Op) <=> Up(insn) /\ w = F
    BY <2>1 DEF sel_slide_be, SlidePlace
  <2>3. tail_bytes(Op) = c
    BY <2>1 DEF tail_bytes, slide_down, SlidePlace
  <2>4. offset_be(Op) = IF c = 0 THEN WordLanes ELSE 0 .. c - 1
    BY <2>3 DEF offset_be
  <2>5. slide_offset_be = h .. 3
    BY DEF slide_offset_be, SlidePlace
  <2>6. last_iteration_q <=> w = E - 1
    BY <1>2, <1>3 DEF SlidePlace
  <2>7. data_be_o(Op) = (IF Up(insn) /\ w = F THEN h .. 3 ELSE WordLanes)
                          \cap (IF w = E - 1 THEN IF c = 0 THEN WordLanes ELSE 0 .. c - 1 ELSE WordLanes)
    BY <2>2, <2>4, <2>5, <2>6 DEF data_be_o
  <2>8. c \in Int
    BY <1>2
  <2> HIDE DEF c, h, F, E
  <2> QED BY <1>2, <2>7, <2>8 DEF WordLanes
<1>5. \A k : k \in SlideBytes(insn, w) <=> k \in 0 .. 3 /\ f <= 4 * w + k /\ 4 * w + k < e
  BY DEF SlideBytes, WordLanes
<1>6. c = IF Up(insn) THEN t ELSE (t - h) % 4
  OBVIOUS
<1> HIDE DEF S, h, q, t, W, F, E, f, e, c
<1>7. w \in Nat /\ F <= w /\ w < E
  BY <1>2, <1>3
<1>8. ~Up(insn) => c = IF t < h THEN t - h + 4 ELSE t - h
  BY <1>2, <1>6
<1>9. \A k \in 0 .. 3 : f <= 4 * w + k <=> (Up(insn) /\ w = F => h <= k)
  BY <1>2, <1>7
<1>10. \A k \in 0 .. 3 : w + 1 < E => 4 * w + k < e
  BY <1>2, <1>7
<1>11. \A k \in 0 .. 3 : w = E - 1 => (4 * w + k < e <=> (c # 0 => k < c))
  <2>1. CASE Up(insn)
    BY <1>2, <1>6, <1>7, <2>1
  <2>2. CASE ~Up(insn)
    BY <1>2, <1>7, <1>8, <2>2
  <2> QED BY <2>1, <2>2
<1>12. \A k \in 0 .. 3 : 4 * w + k < e <=> (w = E - 1 /\ c # 0 => k < c)
  BY <1>2, <1>7, <1>10, <1>11
<1>13. \A k : k \in data_be_o(Op) <=> k \in SlideBytes(insn, w)
  BY <1>4, <1>5, <1>9, <1>12
<1> QED BY <1>13

----------------------------------------------------------------------------
(* One clock edge.                                                           *)

LEMMA SlideFacts ==
  ASSUME PortInv, vector_op, Sliding(insn), NEW w, SlideAt(w)
  PROVE  /\ Slides /\ Active /\ InvType /\ insn.name \in SlideNames /\ vrf_state \in SlideLoop
         /\ insn.bytes \in Nat /\ insn.offset \in Nat
         /\ w \in FirstWord(insn) .. EndWord(insn) /\ w \in Nat /\ slide_offset_q = Shift(insn)
         /\ ~(vrf_state = "WRITE" /\ last_iteration_q) => w \in FirstWord(insn) .. EndWord(insn) - 1
         /\ FirstWord(insn) \in Nat /\ EndWord(insn) \in Nat /\ EndWord(insn) <= Words(insn) /\ Words(insn) \in Nat
         /\ FirstWord(insn) < EndWord(insn)
         /\ delay_state \in {"none", "write"}
<1>1. InvType
  BY DEF PortInv
<1>2. insn.name \in SlideNames /\ insn.bytes \in Nat /\ insn.offset \in Nat
  BY <1>1, SlideFields
<1>3. vrf_state \in SlideLoop /\ w \in FirstWord(insn) .. EndWord(insn) /\ delay_state \in {"none", "write"}
  BY DEF SlideAt, SlidePlace, SlideData
<1>4. ~memory_op
  BY <1>2, SlideOps
<1>5. Active /\ Slides
  BY <1>2, <1>3, <1>4 DEF Slides, Active, SlideLoop, LaneStates
<1>6. /\ FirstWord(insn) \in Nat /\ EndWord(insn) \in Nat /\ EndWord(insn) <= Words(insn)
      /\ FirstWord(insn) < EndWord(insn) /\ Words(insn) \in Nat
  BY <1>2, SlideNumbers
<1>7. w \in Nat
  BY <1>3, <1>6
<1>8. ~(vrf_state = "WRITE" /\ last_iteration_q) => w < EndWord(insn)
  BY <1>6, <1>7 DEF SlideAt, SlidePlace
<1>9. ~(vrf_state = "WRITE" /\ last_iteration_q) => w \in FirstWord(insn) .. EndWord(insn) - 1
  BY <1>3, <1>6, <1>7, <1>8
<1>10. slide_offset_q = Shift(insn)
  BY DEF SlideAt, SlidePlace
<1> QED BY <1>1, <1>2, <1>3, <1>5, <1>6, <1>7, <1>9, <1>10

(* A group lies in its bank.                                                 *)
LEMMA InBank ==
  ASSUME NEW r \in 0 .. 31, insn.bytes \in Nat, InItsBank(insn, r), NEW j \in Nat, j < Words(insn)
  PROVE  RegWords * (r % 8) + j < BankWords
<1> DEFINE x == RegWords * (r % 8)
<1>1. x + Words(insn) <= BankWords
  BY DEF InItsBank
<1>2. x \in Nat /\ BankWords \in Nat /\ Words(insn) \in Nat
  <2>1. r % 8 \in Nat
    OBVIOUS
  <2> QED BY <2>1, WordCounts, RegWordsAssumption DEF BankWords
<1> HIDE DEF x
<1>3. x + j < BankWords
  BY <1>1, <1>2
<1> QED BY <1>3 DEF x

(* A word of the source asked for is on the bus in the next cycle, as it was *)
(* before the slide.                                                          *)
LEMMA SlideAsks ==
  ASSUME PortInv, NEW gnt \in BOOLEAN, NEW rvalid \in Answers, NEW i, NEW l, NEW r,
         Wired(gnt, rvalid, i, l, r), Slides, Sliding(insn), gnt, data_access(Op) = "rs2",
         NEW w \in FirstWord(insn) .. EndWord(insn), mem = Partial(insn, before, SlideUpto(insn, w)),
         NEW j \in Nat, Up(insn) \/ w <= j, j < Words(insn) => CounterAt("rs2", j),
         insn' = insn, before' = before
  PROVE  Brings(j)' /\ mem' = mem
<1>1. Active /\ InvType /\ vector_op
  BY DEF Slides, Active, PortInv
<1>2. /\ bus' # <<>> /\ ~Head(bus').we /\ mem' = mem
      /\ Head(bus').data = Fetched(mem_if_addr(regs, "rs2"))
  BY <1>1, UnitMemory
<1>3. /\ insn.bytes \in Nat /\ insn.offset \in Nat
      /\ insn.vd \in 0 .. 31 /\ insn.vs2 \in 0 .. 31
      /\ regs["rs2"] = insn.vs2 /\ "rs2" \in Ports
      /\ InItsBank(insn, insn.vs2)
      /\ Apart(insn, insn.vs2) \/ (~Up(insn) /\ insn.vs2 = insn.vd)
  BY <1>1, SlideFields
<1>4. /\ FirstWord(insn) \in Nat /\ EndWord(insn) \in Nat /\ EndWord(insn) <= Words(insn)
      /\ From(insn) \in Nat /\ Ends(insn) \in Nat /\ Ends(insn) <= 4 * EndWord(insn) /\ Words(insn) \in Nat
  BY <1>3, SlideNumbers
<1>5. ASSUME j < Words(insn) PROVE Fetched(mem_if_addr(regs, "rs2")) = Word(before, insn.vs2, j)
  <2>1. RegWords * (insn.vs2 % 8) + j < BankWords
    BY <1>3, <1>5, InBank
  <2>2. port("rs2") = "rs2"
    BY DEF port
  <2>3. mem_if_addr(regs, "rs2") = RegBytes * insn.vs2 + 4 * j
    BY <1>3, <1>5, <2>1, <2>2, WordAddress
  <2>4. /\ SlideUpto(insn, w) \in Nat /\ SlideUpto(insn, w) <= 4 * Words(insn)
        /\ w <= j => SlideUpto(insn, w) <= 4 * j
    <3> DEFINE b == SlideUpto(insn, w)
               E == EndWord(insn)
               W == Words(insn)
               e == Ends(insn)
    <3>1. b = (IF w = E THEN e ELSE 4 * w) /\ w \in Nat /\ w <= E /\ E <= W /\ e <= 4 * E /\ e \in Nat
          /\ E \in Nat /\ W \in Nat
      BY <1>4 DEF SlideUpto
    <3> HIDE DEF b, E, W, e
    <3>2. b \in Nat /\ b <= 4 * W /\ (w <= j => b <= 4 * j)
      BY <3>1
    <3> QED BY <3>2 DEF b, W
  <2>5. j \in 0 .. Words(insn) - 1
    BY <1>4, <1>5
  <2>6. (insn.vs2 = insn.vd /\ SlideUpto(insn, w) <= 4 * j) \/ Apart(insn, insn.vs2)
    BY <1>3, <2>4
  <2>7. Fetched(RegBytes * insn.vs2 + 4 * j) = Word(before, insn.vs2, j)
    BY <1>3, <1>4, <2>4, <2>5, <2>6, FetchesWord
  <2> QED BY <2>3, <2>7
<1> QED BY <1>2, <1>5 DEF Brings

(* The counters follow the words asked for and written.                      *)
LEMMA SlideCountsMove ==
  ASSUME PortInv, NEW gnt \in BOOLEAN, NEW rvalid \in Answers, NEW i, NEW l, NEW r,
         Wired(gnt, rvalid, i, l, r), Slides, Sliding(insn), insn' = insn, before' = before,
         NEW w \in Nat, NEW v \in Nat, SlideCounts(w), NEW acc, acc = data_access(Op),
         SlideAsked(w) \in Nat, SlideAsked(v)' = (IF gnt /\ acc = "rs2" THEN SlideAsked(w) + 1 ELSE SlideAsked(w)),
         v = (IF gnt /\ acc = "write" THEN w + 1 ELSE w), gnt /\ acc = "write" => w < Words(insn),
         acc \in {"none", "write", "rs2"}
  PROVE  SlideCounts(v)'
<1>1. Active /\ InvType /\ vector_op
  BY DEF Slides, Active, PortInv
<1>2. /\ "rs2" \in Ports /\ "rd" \in Ports /\ insn.bytes \in Nat
      /\ InItsBank(insn, regs["rs2"]) /\ InItsBank(insn, regs["rd"])
  BY <1>1, SlideFields
<1>3. regs' = regs /\ Words(insn)' = Words(insn) /\ Words(insn) \in Nat
  BY <1>2, SameInstruction, WordCounts
<1>4. /\ port(acc) = "rs2" <=> acc = "rs2"
      /\ port(acc) = "rd" <=> acc = "write"
      /\ acc # "rd"
  BY DEF port
<1>5. CounterAt("rd", w) /\ (SlideAsked(w) <= Words(insn) => CounterAt("rs2", SlideAsked(w)))
  BY DEF SlideCounts
<1>6. addr_q'["rd"] = (RegWords * (regs["rd"] % 8) + v) % BankWords
  <2>1. v = IF gnt /\ data_access(Op) # "rd" /\ "rd" = port(data_access(Op)) THEN w + 1 ELSE w
    BY <1>4
  <2>2. v = w + 1 => w < Words(insn)
    OBVIOUS
  <2> QED BY <1>1, <1>2, <1>5, <2>1, <2>2, UnitCounts
<1>7. ASSUME SlideAsked(v)' <= Words(insn)
      PROVE  addr_q'["rs2"] = (RegWords * (regs["rs2"] % 8) + SlideAsked(v)') % BankWords
  <2> DEFINE j == SlideAsked(w)
             k == SlideAsked(v)'
  <2>1. j \in Nat /\ k = (IF gnt /\ acc = "rs2" THEN j + 1 ELSE j) /\ k <= Words(insn)
    BY <1>7
  <2>2. j <= Words(insn) => CounterAt("rs2", j)
    BY <1>5
  <2>3. addr_q'["rs2"] = (RegWords * (regs["rs2"] % 8) + k) % BankWords
    <3> HIDE DEF j, k
    <3>1. j <= Words(insn) /\ (k = j + 1 => j < Words(insn))
      BY <1>3, <2>1
    <3>2. k = IF gnt /\ data_access(Op) # "rd" /\ "rs2" = port(data_access(Op)) THEN j + 1 ELSE j
      BY <1>4, <2>1
    <3> QED BY <1>1, <1>2, <2>1, <2>2, <3>1, <3>2, UnitCounts
  <2> QED BY <2>3
<1> QED BY <1>3, <1>6, <1>7 DEF SlideCounts, CounterAt

(* A word of the source that arrives makes a word of the result, with what   *)
(* was kept of the word before.                                              *)
LEMMA SlideTakes ==
  ASSUME PortInv, NEW gnt \in BOOLEAN, NEW rvalid \in Answers, NEW i, NEW l, NEW r,
         Wired(gnt, rvalid, i, l, r), Slides, Sliding(insn), slide_offset_q = Shift(insn),
         TakesWord, NEW j, Brings(j)
  PROVE  /\ j < Words(insn) => Kept(insn, before, slide_buffer_q', j)
         /\ \A w \in FirstWord(insn) .. EndWord(insn) - 1 :
              j = Lead(insn, w) /\ ((Up(insn) /\ w = FirstWord(insn)) \/ KeptOf(j - 1)) =>
                HasBytes(insn, before, rs2_q', w)
<1>1. Active /\ InvType /\ vector_op
  BY DEF Slides, Active, PortInv
<1>2. insn.bytes \in Nat /\ insn.offset \in Nat /\ insn.name \in SlideNames
  BY <1>1, SlideFields
<1>3. i.rdata = Head(bus).data
  BY <1>1, UnitWires DEF Brings
<1>4. rs2_q' = slide_rdata(i) /\ slide_buffer_q' = slide_buffer_d(i, Zero) /\ i.op = Decoded
  BY SlideOperands
<1>5. kept(i) = Keep(insn)
  BY <1>2, <1>4, SlideOps DEF kept, Keep
<1> DEFINE d == i.rdata
<1>6. j < Words(insn) => d = Word(before, insn.vs2, j)
  BY <1>3 DEF Brings
<1>7. slide_buffer_q' = IF Shift(insn) = 0 THEN slide_buffer_q
                        ELSE [k \in 0 .. 2 |-> IF k < Keep(insn) THEN d[4 - Keep(insn) + k] ELSE Zero]
  BY <1>4, <1>5 DEF slide_buffer_d
<1>8. \A k \in WordLanes : rs2_q'[k] = IF Shift(insn) = 0 THEN d[k]
                                       ELSE IF k < Keep(insn) THEN slide_buffer_q[k] ELSE d[k - Keep(insn)]
  BY <1>4, <1>5 DEF slide_rdata
<1> HIDE DEF d
<1>9. j < Words(insn) => Kept(insn, before, slide_buffer_q', j)
  BY <1>2, <1>6, <1>7, SlideKeeps
<1>10. ASSUME NEW w \in FirstWord(insn) .. EndWord(insn) - 1, j = Lead(insn, w),
              (Up(insn) /\ w = FirstWord(insn)) \/ KeptOf(j - 1)
       PROVE  HasBytes(insn, before, rs2_q', w)
  <2>1. Lead(insn, w) < Words(insn) => d = Word(before, insn.vs2, Lead(insn, w))
    BY <1>6, <1>10
  <2>2. ~(Up(insn) /\ w = FirstWord(insn)) => Kept(insn, before, slide_buffer_q, Lead(insn, w) - 1)
    BY <1>10 DEF KeptOf
  <2> QED BY <1>2, <1>8, <2>1, <2>2, SlideResult
<1> QED BY <1>9, <1>10

LEMMA SlideStarts ==
  ASSUME PortInv, NEW gnt \in BOOLEAN, NEW rvalid \in Answers, NEW i, NEW l, NEW r,
         Wired(gnt, rvalid, i, l, r), vector_op, Sliding(insn), Plain(mem), vrf_state = "START", SlideBegun
  PROVE  insn' = insn /\ before' = before
         /\ IF gnt THEN SlideAt(FirstWord(insn))' ELSE SlideBegun' /\ vrf_state' = "START"
<1> DEFINE F == FirstWord(insn)
           j == IF Up(insn) THEN 0 ELSE Skip(insn)
<1>1. /\ InvType /\ insn.name \in SlideNames /\ insn.bytes \in Nat /\ insn.offset \in Nat /\ insn.vd \in Nat
      /\ InItsBank(insn, regs["rs2"]) /\ InItsBank(insn, regs["rd"]) /\ "rs2" \in Ports /\ "rd" \in Ports
  BY SlideFields DEF PortInv
<1>2. /\ Skip(insn) \in Nat /\ F \in Nat /\ EndWord(insn) \in Nat /\ F < EndWord(insn) /\ Skip(insn) < Words(insn)
      /\ Words(insn) \in Nat /\ From(insn) \in Nat
      /\ ~Up(insn) => F = 0
  BY <1>1, SlideNumbers
<1>3. F \in F .. EndWord(insn) /\ j \in Nat /\ j < Words(insn)
  BY <1>2
<1>4. /\ Lead(insn, F) = IF Up(insn) THEN 0 ELSE Skip(insn) + (IF Shift(insn) = 0 THEN 0 ELSE 1)
      /\ Remaining(insn, F) = Count(insn) - Skip(insn)
      /\ 4 * F <= From(insn) /\ Lead(insn, F) \in Nat
  BY <1>1, <1>3, LeadIs
<1>5. Active /\ Slides
  BY <1>1, SlideOps DEF Active, Slides, SlideBegun
<1>6. insn' = insn /\ before' = before
  BY <1>5, UnitStays DEF Writing
<1>7. data_access(Op) = "rs2" /\ port("rs2") = "rs2"
  BY <1>1, SlideAccess DEF port
<1>8. /\ vrf_state' = IF ~gnt THEN "START"
                      ELSE IF ~Up(insn) /\ slide_offset_q # 0 THEN "LOAD_SLIDE" ELSE "READ"
      /\ first_iteration_q' = TRUE /\ slide_first_write_q' = TRUE
      /\ UNCHANGED <<num_iterations_q, last_iteration_q, offset_q, slide_offset_q>>
  BY <1>5, SlideMoves
<1>9. delay_state' = "none" /\ slide_offset_q = Shift(insn)
  BY <1>5, SlideOperands DEF SlideBegun
<1>10. mem = before /\ mem = Partial(insn, before, SlideUpto(insn, F))
  <2>1. SlideUpto(insn, F) = 4 * F /\ 4 * F \in Nat
    BY <1>2 DEF SlideUpto
  <2> QED BY <1>1, <1>2, <1>4, <2>1, PartialNone DEF SlideBegun
<1>11. CounterAt("rs2", j) /\ CounterAt("rd", F) /\ regs' = regs
  BY <1>6, SameInstruction DEF SlideBegun
<1>12. CASE gnt
  <2>1. Brings(j)' /\ mem' = mem
    <3>1. Up(insn) \/ F <= j
      BY <1>2
    <3> QED BY <1>3, <1>5, <1>6, <1>7, <1>10, <1>11, <1>12, <3>1, SlideAsks
  <2>2. SlidePlace(F)'
    BY <1>2, <1>3, <1>4, <1>6, <1>8, <1>12 DEF SlidePlace, SlideBegun, SlideLoop
  <2>3. SlideAsked(F)' = j + 1
    <3>1. SlideAsked(F)' = IF vrf_state' = "LOAD_SLIDE" THEN Lead(insn, F) ELSE Lead(insn, F) + 1
      BY <1>6, <1>8, <1>12 DEF SlideAsked
    <3> QED BY <1>2, <1>4, <1>8, <1>9, <1>12, <3>1
  <2>4. SlideCounts(F)'
    <3>1. addr_q'["rs2"] = (RegWords * (regs["rs2"] % 8) + (j + 1)) % BankWords
      <4>1. j + 1 = IF gnt /\ data_access(Op) # "rd" /\ "rs2" = port(data_access(Op)) THEN j + 1 ELSE j
        BY <1>7, <1>12
      <4> QED BY <1>1, <1>3, <1>5, <1>11, <4>1, UnitCounts
    <3>2. addr_q'["rd"] = (RegWords * (regs["rd"] % 8) + F) % BankWords
      <4>1. F = IF gnt /\ data_access(Op) # "rd" /\ "rd" = port(data_access(Op)) THEN F + 1 ELSE F
        BY <1>7
      <4> QED BY <1>1, <1>2, <1>5, <1>11, <4>1, UnitCounts
    <3> QED BY <1>6, <1>11, <2>3, <3>1, <3>2 DEF SlideCounts, CounterAt
  <2>5. SlideData(F)'
    <3>1. CASE ~Up(insn) /\ Shift(insn) # 0
      <4>1. vrf_state' = "LOAD_SLIDE" /\ Lead(insn, F) - 1 = j
        BY <1>2, <1>4, <1>8, <1>9, <1>12, <3>1
      <4>2. bus' # <<>> /\ Brings(Lead(insn, F) - 1)'
        <5>1. Brings(j)' /\ bus' # <<>>
          BY <2>1 DEF Brings
        <5> QED BY <1>6, <4>1, <5>1 DEF Brings
      <4> QED BY <1>6, <1>9, <4>1, <4>2 DEF SlideData
    <3>2. CASE ~(~Up(insn) /\ Shift(insn) # 0)
      <4>1. vrf_state' = "READ" /\ Lead(insn, F) = j
        BY <1>2, <1>4, <1>8, <1>9, <1>12, <3>2
      <4>2. Brings(Lead(insn, F))'
        BY <1>6, <2>1, <4>1 DEF Brings
      <4>3. ~Up(insn) => Shift(insn) = 0
        BY <3>2
      <4>4. ~Up(insn)' => KeptOf(Lead(insn, F) - 1)'
        BY <1>6, <4>3 DEF KeptOf, Kept
      <4> QED BY <1>6, <1>8, <1>9, <4>1, <4>2, <4>4 DEF SlideData
    <3> QED BY <3>1, <3>2
  <2> QED BY <1>6, <1>10, <1>12, <2>1, <2>2, <2>4, <2>5 DEF SlideAt
<1>13. CASE ~gnt
  <2>1. mem' = mem
    BY <1>5, <1>13, UnitMemory
  <2>2. addr_q' = addr_q
    BY <1>5, <1>13, UnitCounters
  <2>3. CounterAt("rd", F)' /\ CounterAt("rs2", j)'
    BY <1>6, <1>11, <2>2 DEF CounterAt
  <2> QED BY <1>6, <1>8, <1>9, <1>13, <2>1, <2>3 DEF SlideBegun
<1> QED BY <1>6, <1>12, <1>13

(* A slide down reads a word ahead.                                          *)
LEMMA SlideLoads ==
  ASSUME PortInv, NEW gnt \in BOOLEAN, NEW rvalid \in Answers, NEW i, NEW l, NEW r,
         Wired(gnt, rvalid, i, l, r), vector_op, Sliding(insn), NEW w, SlideAt(w), vrf_state = "LOAD_SLIDE"
  PROVE  insn' = insn /\ before' = before /\ SlideAt(w)'
<1> DEFINE j == Lead(insn, w)
<1>1. /\ Slides /\ Active /\ InvType /\ insn.name \in SlideNames /\ insn.bytes \in Nat /\ insn.offset \in Nat
      /\ w \in FirstWord(insn) .. EndWord(insn) /\ w \in Nat /\ Words(insn) \in Nat
      /\ slide_offset_q = Shift(insn)
  BY SlideFacts
<1>2. insn' = insn /\ before' = before
  BY <1>1, UnitStays DEF Writing
<1>3. SlidePlace(w) /\ SlideCounts(w) /\ SlideData(w) /\ mem = Partial(insn, before, SlideUpto(insn, w))
  BY DEF SlideAt
<1>4. first_iteration_q /\ ~last_iteration_q /\ ~Up(insn) /\ Shift(insn) # 0 /\ w = FirstWord(insn)
  BY <1>3 DEF SlidePlace
<1>5. j \in Nat /\ w <= j /\ j - 1 < Words(insn) /\ j - 1 \in Nat
  <2>1. j = Skip(insn) + 1
    BY <1>1, <1>4, LeadIs
  <2>2. Skip(insn) \in Nat /\ Skip(insn) < Words(insn)
    BY <1>1, SlideNumbers
  <2>3. w <= j
    BY <1>1, <1>4, LeadIs
  <2> HIDE DEF j
  <2> QED BY <1>1, <2>1, <2>2, <2>3
<1>6. data_access(Op) = "rs2"
  BY <1>1, SlideAccess
<1>7. /\ vrf_state' = IF gnt THEN "READ" ELSE "LOAD_SLIDE"
      /\ UNCHANGED <<num_iterations_q, last_iteration_q, first_iteration_q, slide_first_write_q,
                     offset_q, slide_offset_q>>
  BY <1>1, SlideMoves
<1>8. delay_state' = "none"
  BY <1>1, SlideOperands
<1>9. Kept(insn, before, slide_buffer_q', j - 1)
  <2>1. CASE bus = <<>>
    <3>1. KeptOf(j - 1)
      BY <1>3, <2>1 DEF SlideData
    <3>2. slide_buffer_q' = slide_buffer_q
      BY <1>1, <2>1, SlideOperands DEF TakesWord
    <3> QED BY <3>1, <3>2 DEF KeptOf
  <2>2. CASE bus # <<>>
    <3>1. Brings(j - 1)
      BY <1>3, <2>2 DEF SlideData
    <3>2. TakesWord
      BY <2>2 DEF TakesWord
    <3> HIDE DEF j
    <3> QED BY <1>1, <1>5, <3>1, <3>2, SlideTakes
  <2> QED BY <2>1, <2>2
<1>10. KeptOf(j - 1)'
  BY <1>2, <1>9 DEF KeptOf
<1>11. SlideAsked(w) = j
  BY DEF SlideAsked
<1>12. j < Words(insn) => CounterAt("rs2", j)
  BY <1>1, <1>3, <1>5, <1>11 DEF SlideCounts
<1>13. mem' = mem /\ (gnt => Brings(j)') /\ (~gnt => bus' = <<>>)
  <2>1. CASE gnt
    BY <1>1, <1>2, <1>3, <1>5, <1>6, <1>12, <2>1, SlideAsks
  <2>2. CASE ~gnt
    BY <1>1, <2>2, UnitMemory
  <2> QED BY <2>1, <2>2
<1>14. SlidePlace(w)'
  BY <1>2, <1>3, <1>4, <1>7 DEF SlidePlace, SlideLoop
<1>15. SlideCounts(w)'
  <2>1. SlideAsked(w)' = IF gnt THEN j + 1 ELSE j
    BY <1>2, <1>4, <1>7 DEF SlideAsked
  <2> DEFINE acc == data_access(Op)
  <2>2. /\ SlideAsked(w) \in Nat /\ SlideAsked(w)' = (IF gnt /\ acc = "rs2" THEN SlideAsked(w) + 1 ELSE SlideAsked(w))
        /\ w = (IF gnt /\ acc = "write" THEN w + 1 ELSE w) /\ (gnt /\ acc = "write" => w < Words(insn))
        /\ acc \in {"none", "write", "rs2"}
    BY <1>5, <1>6, <1>11, <2>1
  <2> QED BY <1>1, <1>2, <1>3, <2>2, SlideCountsMove
<1>16. SlideData(w)'
  <2>1. gnt => Brings(Lead(insn, w))'
    BY <1>2, <1>13 DEF Brings
  <2>2. KeptOf(Lead(insn, w) - 1)'
    BY <1>2, <1>10 DEF KeptOf
  <2>3. CASE gnt
    BY <1>4, <1>7, <1>8, <2>1, <2>2, <2>3 DEF SlideData
  <2>4. CASE ~gnt
    BY <1>4, <1>7, <1>8, <1>13, <2>2, <2>4 DEF SlideData
  <2> QED BY <2>3, <2>4
<1> QED BY <1>2, <1>3, <1>13, <1>14, <1>15, <1>16 DEF SlideAt

(* The first word of the result is made.                                     *)
LEMMA SlideFirst ==
  ASSUME PortInv, NEW gnt \in BOOLEAN, NEW rvalid \in Answers, NEW i, NEW l, NEW r,
         Wired(gnt, rvalid, i, l, r), vector_op, Sliding(insn), NEW w, SlideAt(w),
         vrf_state = "READ", first_iteration_q
  PROVE  insn' = insn /\ before' = before /\ SlideAt(w)'
<1> DEFINE j == Lead(insn, w)
<1>1. /\ Slides /\ Active /\ InvType /\ insn.name \in SlideNames /\ insn.bytes \in Nat /\ insn.offset \in Nat
      /\ w \in FirstWord(insn) .. EndWord(insn) /\ w \in FirstWord(insn) .. EndWord(insn) - 1 /\ w \in Nat
      /\ Words(insn) \in Nat /\ slide_offset_q = Shift(insn)
  BY SlideFacts
<1>2. insn' = insn /\ before' = before
  BY <1>1, UnitStays DEF Writing
<1>3. SlidePlace(w) /\ SlideCounts(w) /\ SlideData(w) /\ mem = Partial(insn, before, SlideUpto(insn, w))
  BY DEF SlideAt
<1>4. ~last_iteration_q /\ w = FirstWord(insn)
  BY <1>3 DEF SlidePlace
<1>5. data_access(Op) = "none" /\ ~gnt
  BY <1>1, SlideAccess, UnitWires
<1>6. /\ vrf_state' = "WRITE" /\ first_iteration_q' = FALSE
      /\ slide_first_write_q' <=> slide_first_write_q
      /\ UNCHANGED <<num_iterations_q, last_iteration_q, offset_q, slide_offset_q>>
  BY <1>1, SlideMoves
<1>7. delay_state' = "none"
  BY <1>1, SlideOperands
<1>8. Brings(j) /\ (~Up(insn) => KeptOf(j - 1))
  BY <1>3 DEF SlideData
<1>9. /\ j < Words(insn) => Kept(insn, before, slide_buffer_q', j)
      /\ HasBytes(insn, before, rs2_q', w)
  <2>1. TakesWord
    BY <1>4, <1>8 DEF TakesWord, Brings
  <2>2. (Up(insn) /\ w = FirstWord(insn)) \/ KeptOf(j - 1)
    BY <1>4, <1>8
  <2> QED BY <1>1, <1>8, <2>1, <2>2, SlideTakes
<1>10. mem' = mem
  BY <1>1, <1>5, UnitMemory
<1>11. SlidePlace(w)'
  BY <1>2, <1>3, <1>4, <1>6 DEF SlidePlace, SlideLoop
<1>12. SlideCounts(w)'
  <2>1. SlideAsked(w) = j + 1 /\ SlideAsked(w)' = j + 1
    BY <1>2, <1>4, <1>6 DEF SlideAsked
  <2>2. j \in Nat
    BY <1>1, LeadIs
  <2> DEFINE acc == data_access(Op)
  <2>3. /\ SlideAsked(w) \in Nat /\ SlideAsked(w)' = (IF gnt /\ acc = "rs2" THEN SlideAsked(w) + 1 ELSE SlideAsked(w))
        /\ w = (IF gnt /\ acc = "write" THEN w + 1 ELSE w) /\ (gnt /\ acc = "write" => w < Words(insn))
        /\ acc \in {"none", "write", "rs2"}
    BY <1>5, <2>1, <2>2
  <2> QED BY <1>1, <1>2, <1>3, <2>3, SlideCountsMove
<1>13. SlideData(w)'
  BY <1>2, <1>6, <1>7, <1>9 DEF SlideData, KeptOf
<1> QED BY <1>2, <1>3, <1>10, <1>11, <1>12, <1>13 DEF SlideAt

(* A word is written while the next of the source arrives.                   *)
LEMMA SlideWriteBack ==
  ASSUME PortInv, NEW gnt \in BOOLEAN, NEW rvalid \in Answers, NEW i, NEW l, NEW r,
         Wired(gnt, rvalid, i, l, r), vector_op, Sliding(insn), NEW w, SlideAt(w),
         vrf_state = "READ", ~first_iteration_q
  PROVE  insn' = insn /\ before' = before /\ IF gnt THEN SlideAt(w + 1)' ELSE SlideAt(w)'
<1> DEFINE j == Lead(insn, w)
           E == EndWord(insn)
<1>1. /\ Slides /\ Active /\ InvType /\ insn.name \in SlideNames /\ insn.bytes \in Nat /\ insn.offset \in Nat
      /\ w \in FirstWord(insn) .. E /\ w \in FirstWord(insn) .. E - 1 /\ w \in Nat
      /\ FirstWord(insn) \in Nat /\ E \in Nat /\ E <= Words(insn) /\ Words(insn) \in Nat
      /\ slide_offset_q = Shift(insn) /\ delay_state \in {"none", "write"}
  BY SlideFacts
<1>2. insn' = insn /\ before' = before
  BY <1>1, UnitStays DEF Writing
<1>3. SlidePlace(w) /\ SlideCounts(w) /\ SlideData(w) /\ mem = Partial(insn, before, SlideUpto(insn, w))
  BY DEF SlideAt
<1>4. /\ last_iteration_q => w = E - 1
      /\ ~last_iteration_q => w + 1 < E /\ num_iterations_q = Remaining(insn, w) - 1
      /\ offset_q = Rest(insn)
      /\ slide_first_write_q <=> w = FirstWord(insn)
  BY <1>3 DEF SlidePlace
<1>5. /\ j \in Nat /\ Lead(insn, w + 1) = j + 1
      /\ Remaining(insn, w + 1) = Remaining(insn, w) - 1
  BY <1>1, LeadIs
<1>6. data_access(Op) = "write"
  BY <1>1, SlideAccess
<1>7. /\ vrf_state' = IF ~gnt THEN "READ" ELSE "WRITE"
      /\ first_iteration_q' = FALSE
      /\ slide_first_write_q' <=> slide_first_write_q /\ ~gnt
      /\ UNCHANGED <<num_iterations_q, last_iteration_q, offset_q, slide_offset_q>>
  BY <1>1, SlideMoves
<1>8. /\ delay_state' = IF ~gnt THEN "write" ELSE "none"
      /\ ~gnt => rd_q' = Out
  BY <1>1, SlideOperands
<1>9. HasBytes(insn, before, Out, w)
  <2>1. CASE delay_state = "write"
    BY <1>3, <2>1 DEF SlideData, Out
  <2>2. CASE delay_state # "write"
    <3>1. HasBytes(insn, before, rs2_q, w)
      BY <1>3, <2>2 DEF SlideData
    <3>2. \A k \in WordLanes : Out[k] = rs2_q[k]
      <4>1. \A k : alu_byte(rs3_q, k) = rs2_q[k]
        BY <1>1 DEF alu_byte, SlideNames
      <4> QED BY <2>2, <4>1 DEF Out, AluWord
    <3> QED BY <3>1, <3>2 DEF HasBytes, SlideBytes
  <2> QED BY <2>1, <2>2
<1>10. ~last_iteration_q =>
         /\ HasBytes(insn, before, rs2_q', w + 1)
         /\ j + 1 < Words(insn) => Kept(insn, before, slide_buffer_q', j + 1)
  <2> SUFFICES ASSUME ~last_iteration_q
               PROVE  /\ HasBytes(insn, before, rs2_q', w + 1)
                      /\ j + 1 < Words(insn) => Kept(insn, before, slide_buffer_q', j + 1)
    OBVIOUS
  <2>1. CASE delay_state = "write"
    <3>1. /\ bus = <<>> /\ HasBytes(insn, before, rs2_q, w + 1)
          /\ Lead(insn, w + 1) < Words(insn) => KeptOf(Lead(insn, w + 1))
      BY <1>3, <2>1 DEF SlideData
    <3>2. rs2_q' = rs2_q /\ slide_buffer_q' = slide_buffer_q
      BY <1>1, <3>1, SlideOperands DEF TakesWord
    <3>3. j + 1 < Words(insn) => KeptOf(j + 1)
      <4> HIDE DEF j
      <4> QED BY <1>5, <3>1
    <3> QED BY <3>1, <3>2, <3>3 DEF KeptOf
  <2>2. CASE delay_state # "write"
    <3>1. Brings(Lead(insn, w + 1)) /\ KeptOf(j)
      BY <1>3, <2>2 DEF SlideData
    <3>2. TakesWord
      BY <3>1 DEF TakesWord, Brings
    <3>3. Brings(j + 1) /\ KeptOf((j + 1) - 1) /\ w + 1 \in FirstWord(insn) .. E - 1
      <4>1. (j + 1) - 1 = j
        BY <1>5
      <4>2. w + 1 \in FirstWord(insn) .. E - 1
        <5> HIDE DEF E
        <5> QED BY <1>1, <1>4
      <4> HIDE DEF j, E
      <4> QED BY <1>5, <3>1, <4>1, <4>2
    <3>4. j + 1 = Lead(insn, w + 1)
      BY <1>5
    <3> HIDE DEF j
    <3> QED BY <1>1, <3>2, <3>3, <3>4, SlideTakes
  <2> QED BY <2>1, <2>2
<1>11. SlideAsked(w) = IF last_iteration_q THEN j + 1 ELSE j + 2
  BY <1>3 DEF SlideAsked
<1> DEFINE acc == data_access(Op)
<1>12. CASE gnt
  <2>1. mem' = Partial(insn, before, SlideUpto(insn, w + 1))
    <3>1. mem' = Stored(mem_if_addr(regs, "write"), data_be_o(Op), Out)
      BY <1>1, <1>6, <1>12, UnitMemory
    <3>2. data_be_o(Op) = SlideBytes(insn, w)
      BY <1>1, <1>3, SlideEnables DEF Active
    <3>3. insn.vd \in 0 .. 31 /\ insn.vd \in Nat /\ regs["rd"] = insn.vd /\ "rd" \in Ports /\ InItsBank(insn, insn.vd)
      BY <1>1, SlideFields
    <3>4. RegWords * (insn.vd % 8) + w < BankWords
      <4>1. w < Words(insn)
        <5> HIDE DEF E
        <5> QED BY <1>1
      <4> QED BY <1>1, <3>3, <4>1, InBank
    <3>5. mem_if_addr(regs, "write") = RegBytes * insn.vd + 4 * w
      <4>1. port("write") = "rd" /\ CounterAt("rd", w)
        BY <1>3 DEF port, SlideCounts
      <4> QED BY <1>1, <3>3, <3>4, <4>1, WordAddress
    <3> QED BY <1>1, <1>3, <1>9, <3>1, <3>2, <3>3, <3>5, StoresSlide
  <2>2. SlidePlace(w + 1)'
    <3>1. w + 1 \in FirstWord(insn) .. E /\ w + 1 # FirstWord(insn)
      <4> HIDE DEF E
      <4> QED BY <1>1
    <3>2. last_iteration_q => w + 1 = E
      <4> HIDE DEF E
      <4> QED BY <1>1, <1>4
    <3>3. ~last_iteration_q => w + 1 < E /\ num_iterations_q = Remaining(insn, w + 1)
      BY <1>4, <1>5
    <3> QED BY <1>1, <1>2, <1>4, <1>7, <1>12, <3>1, <3>2, <3>3 DEF SlidePlace, SlideLoop
  <2>3. SlideCounts(w + 1)'
    <3>1. SlideAsked(w + 1)' = IF last_iteration_q THEN Lead(insn, w + 1) ELSE Lead(insn, w + 1) + 1
      BY <1>2, <1>7, <1>12 DEF SlideAsked
    <3>2. SlideAsked(w + 1)' = SlideAsked(w) /\ SlideAsked(w) \in Nat
      <4> HIDE DEF j
      <4> QED BY <1>5, <1>11, <3>1
    <3>3. /\ SlideAsked(w + 1)' = (IF gnt /\ acc = "rs2" THEN SlideAsked(w) + 1 ELSE SlideAsked(w))
          /\ w + 1 = (IF gnt /\ acc = "write" THEN w + 1 ELSE w) /\ (gnt /\ acc = "write" => w < Words(insn))
          /\ acc \in {"none", "write", "rs2"} /\ w + 1 \in Nat
      <4> HIDE DEF E
      <4> QED BY <1>1, <1>6, <1>12, <3>2
    <3> QED BY <1>1, <1>2, <1>3, <3>2, <3>3, SlideCountsMove
  <2>4. SlideData(w + 1)'
    <3>1. ~last_iteration_q =>
            /\ HasBytes(insn, before, rs2_q', w + 1)
            /\ Lead(insn, w + 1) < Words(insn) => Kept(insn, before, slide_buffer_q', Lead(insn, w + 1))
      <4> HIDE DEF j
      <4> QED BY <1>5, <1>10
    <3> QED BY <1>2, <1>7, <1>8, <1>12, <3>1 DEF SlideData, KeptOf
  <2> QED BY <1>2, <1>12, <2>1, <2>2, <2>3, <2>4 DEF SlideAt
<1>13. CASE ~gnt
  <2>1. mem' = mem /\ bus' = <<>>
    BY <1>1, <1>13, UnitMemory
  <2>2. SlidePlace(w)'
    BY <1>1, <1>2, <1>4, <1>7, <1>13 DEF SlidePlace, SlideLoop
  <2>3. SlideCounts(w)'
    <3>1. SlideAsked(w)' = SlideAsked(w)
      BY <1>2, <1>7, <1>11, <1>13 DEF SlideAsked
    <3>2. SlideAsked(w) \in Nat
      <4> HIDE DEF j
      <4> QED BY <1>5, <1>11
    <3>3. /\ SlideAsked(w)' = (IF gnt /\ acc = "rs2" THEN SlideAsked(w) + 1 ELSE SlideAsked(w))
          /\ w = (IF gnt /\ acc = "write" THEN w + 1 ELSE w) /\ (gnt /\ acc = "write" => w < Words(insn))
          /\ acc \in {"none", "write", "rs2"}
      BY <1>6, <1>13, <3>1
    <3> QED BY <1>1, <1>2, <1>3, <3>2, <3>3, SlideCountsMove
  <2>4. SlideData(w)'
    <3>1. ~last_iteration_q =>
            /\ HasBytes(insn, before, rs2_q', w + 1)
            /\ Lead(insn, w + 1) < Words(insn) => Kept(insn, before, slide_buffer_q', Lead(insn, w + 1))
      <4> HIDE DEF j
      <4> QED BY <1>5, <1>10
    <3>2. HasBytes(insn, before, rd_q', w)
      BY <1>8, <1>9, <1>13
    <3> QED BY <1>2, <1>7, <1>8, <1>13, <2>1, <3>1, <3>2 DEF SlideData, KeptOf
  <2> QED BY <1>2, <1>3, <1>13, <2>1, <2>2, <2>3, <2>4 DEF SlideAt
<1> QED BY <1>2, <1>12, <1>13

(* The words are counted while the next of the source is asked for.          *)
LEMMA SlideCountsDown ==
  ASSUME PortInv, NEW gnt \in BOOLEAN, NEW rvalid \in Answers, NEW i, NEW l, NEW r,
         Wired(gnt, rvalid, i, l, r), vector_op, Sliding(insn), NEW w, SlideAt(w),
         vrf_state = "WRITE", ~last_iteration_q
  PROVE  insn' = insn /\ before' = before /\ SlideAt(w)'
<1> DEFINE j == Lead(insn, w)
           E == EndWord(insn)
           taken == final(Op) \/ gnt
<1>1. /\ Slides /\ Active /\ InvType /\ insn.name \in SlideNames /\ insn.bytes \in Nat /\ insn.offset \in Nat
      /\ w \in FirstWord(insn) .. E /\ w \in FirstWord(insn) .. E - 1 /\ w \in Nat
      /\ FirstWord(insn) \in Nat /\ E \in Nat /\ E <= Words(insn) /\ Words(insn) \in Nat
      /\ slide_offset_q = Shift(insn) /\ vector_op
  BY SlideFacts
<1>2. insn' = insn /\ before' = before
  BY <1>1, UnitStays
<1>3. SlidePlace(w) /\ SlideCounts(w) /\ SlideData(w) /\ mem = Partial(insn, before, SlideUpto(insn, w))
  BY DEF SlideAt
<1>4. /\ ~first_iteration_q /\ num_iterations_q = Remaining(insn, w) /\ offset_q = Rest(insn)
      /\ slide_first_write_q <=> w = FirstWord(insn)
  BY <1>3 DEF SlidePlace
<1>5. /\ final(Op) <=> w = E - 1
      /\ ~final(Op) => (num_iterations_q - 1) % MaxIterations = Remaining(insn, w) - 1
  BY <1>1, <1>4, SlideFinal
<1>6. data_access(Op) = IF final(Op) THEN "none" ELSE "rs2"
  BY <1>1, SlideAccess
<1>7. /\ vrf_state' = IF taken THEN "READ" ELSE "WRITE"
      /\ CountDown(Op, taken)
      /\ slide_first_write_q' <=> slide_first_write_q
      /\ UNCHANGED <<first_iteration_q, offset_q, slide_offset_q>>
  BY <1>1, SlideMoves
<1>8. delay_state' = "none" /\ rs2_q' = rs2_q /\ slide_buffer_q' = slide_buffer_q
  BY <1>1, SlideOperands DEF TakesWord
<1>9. /\ last_iteration_q' <=> taken /\ final(Op)
      /\ num_iterations_q' = IF taken /\ ~final(Op) THEN (num_iterations_q - 1) % MaxIterations ELSE num_iterations_q
  BY <1>7 DEF CountDown
<1>10. gnt => ~final(Op)
  BY <1>1, <1>6, UnitWires
<1>11. /\ j \in Nat /\ Lead(insn, w + 1) = j + 1 /\ (w + 1 < E => j < Words(insn))
       /\ ~Up(insn) => w <= j
  BY <1>1, LeadIs
<1>12. ~final(Op) => w + 1 < E
  <2> HIDE DEF E
  <2> QED BY <1>1, <1>5
<1>13. HasBytes(insn, before, rs2_q, w) /\ (j < Words(insn) => KeptOf(j))
  BY <1>3 DEF SlideData
<1>14. SlideAsked(w) = j + 1
  BY DEF SlideAsked
<1>15. mem' = mem /\ (gnt => Brings(j + 1)')
  <2>1. CASE gnt
    <3>1. data_access(Op) = "rs2"
      BY <1>6, <1>10, <2>1
    <3>2. j + 1 \in Nat /\ (Up(insn) \/ w <= j + 1) /\ (j + 1 < Words(insn) => CounterAt("rs2", j + 1))
      <4>1. SlideAsked(w) <= Words(insn) => CounterAt("rs2", SlideAsked(w))
        BY <1>3 DEF SlideCounts
      <4> HIDE DEF j
      <4> QED BY <1>1, <1>11, <1>14, <4>1
    <3>3. PICK y \in Nat : y = j + 1
      BY <3>2
    <3>4. (Up(insn) \/ w <= y) /\ (y < Words(insn) => CounterAt("rs2", y))
      BY <3>2, <3>3
    <3>5. Brings(y)' /\ mem' = mem
      BY <1>1, <1>2, <1>3, <2>1, <3>1, <3>4, SlideAsks
    <3> QED BY <1>2, <3>3, <3>5 DEF Brings
  <2>2. CASE ~gnt
    BY <1>1, <2>2, UnitMemory
  <2> QED BY <2>1, <2>2
<1> DEFINE acc == data_access(Op)
<1>16. SlideCounts(w)'
  <2>1. SlideAsked(w)' = IF gnt THEN j + 2 ELSE j + 1
    <3>1. CASE gnt
      <4>1. vrf_state' = "READ" /\ ~first_iteration_q' /\ ~last_iteration_q'
        BY <1>4, <1>7, <1>9, <1>10, <3>1
      <4> QED BY <1>2, <3>1, <4>1 DEF SlideAsked
    <3>2. CASE ~gnt /\ final(Op)
      <4>1. vrf_state' = "READ" /\ last_iteration_q'
        BY <1>7, <1>9, <3>2
      <4> QED BY <1>2, <3>2, <4>1 DEF SlideAsked
    <3>3. CASE ~gnt /\ ~final(Op)
      <4>1. vrf_state' = "WRITE" /\ ~last_iteration_q'
        BY <1>7, <1>9, <3>3
      <4> QED BY <1>2, <3>3, <4>1 DEF SlideAsked
    <3> QED BY <3>1, <3>2, <3>3
  <2>2. /\ SlideAsked(w) \in Nat /\ SlideAsked(w)' = (IF gnt /\ acc = "rs2" THEN SlideAsked(w) + 1 ELSE SlideAsked(w))
        /\ w = (IF gnt /\ acc = "write" THEN w + 1 ELSE w) /\ (gnt /\ acc = "write" => w < Words(insn))
        /\ acc \in {"none", "write", "rs2"}
    <3>1. acc \in {"none", "rs2"} /\ (gnt => acc = "rs2")
      BY <1>6, <1>10
    <3> HIDE DEF j, acc
    <3> QED BY <1>11, <1>14, <2>1, <3>1
  <2> QED BY <1>1, <1>2, <1>3, <2>2, SlideCountsMove
<1>17. CASE ~taken
  <2>1. vrf_state' = "WRITE" /\ ~last_iteration_q' /\ num_iterations_q' = num_iterations_q
    BY <1>7, <1>9, <1>17
  <2>2. w < E
    <3> HIDE DEF E
    <3> QED BY <1>1
  <2>3. SlidePlace(w)'
    BY <1>1, <1>2, <1>4, <1>7, <2>1, <2>2 DEF SlidePlace, SlideLoop
  <2>4. SlideData(w)'
    BY <1>2, <1>8, <1>13, <2>1 DEF SlideData, KeptOf
  <2> QED BY <1>2, <1>3, <1>15, <1>16, <2>3, <2>4 DEF SlideAt
<1>18. CASE taken
  <2>1. vrf_state' = "READ" /\ ~first_iteration_q' /\ (last_iteration_q' <=> final(Op))
    BY <1>4, <1>7, <1>9, <1>18
  <2>2. ~final(Op) => num_iterations_q' = Remaining(insn, w) - 1
    BY <1>5, <1>9, <1>18
  <2>3. SlidePlace(w)'
    BY <1>1, <1>2, <1>4, <1>5, <1>7, <1>12, <2>1, <2>2 DEF SlidePlace, SlideLoop
  <2>4. ~last_iteration_q' => Brings(Lead(insn, w + 1))' /\ KeptOf(Lead(insn, w))'
    <3> SUFFICES ASSUME ~final(Op) PROVE Brings(Lead(insn, w + 1))' /\ KeptOf(Lead(insn, w))'
      BY <2>1
    <3>1. gnt
      BY <1>18
    <3>2. Lead(insn, w + 1)' = j + 1
      BY <1>2, <1>11
    <3>3. Brings(j + 1)'
      BY <1>15, <3>1
    <3>4. KeptOf(j)
      BY <1>11, <1>12, <1>13
    <3> QED BY <1>2, <1>8, <3>2, <3>3, <3>4 DEF Brings, KeptOf
  <2>5. SlideData(w)'
    BY <1>2, <1>8, <1>13, <2>1, <2>4 DEF SlideData
  <2> QED BY <1>2, <1>3, <1>15, <1>16, <2>3, <2>5 DEF SlideAt
<1> QED BY <1>2, <1>17, <1>18

(* The last word is written: the slide has had its effect.                   *)
LEMMA SlideEnds ==
  ASSUME PortInv, NEW gnt \in BOOLEAN, NEW rvalid \in Answers, NEW i, NEW l, NEW r,
         Wired(gnt, rvalid, i, l, r), vector_op, Sliding(insn), NEW w, SlideAt(w),
         vrf_state = "WRITE", last_iteration_q
  PROVE  ~first /\ before' = mem' /\ before' = ISA!Effect(insn, before)
<1>1. /\ Slides /\ Active /\ InvType /\ insn.name \in SlideNames /\ insn.bytes \in Nat /\ insn.offset \in Nat
  BY SlideFacts
<1>2. ~first /\ before' = mem'
  BY <1>1, UnitStays DEF Writing
<1>3. data_access(Op) = "none"
  BY <1>1, SlideAccess
<1>4. mem' = mem
  BY <1>1, <1>3, UnitMemory
<1>5. mem = Partial(insn, before, Ends(insn))
  BY DEF SlideAt, SlidePlace, SlideUpto
<1>6. insn.vd \in Nat
  BY <1>1, SlideFields
<1>7. ISA!Effect(insn, before) = Partial(insn, before, Ends(insn))
  BY <1>1, <1>6, PartialAll
<1> QED BY <1>2, <1>4, <1>5, <1>7

(* A step of a slide that is under way.                                      *)
LEMMA SlideStep ==
  ASSUME PortInv, NEW gnt \in BOOLEAN, NEW rvalid \in Answers, NEW i, NEW l, NEW r,
         Wired(gnt, rvalid, i, l, r), vector_op, Sliding(insn), NEW w, SlideAt(w)
  PROVE  IF vrf_state = "WRITE" /\ last_iteration_q
           THEN ~first /\ before' = mem' /\ before' = ISA!Effect(insn, before)
           ELSE insn' = insn /\ before' = before /\ \E v : SlideAt(v)'
<1>1. vrf_state \in {"LOAD_SLIDE", "READ", "WRITE"}
  BY SlideFacts DEF SlideLoop
<1>2. CASE vrf_state = "LOAD_SLIDE"
  BY <1>2, SlideLoads
<1>3. CASE vrf_state = "READ" /\ first_iteration_q
  BY <1>3, SlideFirst
<1>4. CASE vrf_state = "READ" /\ ~first_iteration_q
  BY <1>4, SlideWriteBack
<1>5. CASE vrf_state = "WRITE" /\ ~last_iteration_q
  BY <1>5, SlideCountsDown
<1>6. CASE vrf_state = "WRITE" /\ last_iteration_q
  BY <1>6, SlideEnds
<1> QED BY <1>1, <1>2, <1>3, <1>4, <1>5, <1>6

----------------------------------------------------------------------------
LEMMA BankRest ==
  ASSUME NEW r \in 0 .. 31, NEW y \in Nat, RegWords * (r % 8) + y < BankWords
  PROVE  (RegWords * r + y) % BankWords = (RegWords * (r % 8) + y) % BankWords
<1> DEFINE B == BankWords
           x == RegWords * (r % 8) + y
           d == r \div 8
<1>1. B \in Nat \ {0} /\ x \in Nat /\ x < B /\ d \in 0 .. 3
  <2>1. RegWords \in Nat \ {0} /\ r % 8 \in Nat
    BY RegWordsAssumption
  <2>2. RegWords * (r % 8) \in Nat /\ BankWords \in Nat \ {0}
    BY <2>1 DEF BankWords
  <2> QED BY <2>2
<1>2. RegWords * r + y = B * d + x
  <2>1. B * d + RegWords * (r % 8) = RegWords * r
    BY BankOf
  <2>2. RegWords * (r % 8) \in Nat /\ B * d \in Nat
    <3>1. r % 8 \in Nat
      OBVIOUS
    <3>2. RegWords * (r % 8) \in Nat
      BY <3>1, RegWordsAssumption
    <3> HIDE DEF B, d
    <3> QED BY <1>1, <3>2
  <2> QED BY <2>1, <2>2
<1> HIDE DEF B, d, x
<1>3. (B * d + x) % B = x
  <2>1. d = 0 \/ d = 1 \/ d = 2 \/ d = 3
    BY <1>1
  <2>2. x % B = x /\ (B + x) % B = x /\ (2 * B + x) % B = x /\ (3 * B + x) % B = x
    BY <1>1
  <2>3. B * 0 + x = x /\ B * 1 + x = B + x /\ B * 2 + x = 2 * B + x /\ B * 3 + x = 3 * B + x
    BY <1>1
  <2> QED BY <2>1, <2>2, <2>3
<1>4. x % B = x
  BY <1>1
<1> QED BY <1>2, <1>3, <1>4 DEF B, x

(* The slide sets out: its counters stand at the words it begins with.       *)
LEMMA SlideSetsOut ==
  ASSUME HeldInv, NEW gnt \in BOOLEAN, NEW rvalid \in Answers, NEW i, NEW l, NEW r,
         Wired(gnt, rvalid, i, l, r), vector_op, Sliding(insn), vrf_state = "IDLE",
         insn' = insn, before' = before, mem = before, delay_state' = "none"
  PROVE  vrf_state' = "START" /\ SlideBegun'
<1> DEFINE S == Skip(insn)
           q == Count(insn)
<1>1. InvType /\ PortInv
  BY DEF HeldInv, PortInv
<1>2. /\ insn.name \in SlideNames /\ insn.bytes \in Nat /\ insn.offset \in Nat
      /\ insn.vd \in 0 .. 31 /\ insn.vs2 \in 0 .. 31
      /\ regs["rd"] = insn.vd /\ regs["rs2"] = insn.vs2 /\ "rd" \in Ports /\ "rs2" \in Ports
      /\ InItsBank(insn, insn.vd) /\ InItsBank(insn, insn.vs2)
  BY <1>1, SlideFields
<1>3. /\ S \in Nat /\ q \in Nat /\ S <= q /\ q < MaxIterations /\ S < Words(insn)
      /\ insn.offset = 4 * S + Shift(insn) /\ Shift(insn) \in 0 .. 3
      /\ insn.bytes # 0
      /\ Up(insn) => FirstWord(insn) = S
      /\ ~Up(insn) => FirstWord(insn) = 0
  <2>1. insn.bytes # 0
    BY <1>2 DEF Sliding
  <2> QED BY <1>2, <2>1, SlideNumbers
<1>4. i.op = Decoded /\ i.req /\ i.bytes = insn.bytes /\ i.slide_offset = insn.offset /\ Counters(i) /\ Fsm(i)
  BY <1>1, Wires, SwitchWires DEF Wired, VrfCycle
<1>5. i.op.slide_op = TRUE /\ slide_op /\ (insn.name = "vslideup" <=> Up(insn))
  BY <1>2, <1>4, SlideOps DEF Up
<1>6. agu_load_o(i)
  BY <1>3, <1>4 DEF agu_load_o
<1>7. VrfIdle(i)
  BY <1>4, FsmStates
<1>8. /\ vrf_state' = "START" /\ ~last_iteration_q'
      /\ num_iterations_q' = iterations(i) /\ offset_q' = Rest(insn) /\ slide_offset_q' = Shift(insn)
  BY <1>4, <1>5, <1>6, <1>7 DEF VrfIdle, Rest, Shift, slide_offset_d
<1>9. iterations(i) = q - S
  <2>1. iterations(i) = (q - S) % MaxIterations
    BY <1>4, <1>5 DEF iterations, Count, Skip
  <2> HIDE DEF q, S
  <2>2. q - S \in 0 .. MaxIterations - 1
    BY <1>3, MaxIterationsAssumption
  <2>3. (q - S) % MaxIterations = q - S
    BY <2>2, MaxIterationsAssumption
  <2> QED BY <2>1, <2>3
<1>10. mem' = before'
  BY <1>1, IdleMemory
<1>11. regs' = regs
  BY SameInstruction
<1>12. addr_q' = [p \in Ports |->
                    IF p = (IF Up(insn) THEN "rd" ELSE "rs2")
                      THEN ((slide_start_addr(regs, insn.name = "vslideup") + insn.offset) \div 4) % BankWords
                      ELSE RegWords * (regs[p] % 8)]
  BY <1>4, <1>5, <1>6 DEF Counters, AguLoad
<1>13. slide_start_addr(regs, insn.name = "vslideup") = 4 * RegWords * (IF Up(insn) THEN insn.vd ELSE insn.vs2)
  BY <1>2, <1>5 DEF slide_start_addr
<1>14. ASSUME NEW v \in 0 .. 31, InItsBank(insn, v)
       PROVE  /\ ((4 * RegWords * v + insn.offset) \div 4) % BankWords = (RegWords * (v % 8) + S) % BankWords
              /\ RegWords * (v % 8) = (RegWords * (v % 8) + 0) % BankWords
  <2>1. RegWords * (v % 8) + S < BankWords
    BY <1>2, <1>3, <1>14, InBank
  <2>2. (RegWords * v + S) % BankWords = (RegWords * (v % 8) + S) % BankWords
    BY <1>3, <2>1, BankRest
  <2>3. RegWords * v \in Nat /\ RegWords * (v % 8) \in Nat /\ BankWords \in Nat \ {0} /\ RegWords \in Nat
    <3>1. RegWords \in Nat \ {0} /\ v % 8 \in Nat /\ v \in Nat
      BY RegWordsAssumption
    <3> QED BY <3>1 DEF BankWords
  <2> DEFINE x == RegWords * v
             z == RegWords * (v % 8)
             h == Shift(insn)
  <2>4. 4 * RegWords * v = 4 * x
    BY <2>3
  <2>5. insn.offset = 4 * S + h /\ h \in 0 .. 3 /\ S \in Nat
    BY <1>3
  <2>6. x \in Nat /\ z \in Nat /\ z + S < BankWords /\ BankWords \in Nat \ {0}
    BY <2>1, <2>3
  <2> HIDE DEF x, z, h, S
  <2>7. (4 * x + insn.offset) \div 4 = x + S
    <3>1. 4 * x + insn.offset = 4 * (x + S) + h
      BY <2>5, <2>6
    <3> QED BY <2>5, <2>6, <3>1
  <2>8. z = (z + 0) % BankWords
    BY <2>5, <2>6
  <2> QED BY <2>2, <2>4, <2>7, <2>8 DEF x, z
<1>15. CounterAt("rd", FirstWord(insn))' /\ CounterAt("rs2", IF Up(insn) THEN 0 ELSE S)'
  <2> DEFINE A(v) == ((4 * RegWords * v + insn.offset) \div 4) % BankWords
             Z(v) == RegWords * (v % 8)
             C(v, k) == (RegWords * (v % 8) + k) % BankWords
  <2>1. /\ addr_q'["rd"] = IF Up(insn) THEN A(insn.vd) ELSE Z(insn.vd)
        /\ addr_q'["rs2"] = IF Up(insn) THEN Z(insn.vs2) ELSE A(insn.vs2)
    BY <1>2, <1>12, <1>13
  <2>2. \A v \in {insn.vd, insn.vs2} : A(v) = C(v, S) /\ Z(v) = C(v, 0)
    BY <1>2, <1>14
  <2>3. /\ CounterAt("rd", FirstWord(insn))' <=> addr_q'["rd"] = C(insn.vd, FirstWord(insn))
        /\ CounterAt("rs2", IF Up(insn) THEN 0 ELSE S)' <=> addr_q'["rs2"] = C(insn.vs2, IF Up(insn) THEN 0 ELSE S)
    BY <1>2, <1>11 DEF CounterAt
  <2> HIDE DEF A, Z, C, S
  <2>4. CASE Up(insn)
    BY <1>3, <2>1, <2>2, <2>3, <2>4
  <2>5. CASE ~Up(insn)
    BY <1>3, <2>1, <2>2, <2>3, <2>5
  <2> QED BY <2>4, <2>5
<1> QED BY <1>8, <1>9, <1>10, <1>15 DEF SlideBegun

----------------------------------------------------------------------------
(* Any program: memory changes with a slide word by word.                    *)
SlideProgress ==
  vector_op /\ ~first /\ Sliding(insn) =>
    /\ vrf_state # "IDLE"
    /\ vrf_state = "START" => SlideBegun
    /\ vrf_state # "START" => \E w : SlideAt(w)

SlideInv == LaneInv /\ SlideProgress

LEMMA StepSlide ==
  ASSUME SlideInv, OnlyStoresAreLate, MemoryWaitsOnce,
         NEW gnt \in BOOLEAN, NEW rvalid \in Answers, Cycle(gnt, rvalid)
  PROVE  SlideInv' /\ (insn = None \/ Lane(insn) \/ Sliding(insn) => AbstractStep)
<1>1. PICK i, l, r : Wired(gnt, rvalid, i, l, r)
  BY Edge DEF Wired
<1>2. LaneInv /\ HeldInv /\ PortInv /\ InvType /\ Progress /\ SlideProgress
  BY DEF SlideInv, LaneInv, HeldInv, PortInv
<1>3. LaneInv' /\ (insn = None \/ Lane(insn) => AbstractStep)
  BY <1>2, StepLane
<1> DEFINE done == vector_op /\ ~first /\ vector_done_o(i)
<1>4. /\ insn' \in Instructions \cup {None}
      /\ done => before' = mem'
      /\ insn = None \/ done => insn' = None \/ first'
      /\ vector_op /\ ~done => insn' = insn /\ first' = FALSE /\ before' = before
  <2>1. Stage(i)
    BY <1>1 DEF Wired
  <2> QED BY <1>2, <2>1, StageSteps
<1>5. vrf_state # "IDLE" => vector_op /\ ~first
  BY <1>2 DEF PortInv, Sequencing
<1> HIDE DEF done
<1>6. ASSUME insn' = None \/ first' PROVE SlideProgress'
  BY <1>6 DEF SlideProgress, vector_op
<1>7. ASSUME insn' = insn,
             /\ vrf_state' # "IDLE"
             /\ vrf_state' = "START" => SlideBegun'
             /\ vrf_state' # "START" => \E w : SlideAt(w)'
      PROVE  SlideProgress'
  BY <1>7 DEF SlideProgress
<1>8. CASE ~vector_op
  <2>1. SlideProgress'
    BY <1>4, <1>6, <1>8 DEF vector_op
  <2> QED BY <1>3, <1>8, <2>1 DEF SlideInv, vector_op, Sliding, SlideNames, None, ISA!None
<1>9. CASE vector_op /\ ~Sliding(insn)
  <2>1. done => SlideProgress'
    BY <1>4, <1>6
  <2>2. ~done => SlideProgress'
    BY <1>4, <1>9 DEF SlideProgress
  <2> QED BY <1>3, <1>9, <2>1, <2>2 DEF SlideInv, vector_op
<1>10. CASE vector_op /\ Sliding(insn) /\ vrf_state = "IDLE"
  <2>1. first /\ mem = before /\ delay_state = "none"
    BY <1>2, <1>10 DEF SlideProgress, Progress, HeldInv, Delayed, InvType, VrfRegs
  <2>2. insn' = insn /\ before' = before
    BY <1>4, <1>10, <2>1 DEF done
  <2>3. delay_state' = "none"
    <3>1. DelayFsm(i)
      BY <1>1 DEF Wired, VrfCycle
    <3> QED BY <1>10, <2>1, <3>1 DEF DelayFsm, delayed, write_delayed, read_delayed, store_ready
  <2>4. vrf_state' = "START" /\ SlideBegun'
    BY <1>1, <1>2, <1>10, <2>1, <2>2, <2>3, SlideSetsOut
  <2>5. SlideProgress'
    BY <1>7, <2>2, <2>4
  <2> QED BY <1>3, <2>2, <2>5 DEF SlideInv, AbstractStep
<1>11. CASE vector_op /\ Sliding(insn) /\ vrf_state = "START"
  <2>1. SlideBegun /\ Plain(mem)
    BY <1>2, <1>5, <1>11 DEF SlideProgress, Progress
  <2>2. insn' = insn /\ before' = before
        /\ IF gnt THEN SlideAt(FirstWord(insn))' ELSE SlideBegun' /\ vrf_state' = "START"
    BY <1>1, <1>2, <1>11, <2>1, SlideStarts
  <2>3. \A w : SlideAt(w)' => vrf_state' \notin {"IDLE", "START"}
    BY DEF SlideAt, SlidePlace, SlideLoop
  <2>4. CASE gnt
    <3>1. PICK w : w = FirstWord(insn)
      OBVIOUS
    <3>2. SlideAt(w)'
      BY <2>2, <2>4, <3>1
    <3>3. SlideProgress'
      BY <1>7, <2>2, <2>3, <3>2
    <3> QED BY <1>3, <2>2, <3>3 DEF SlideInv, AbstractStep
  <2>5. CASE ~gnt
    <3>1. SlideProgress'
      BY <1>7, <2>2, <2>5
    <3> QED BY <1>3, <2>2, <3>1 DEF SlideInv, AbstractStep
  <2> QED BY <2>4, <2>5
<1>12. CASE vector_op /\ Sliding(insn) /\ vrf_state \notin {"IDLE", "START"}
  <2>1. PICK w : SlideAt(w)
    BY <1>2, <1>5, <1>12 DEF SlideProgress
  <2>2. IF vrf_state = "WRITE" /\ last_iteration_q
          THEN ~first /\ before' = mem' /\ before' = ISA!Effect(insn, before)
          ELSE insn' = insn /\ before' = before /\ \E v : SlideAt(v)'
    BY <1>1, <1>2, <1>12, <2>1, SlideStep
  <2>3. done <=> vrf_state = "WRITE" /\ last_iteration_q
    <3>1. vrf_state \in SlideLoop
      BY <2>1 DEF SlideAt, SlidePlace
    <3> QED BY <1>5, <1>12, <3>1 DEF done, vector_done_o, lsu_answered, SlideLoop
  <2>4. CASE done
    <3>1. AbstractStep
      BY <1>4, <1>12, <2>2, <2>3, <2>4 DEF AbstractStep, ISA!Complete, None, vector_op
    <3>2. SlideProgress'
      BY <1>4, <1>6, <2>4
    <3> QED BY <1>3, <3>1, <3>2 DEF SlideInv
  <2>5. CASE ~done
    <3>1. insn' = insn /\ before' = before /\ \E v : SlideAt(v)'
      BY <2>2, <2>3, <2>5
    <3>2. \A v : SlideAt(v)' => vrf_state' \notin {"IDLE", "START"}
      BY DEF SlideAt, SlidePlace, SlideLoop
    <3>3. SlideProgress'
      BY <1>7, <3>1, <3>2
    <3> QED BY <1>3, <3>1, <3>3 DEF SlideInv, AbstractStep
  <2> QED BY <2>4, <2>5
<1> QED BY <1>8, <1>9, <1>10, <1>11, <1>12

LEMMA InitSlide == Init => SlideInv
<1> SUFFICES ASSUME Init PROVE SlideInv
  OBVIOUS
<1>1. insn = None
  BY DEF Init
<1> QED BY <1>1, InitLane DEF SlideInv, SlideProgress, vector_op

LEMMA StutterSlide ==
  ASSUME SlideInv, UNCHANGED vars
  PROVE  SlideInv'
<1>1. LaneInv'
  BY StutterLane DEF SlideInv
<1>2. /\ UNCHANGED <<vrf_state, num_iterations_q, offset_q, first_iteration_q, last_iteration_q,
                     slide_offset_q, slide_first_write_q, slide_buffer_q>>
      /\ UNCHANGED <<rs2_q, rd_q, delay_state, addr_q, bus, mem, before, insn, first>>
  BY DEF vars, vrfVars
<1>3. regs' = regs
  BY <1>2, SameInstruction
<1>4. \A w : SlideAt(w) => SlideAt(w)'
  <2> SUFFICES ASSUME NEW w, SlideAt(w) PROVE SlideAt(w)'
    OBVIOUS
  <2>1. SlidePlace(w)'
    BY <1>2 DEF SlideAt, SlidePlace
  <2>2. SlideCounts(w)'
    <3>1. SlideAsked(w)' = SlideAsked(w)
      BY <1>2 DEF SlideAsked
    <3> QED BY <1>2, <1>3, <3>1 DEF SlideAt, SlideCounts, CounterAt
  <2>3. SlideData(w)'
    <3>1. /\ Brings(Lead(insn, w) - 1)' <=> Brings(Lead(insn, w) - 1)
          /\ Brings(Lead(insn, w))' <=> Brings(Lead(insn, w))
          /\ Brings(Lead(insn, w + 1))' <=> Brings(Lead(insn, w + 1))
          /\ KeptOf(Lead(insn, w) - 1)' <=> KeptOf(Lead(insn, w) - 1)
          /\ KeptOf(Lead(insn, w))' <=> KeptOf(Lead(insn, w))
          /\ KeptOf(Lead(insn, w + 1))' <=> KeptOf(Lead(insn, w + 1))
      BY <1>2 DEF Brings, KeptOf
    <3> QED BY <1>2, <3>1 DEF SlideAt, SlideData
  <2> QED BY <1>2, <2>1, <2>2, <2>3 DEF SlideAt
<1>5. SlideBegun => SlideBegun'
  BY <1>2, <1>3 DEF SlideBegun, CounterAt
<1>6. SlideProgress'
  BY <1>2, <1>4, <1>5 DEF SlideInv, SlideProgress, vector_op
<1> QED BY <1>1, <1>6 DEF SlideInv

THEOREM SlideInvariance == OnlyStoresAreLate /\ MemoryWaitsOnce => (Spec => []SlideInv)
<1> SUFFICES ASSUME OnlyStoresAreLate, MemoryWaitsOnce PROVE Spec => []SlideInv
  OBVIOUS
<1>1. SlideInv /\ [Next]_vars => SlideInv'
  BY StepSlide, StutterSlide DEF Next
<1> QED BY <1>1, InitSlide, PTL DEF Spec

(* Whatever runs before and after it, a slide moves every byte of its        *)
(* destination it should and no other, from where the source had it when it  *)
(* began: also over its own source, across words, with a refused write under *)
(* way, and past the last word of the source.                                *)
THEOREM SlidesTakeEffect ==
  OnlyStoresAreLate /\ MemoryWaitsOnce =>
    (Spec => [][insn = None \/ Sliding(insn) => [ISA!Begin \/ ISA!Complete]_<<before, insn>>]_vars)
<1> SUFFICES ASSUME OnlyStoresAreLate, MemoryWaitsOnce
             PROVE  Spec => [][insn = None \/ Sliding(insn) => [ISA!Begin \/ ISA!Complete]_<<before, insn>>]_vars
  OBVIOUS
<1>1. SlideInv /\ [Next]_vars =>
        [insn = None \/ Sliding(insn) => [ISA!Begin \/ ISA!Complete]_<<before, insn>>]_vars
  BY StepSlide DEF Next, AbstractStep
<1> QED BY <1>1, SlideInvariance, PTL DEF Spec

(* Programs of arithmetic, moves and slides, with any waits of the memory,   *)
(* implement the abstract machine.                                           *)
THEOREM ProgramsTakeEffect ==
  OnlyStoresAreLate /\ (\A n \in Instructions : Lane(n) \/ Sliding(n)) => (Spec => InstructionsTakeEffect)
<1> SUFFICES ASSUME OnlyStoresAreLate, \A n \in Instructions : Lane(n) \/ Sliding(n)
             PROVE  Spec => InstructionsTakeEffect
  OBVIOUS
<1>1. MemoryWaitsOnce
  <2> SUFFICES ASSUME NEW s \in Scenarios, NEW k \in DOMAIN s.program
               PROVE  s.program[k].name \notin ISA!Loads \cup ISA!Stores
    BY DEF MemoryWaitsOnce
  <2>1. s.program[k] \in Instructions
    BY DEF Instructions
  <2>2. s.program[k].name \in LaneNames \cup SlideNames
    BY <2>1 DEF Lane, Sliding
  <2> QED BY <2>2 DEF LaneNames, SlideNames, ISA!Loads, ISA!Stores
<1>2. Init => ISA!AInit
  BY DEF Init, ISA!AInit, None
<1>3. SlideInv /\ [Next]_vars => [ISA!Begin \/ ISA!Complete]_<<before, insn>>
  <2> SUFFICES ASSUME SlideInv, [Next]_vars PROVE [ISA!Begin \/ ISA!Complete]_<<before, insn>>
    OBVIOUS
  <2>1. CASE Next
    <3>1. insn = None \/ Lane(insn) \/ Sliding(insn)
      BY DEF SlideInv, LaneInv, HeldInv, PortInv, InvType, TypeOK
    <3> QED BY <1>1, <2>1, <3>1, StepSlide DEF Next, AbstractStep
  <2>2. CASE UNCHANGED vars
    BY <2>2 DEF vars
  <2> QED BY <2>1, <2>2
<1> QED BY <1>1, <1>2, <1>3, SlideInvariance, PTL DEF Spec, InstructionsTakeEffect, ISA!ASpec
=============================================================================
