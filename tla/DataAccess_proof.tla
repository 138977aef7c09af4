-------------------------- MODULE DataAccess_proof --------------------------
(***************************************************************************)
(* The load/store unit in its environment, for every size of the address    *)
(* space, every set of addresses, and every timing of the data bus.          *)
(***************************************************************************)
EXTENDS DataAccess, SequenceTheorems, TLAPS

(* An access by its halves: the word it starts in, and the one after it.    *)
offset(a) == a.addr % 4
first_word(a) == Word(a.addr)
second_word(a) == Word(a.addr + 4)
split(a) == (a.type = "word" /\ offset(a) # 0) \/ (a.type = "half" /\ offset(a) = 3)

(* The request of either half, and what the registers behind ctrl_update     *)
(* keep of the access.                                                        *)
first_lanes(a) == (offset(a) .. offset(a) + Size(a.type) - 1) \cap Lanes
second_lanes(a) == 0 .. offset(a) + Size(a.type) - 5
rotated(a) == IF a.we THEN [k \in Lanes |-> (k - offset(a)) % 4] ELSE [k \in Lanes |-> Noise]
first_request(a) == [word |-> first_word(a), we |-> a.we, be |-> first_lanes(a), wdata |-> rotated(a)]
second_request(a) == [word |-> second_word(a), we |-> a.we, be |-> second_lanes(a), wdata |-> rotated(a)]
control(a) == [offset |-> offset(a), type |-> a.type, sign_ext |-> a.sign_ext, we |-> a.we]

(* What is denied is never on the bus.                                        *)
first_denied(a) == first_word(a) \in a.denied
second_denied(a) == second_word(a) \in a.denied
queued(denied, req) == IF denied THEN <<>> ELSE <<req>>
offered(denied, req) == IF denied THEN NoRequest ELSE [r |-> req, granted |-> FALSE]
taken(word, err) == IF err THEN {word} ELSE {}
Settled == request = NoRequest \/ request.granted

(* The bytes of the operand and where they belong: all of them, and those of *)
(* either half.                                                              *)
asked(a) == {<<(a.addr + k) % NumBytes, k>> : k \in 0 .. Size(a.type) - 1}
first_half(a) == {<<first_word(a) + k, (k - offset(a)) % 4>> : k \in first_lanes(a)}
second_half(a) == {<<second_word(a) + k, (k - offset(a)) % 4>> : k \in second_lanes(a)}

(* What the first half has written, and what it has loaded.                  *)
first_written(a, err) == IF a.we /\ ~err THEN first_half(a) ELSE {}
FirstLoaded(a) == ~a.we /\ ~lsu_err_q => \A k \in 1 .. 3 : rdata_q[k] = first_word(a) + k

----------------------------------------------------------------------------
(* The phases of an access.                                                  *)
Unasked ==
  /\ access = NoAccess \/ access.first
  /\ ls_fsm_cs = "IDLE" /\ ~handle_misaligned_q /\ ~pmp_err_q
  /\ bus = <<>> /\ request = NoRequest /\ written = {} /\ failed = {}

Asked(a) ==
  /\ ls_fsm_cs = (IF split(a) THEN "WAIT_GNT_MIS" ELSE "WAIT_GNT")
  /\ ~handle_misaligned_q /\ ~lsu_err_q /\ pmp_err_q = first_denied(a)
  /\ bus = <<>> /\ request = offered(first_denied(a), first_request(a))
  /\ written = {} /\ failed = taken(first_word(a), first_denied(a))

Single(a) ==
  /\ ~split(a) /\ ls_fsm_cs = "IDLE"
  /\ ~handle_misaligned_q /\ ~lsu_err_q /\ pmp_err_q = first_denied(a)
  /\ bus = queued(first_denied(a), first_request(a)) /\ Settled
  /\ written = {} /\ failed = taken(first_word(a), first_denied(a))
  /\ ctrl_q = control(a) /\ addr_last_q = a.addr

(* The first half is granted or denied; the second is asked for.             *)
FirstGranted(a) ==
  /\ split(a) /\ ls_fsm_cs = "WAIT_RVALID_MIS"
  /\ handle_misaligned_q /\ ~lsu_err_q /\ pmp_err_q = first_denied(a)
  /\ bus = queued(first_denied(a), first_request(a))
  /\ Settled \/ request = offered(second_denied(a), second_request(a))
  /\ written = {}
  /\ failed \in {taken(first_word(a), first_denied(a)),
                 taken(first_word(a), first_denied(a)) \cup taken(second_word(a), second_denied(a))}
  /\ ctrl_q = control(a) /\ addr_last_q = a.addr

(* Both are granted, the first is not answered.                               *)
BothGranted(a) ==
  /\ split(a) /\ ls_fsm_cs = "WAIT_RVALID_MIS_GNTS_DONE"
  /\ ~handle_misaligned_q /\ ~lsu_err_q /\ ~pmp_err_q /\ ~first_denied(a)
  /\ bus = (IF second_denied(a) THEN <<first_request(a)>> ELSE <<first_request(a), second_request(a)>>)
  /\ Settled
  /\ written = {} /\ failed = taken(second_word(a), second_denied(a))
  /\ ctrl_q = control(a) /\ addr_last_q = a.addr

(* The first half is over, with or without an error.                          *)
FirstOver(a) ==
  /\ split(a) /\ pmp_err_q = second_denied(a)
  /\ first_denied(a) => lsu_err_q
  /\ written = first_written(a, lsu_err_q)
  /\ failed = taken(first_word(a), lsu_err_q) \cup taken(second_word(a), second_denied(a))
  /\ ctrl_q = control(a)
  /\ FirstLoaded(a)

SecondAsked(a) ==
  /\ FirstOver(a)
  /\ ls_fsm_cs = "WAIT_GNT" /\ handle_misaligned_q /\ addr_last_q = a.addr
  /\ bus = <<>> /\ request = offered(second_denied(a), second_request(a))

SecondGranted(a) ==
  /\ FirstOver(a)
  /\ ls_fsm_cs = "IDLE" /\ ~handle_misaligned_q
  /\ addr_last_q = (IF lsu_err_q THEN a.addr ELSE second_word(a))
  /\ bus = queued(second_denied(a), second_request(a)) /\ Settled

Underway(a) == Asked(a) \/ Single(a) \/ FirstGranted(a) \/ BothGranted(a) \/ SecondAsked(a) \/ SecondGranted(a)

Phase == Unasked \/ (current /\ ~access.first /\ Underway(access.a))

(* The response to an access is the right one.                                *)
Correct == LoadsReadTheirBytes /\ StoresWriteTheirBytes /\ FaultsAreReported /\ FirstFailingAddress

IInv == TypeOK /\ Phase /\ OneAnswerPerAccess /\ Correct

----------------------------------------------------------------------------
(* Addresses wrap, and a word and its successor are different.               *)
LEMMA Wrap == \A x \in 0 .. 2 * NumBytes - 1 : x % NumBytes = IF x < NumBytes THEN x ELSE x - NumBytes
BY NumBytesAssumption

LEMMA Words ==
  ASSUME NEW x \in Addr
  PROVE  LET y == (x + 4) % NumBytes
         IN  /\ x % 4 \in Lanes /\ y \in Addr /\ y % 4 = x % 4
             /\ Word(x) = x - (x % 4) /\ Word(x + 4) = y - (y % 4)
             /\ w_aligned(y) = Word(x + 4) /\ Word(y) = Word(x + 4)
             /\ \A k \in Lanes : Word(x) + k \in Addr /\ Word(x + 4) + k \in Addr
             /\ Word(x) # Word(x + 4)
             /\ \A k \in Lanes : (x + k) % NumBytes = IF (x % 4) + k < 4 THEN Word(x) + ((x % 4) + k)
                                                        ELSE Word(x + 4) + ((x % 4) + k - 4)
<1> DEFINE y == (x + 4) % NumBytes
<1>1. PICK n \in Nat : NumBytes = 4 * n /\ n >= 2
  <2>1. NumBytes = 4 * (NumBytes \div 4) /\ NumBytes \div 4 \in Nat
    BY NumBytesAssumption
  <2> QED BY <2>1, TwoWordsAssumption
<1>2. PICK q \in Nat, o \in Lanes : x = 4 * q + o
  <2>1. x = 4 * (x \div 4) + (x % 4) /\ x \div 4 \in Nat /\ x % 4 \in Lanes
    BY NumBytesAssumption DEF Addr, Lanes
  <2> QED BY <2>1
<1>3. q < n
  BY <1>1, <1>2 DEF Addr, Lanes
<1>4. x % 4 = o
  BY <1>2 DEF Lanes
<1>5. \A k \in 0 .. 4 : (x + k) % NumBytes = IF x + k < NumBytes THEN x + k ELSE x + k - NumBytes
  <2> SUFFICES ASSUME NEW k \in 0 .. 4
               PROVE  (x + k) % NumBytes = IF x + k < NumBytes THEN x + k ELSE x + k - NumBytes
    OBVIOUS
  <2>1. PICK z \in 0 .. 2 * NumBytes - 1 : z = x + k
    BY NumBytesAssumption, TwoWordsAssumption DEF Addr
  <2>2. z % NumBytes = IF z < NumBytes THEN z ELSE z - NumBytes
    BY Wrap
  <2>3. x \in Int /\ k \in Int /\ NumBytes \in Int
    BY NumBytesAssumption DEF Addr
  <2> QED BY <2>1, <2>2, <2>3
<1>6. y = IF q + 1 < n THEN 4 * (q + 1) + o ELSE o
  BY <1>1, <1>2, <1>3, <1>5 DEF Lanes
<1>7. y \in Addr /\ y % 4 = o
  BY <1>1, <1>3, <1>6 DEF Addr, Lanes
<1>8. Word(x) = 4 * q
  <2>1. x % NumBytes = x
    BY <1>5, NumBytesAssumption DEF Addr
  <2> QED BY <2>1, <1>2, <1>4 DEF Word, w_aligned, Lanes
<1>9. Word(x + 4) = (IF q + 1 < n THEN 4 * (q + 1) ELSE 0) /\ w_aligned(y) = Word(x + 4)
  BY <1>6, <1>7 DEF Word, w_aligned, Lanes
<1>10. Word(y) = Word(x + 4)
  <2>1. y % NumBytes = y
    <3>1. y \in 0 .. 2 * NumBytes - 1 /\ y < NumBytes
      BY <1>7, NumBytesAssumption DEF Addr
    <3> HIDE DEF y
    <3> QED BY <3>1, Wrap
  <2> QED BY <2>1, <1>9 DEF Word
<1>11. \A k \in Lanes : Word(x) + k \in Addr /\ Word(x + 4) + k \in Addr
  BY <1>1, <1>3, <1>8, <1>9 DEF Addr, Lanes
<1>12. \A k \in Lanes : (x + k) % NumBytes = IF o + k < 4 THEN Word(x) + (o + k)
                                              ELSE Word(x + 4) + (o + k - 4)
  BY <1>1, <1>2, <1>3, <1>5, <1>8, <1>9 DEF Lanes
<1>13. Word(x) = x - (x % 4)
  BY <1>2, <1>3, <1>4, <1>8 DEF Lanes
<1>14. Word(x + 4) = y - (y % 4)
  BY <1>6, <1>7, <1>9 DEF Lanes
<1>15. Word(x) # Word(x + 4)
  BY <1>1, <1>3, <1>8, <1>9
<1> HIDE DEF y
<1> QED BY <1>4, <1>7, <1>9, <1>10, <1>11, <1>12, <1>13, <1>14, <1>15 DEF y

(* What the fields of an access are.                                         *)
LEMMA AccessFields ==
  ASSUME NEW a \in Access
  PROVE  /\ a.addr \in Addr /\ a.type \in Types
         /\ a.we \in BOOLEAN /\ a.sign_ext \in BOOLEAN
         /\ offset(a) \in Lanes
         /\ Size(a.type) = (IF a.type = "word" THEN 4 ELSE IF a.type = "half" THEN 2 ELSE 1)
         /\ first_word(a) \in Addr /\ second_word(a) \in Addr
<1>1. a.addr \in Addr /\ a.type \in Types /\ a.we \in BOOLEAN /\ a.sign_ext \in BOOLEAN
  BY AddressesAssumption DEF Access
<1>2. offset(a) \in Lanes /\ \A k \in Lanes : first_word(a) + k \in Addr /\ second_word(a) + k \in Addr
  BY <1>1, Words DEF offset, first_word, second_word
<1>3. first_word(a) \in Int /\ second_word(a) \in Int
  <2>1. a.addr \in Int /\ ((a.addr + 4) % NumBytes) \in Int
    BY <1>1, NumBytesAssumption DEF Addr
  <2>2. first_word(a) = a.addr - (a.addr % 4)
    BY <1>1, Words DEF first_word
  <2>3. second_word(a) = ((a.addr + 4) % NumBytes) - (((a.addr + 4) % NumBytes) % 4)
    BY <1>1, Words DEF second_word
  <2> QED BY <2>1, <2>2, <2>3
<1>4. first_word(a) \in Addr /\ second_word(a) \in Addr
  <2>1. 0 \in Lanes /\ first_word(a) + 0 = first_word(a) /\ second_word(a) + 0 = second_word(a)
    BY <1>3 DEF Lanes
  <2> QED BY <1>2, <2>1
<1> QED BY <1>1, <1>2, <1>4 DEF Size, Types

LEMMA Lengths == /\ \A n \in 0 .. 3 : Lanes # 0 .. n - 1
                 /\ \A o \in Lanes : \A k \in Lanes : (k - o) % 4 \in Lanes
<1>1. \A n \in 0 .. 3 : 3 \in Lanes /\ 3 \notin 0 .. n - 1
  BY DEF Lanes
<1>2. \A o \in Lanes : \A k \in Lanes : (k - o) % 4 \in Lanes
  BY DEF Lanes
<1> QED BY <1>1, <1>2

----------------------------------------------------------------------------
(* The wires of a cycle with an access in the stage.                         *)
LEMMA TheAccess ==
  ASSUME TypeOK, current
  PROVE  /\ access.a \in Access /\ access.first \in BOOLEAN /\ the = access.a
         /\ access = [a |-> access.a, first |-> access.first]
<1>1. access \in [a : Access, first : BOOLEAN]
  BY DEF TypeOK, current
<1> QED BY <1>1 DEF the

LEMMA Inputs ==
  ASSUME TypeOK, current, NEW gnt, NEW rvalid, NEW err, NEW i, i = Input(gnt, rvalid, err)
  PROVE  LET a == access.a
         IN  /\ i.gnt = gnt /\ i.rvalid = rvalid /\ i.err = err
             /\ i.lsu_req = access.first /\ i.lsu_we = a.we /\ i.lsu_type = a.type /\ i.lsu_sign_ext = a.sign_ext
             /\ i.lsu_wdata = [k \in Lanes |-> k] /\ i.vec_be = Lanes
             /\ i.addr = (IF addr_incr_req_o THEN (addr_last_q + 4) % NumBytes ELSE a.addr)
             /\ i.pmp_err = (Word(i.addr) \in a.denied)
<1>1. the = access.a /\ access.first \in BOOLEAN
  BY TheAccess
<1> QED BY <1>1 DEF Input, adder_result

LEMMA RequestedLanes ==
  ASSUME TypeOK, current, NEW gnt, NEW rvalid, NEW err, NEW i, i = Input(gnt, rvalid, err),
         data_offset(i) = offset(access.a)
  PROVE  LET a == access.a
         IN  /\ data_wdata(i) = [k \in Lanes |-> (k - offset(a)) % 4]
             /\ ~handle_misaligned_q => data_be(i) = first_lanes(a)
             /\ handle_misaligned_q /\ split(a) => data_be(i) = second_lanes(a)
             /\ split_misaligned_access(i) = split(a)
<1> DEFINE a == access.a
<1> USE Inputs, TheAccess
<1>1. /\ a \in Access /\ a.type \in Types /\ offset(a) \in Lanes
      /\ Size(a.type) = (IF a.type = "word" THEN 4 ELSE IF a.type = "half" THEN 2 ELSE 1)
  BY AccessFields
<1>2. i.lsu_type = a.type /\ i.vec_be = Lanes /\ i.lsu_wdata = [k \in Lanes |-> k]
  OBVIOUS
<1> HIDE DEF a
<1>3. access_bytes(i) = Size(a.type)
  BY <1>1, <1>2, Lengths DEF access_bytes, Types
<1>4. data_wdata(i) = [k \in Lanes |-> (k - offset(a)) % 4]
  BY <1>1, <1>2, Lengths DEF data_wdata, a
<1>5. ASSUME ~handle_misaligned_q PROVE data_be(i) = first_lanes(a)
  <2>1. CASE a.type = "word" /\ offset(a) = 0
    <3>1. data_be(i) = Lanes
      BY <1>2, <1>5, <2>1 DEF data_be, a
    <3>2. first_lanes(a) = Lanes
      BY <1>1, <2>1 DEF first_lanes, Lanes
    <3> QED BY <3>1, <3>2
  <2>2. CASE ~(a.type = "word" /\ offset(a) = 0)
    BY <1>2, <1>3, <1>5, <2>2 DEF data_be, first_lanes, a
  <2> QED BY <2>1, <2>2
<1>6. ASSUME handle_misaligned_q, split(a) PROVE data_be(i) = second_lanes(a)
  <2>1. CASE a.type = "half"
    BY <1>1, <1>2, <1>6, <2>1 DEF data_be, second_lanes, split
  <2>2. CASE a.type = "word"
    BY <1>1, <1>2, <1>3, <1>6, <2>2 DEF data_be, second_lanes, split, a
  <2> QED BY <1>6, <2>1, <2>2 DEF split
<1>7. split_misaligned_access(i) = split(a)
  BY <1>2 DEF split_misaligned_access, split, a
<1> QED BY <1>4, <1>5, <1>6, <1>7 DEF a

(* What the unit asks for while the adder has the address of the access, and *)
(* while it has the next one.                                                  *)
LEMMA FirstSignals ==
  ASSUME TypeOK, current, NEW gnt, NEW rvalid, NEW err, NEW i, i = Input(gnt, rvalid, err),
         ~addr_incr_req_o, ~handle_misaligned_q
  PROVE  LET a == access.a
         IN  /\ i.addr = a.addr /\ addr_last_d(i) = a.addr
             /\ i.pmp_err = first_denied(a) /\ Word(i.addr) = first_word(a)
             /\ split_misaligned_access(i) = split(a)
             /\ data_offset(i) = offset(a)
             /\ Requested(i) = first_request(a)
<1>1. i.addr = access.a.addr
  BY TheAccess DEF Input, adder_result
<1>3. i.lsu_we = access.a.we
  BY TheAccess DEF Input
<1>4. i.pmp_err = (Word(i.addr) \in access.a.denied)
  BY TheAccess DEF Input
<1>2. data_offset(i) = offset(access.a)
  BY <1>1 DEF data_offset, offset
<1>5. /\ data_wdata(i) = [k \in Lanes |-> (k - offset(access.a)) % 4]
      /\ data_be(i) = first_lanes(access.a)
      /\ split_misaligned_access(i) = split(access.a)
  BY <1>2, RequestedLanes
<1> QED BY <1>1, <1>2, <1>3, <1>4, <1>5
        DEF addr_last_d, first_denied, first_word, Requested, first_request, rotated

LEMMA SecondSignals ==
  ASSUME TypeOK, current, NEW gnt, NEW rvalid, NEW err, NEW i, i = Input(gnt, rvalid, err),
         addr_incr_req_o, split(access.a), addr_last_q = access.a.addr
  PROVE  LET a == access.a
         IN  /\ addr_last_d(i) = second_word(a)
             /\ i.pmp_err = second_denied(a) /\ Word(i.addr) = second_word(a)
             /\ data_offset(i) = offset(a)
             /\ handle_misaligned_q => Requested(i) = second_request(a)
<1>1. i.addr = (access.a.addr + 4) % NumBytes
  BY TheAccess DEF Input, adder_result
<1>3. i.lsu_we = access.a.we
  BY TheAccess DEF Input
<1>4. i.pmp_err = (Word(i.addr) \in access.a.denied)
  BY TheAccess DEF Input
<1>2. access.a.addr \in Addr
  BY TheAccess, AccessFields
<1>5. /\ data_offset(i) = offset(access.a)
      /\ Word(i.addr) = second_word(access.a) /\ w_aligned(i.addr) = second_word(access.a)
  BY <1>1, <1>2, Words DEF data_offset, offset, second_word
<1>6. handle_misaligned_q => /\ data_wdata(i) = [k \in Lanes |-> (k - offset(access.a)) % 4]
                             /\ data_be(i) = second_lanes(access.a)
  BY <1>5, RequestedLanes
<1> QED BY <1>1, <1>3, <1>4, <1>5, <1>6
        DEF addr_last_d, second_denied, Requested, second_request, rotated

----------------------------------------------------------------------------
(* A clock edge with access a in the stage.                                  *)
InStage(i, a) ==
  /\ TypeOK /\ current /\ a = access.a
  /\ \E gnt, rvalid, err \in BOOLEAN : i = Input(gnt, rvalid, err)
  /\ Bus(i) /\ LsuCycle(i) /\ (Wait(i) \/ Answer(i) \/ Elsewhere(i))

LEMMA Wires ==
  ASSUME NEW i, NEW a, InStage(i, a)
  PROVE  /\ a \in Access /\ access.first \in BOOLEAN
         /\ i.gnt \in BOOLEAN /\ i.rvalid \in BOOLEAN /\ i.err \in BOOLEAN
         /\ i.lsu_req = access.first /\ i.lsu_we = a.we
         /\ i.lsu_type = a.type /\ i.lsu_sign_ext = a.sign_ext
         /\ (i.rvalid /\ bus # <<>> /\ ~i.err /\ ~Head(bus).we) =>
              \A k \in Lanes : i.rdata[k] = Head(bus).word + k
<1>1. PICK gnt, rvalid, err \in BOOLEAN : i = Input(gnt, rvalid, err)
  BY DEF InStage
<1>2. TypeOK /\ current /\ a = access.a
  BY DEF InStage
<1>3. the = a /\ a \in Access /\ access.first \in BOOLEAN
  BY <1>2, TheAccess
<1>4. /\ i.gnt = gnt /\ i.rvalid = rvalid /\ i.err = err
      /\ i.lsu_req = (current /\ access.first) /\ i.lsu_we = a.we
      /\ i.lsu_type = a.type /\ i.lsu_sign_ext = a.sign_ext
  BY <1>1, <1>3 DEF Input
<1>5. (rvalid /\ bus # <<>> /\ ~err /\ ~Head(bus).we) => i.rdata = [k \in Lanes |-> Head(bus).word + k]
  BY <1>1 DEF Input
<1> QED BY <1>1, <1>2, <1>3, <1>4, <1>5

LEMMA FirstWires ==
  ASSUME NEW i, NEW a, InStage(i, a), ~addr_incr_req_o, ~handle_misaligned_q
  PROVE  /\ addr_last_d(i) = a.addr /\ Word(i.addr) = first_word(a)
         /\ i.pmp_err = first_denied(a)
         /\ split_misaligned_access(i) = split(a)
         /\ data_offset(i) = offset(a)
         /\ Requested(i) = first_request(a)
<1>1. PICK gnt, rvalid, err \in BOOLEAN : i = Input(gnt, rvalid, err)
  BY DEF InStage
<1>2. TypeOK /\ current /\ a = access.a
  BY DEF InStage
<1> QED BY <1>1, <1>2, FirstSignals

LEMMA SecondWires ==
  ASSUME NEW i, NEW a, InStage(i, a), addr_incr_req_o, split(a), addr_last_q = a.addr
  PROVE  /\ addr_last_d(i) = second_word(a) /\ Word(i.addr) = second_word(a)
         /\ i.pmp_err = second_denied(a)
         /\ data_offset(i) = offset(a)
         /\ handle_misaligned_q => Requested(i) = second_request(a)
<1>1. PICK gnt, rvalid, err \in BOOLEAN : i = Input(gnt, rvalid, err)
  BY DEF InStage
<1>2. TypeOK /\ current /\ a = access.a
  BY DEF InStage
<1> QED BY <1>1, <1>2, SecondSignals

(* Ghosts and ids that are told apart by their fields.                       *)
LEMMA Distinct ==
  /\ \A r, g : [r |-> r, granted |-> g] # NoRequest
  /\ \A a, f : [a |-> a, first |-> f] # NoAccess
  /\ NoResponse # Stray
<1>1. /\ DOMAIN NoRequest = {"none"} /\ DOMAIN NoAccess = {"none"} /\ DOMAIN NoResponse = {"none"}
      /\ DOMAIN Stray = {"stray"}
  BY DEF NoRequest, NoAccess, NoResponse, Stray
<1>2. \A r, g : DOMAIN [r |-> r, granted |-> g] = {"r", "granted"}
  OBVIOUS
<1>3. \A a, f : DOMAIN [a |-> a, first |-> f] = {"a", "first"}
  OBVIOUS
<1>4. {"r", "granted"} # {"none"} /\ {"a", "first"} # {"none"} /\ {"none"} # {"stray"}
  OBVIOUS
<1>5. NoResponse # Stray
  BY <1>1, <1>4
<1>6. \A r, g : [r |-> r, granted |-> g] # NoRequest
  BY <1>1, <1>2, <1>4
<1>7. \A a, f : [a |-> a, first |-> f] # NoAccess
  BY <1>1, <1>3, <1>4
<1> QED BY <1>5, <1>6, <1>7

LEMMA ShortBuses ==
  ASSUME NEW x, NEW y
  PROVE  /\ <<x>> # <<>> /\ Head(<<x>>) = x /\ Tail(<<x>>) = <<>>
         /\ <<x, y>> # <<>> /\ Head(<<x, y>>) = x /\ Tail(<<x, y>>) = <<y>>
         /\ Append(<<>>, x) = <<x>> /\ Append(<<x>>, y) = <<x, y>>
<1>1. <<x>> # <<>> /\ Head(<<x>>) = x
  OBVIOUS
<1>2. Tail(<<x>>) = <<>>
  OBVIOUS
<1>3. <<x, y>> # <<>> /\ Head(<<x, y>>) = x
  OBVIOUS
<1>4. Tail(<<x, y>>) = <<y>>
  OBVIOUS
<1>5. Append(<<>>, x) = <<x>>
  OBVIOUS
<1>6. Append(<<x>>, y) = <<x, y>>
  <2> DEFINE s == Append(<<x>>, y)
  <2>1. <<x>> \in Seq({x, y}) /\ <<x, y>> \in Seq({x, y})
    OBVIOUS
  <2>2. s \in Seq({x, y}) /\ Len(s) = 2 /\ s[1] = x /\ s[2] = y
    BY <2>1, AppendProperties
  <2> HIDE DEF s
  <2>3. Len(<<x, y>>) = 2 /\ <<x, y>>[1] = x /\ <<x, y>>[2] = y
    OBVIOUS
  <2> DEFINE t == <<x, y>>
  <2>4. t \in Seq({x, y}) /\ Len(t) = 2 /\ t[1] = x /\ t[2] = y
    BY <2>1, <2>3
  <2> HIDE DEF t
  <2>5. Len(s) = Len(t) /\ \A i \in 1 .. Len(s) : s[i] = t[i]
    BY <2>2, <2>4
  <2>6. s = t
    BY <2>2, <2>4, <2>5, SeqEqual
  <2> QED BY <2>6 DEF s, t
<1> QED BY <1>1, <1>2, <1>3, <1>4, <1>5, <1>6

----------------------------------------------------------------------------
(* What a clock edge does in each phase.                                     *)
Held == (request # NoRequest /\ ~request.granted) =>
          request' # NoRequest /\ request'.r = request.r

GoesOn(a) == /\ access' = [a |-> a, first |-> FALSE]
             /\ response' = NoResponse
             /\ Underway(a)'

LEMMA Waits ==
  ASSUME NEW i, NEW a, InStage(i, a), ~lsu_resp_valid_o(i)
  PROVE  /\ access' = [a |-> a, first |-> FALSE] /\ response' = NoResponse
         /\ written' = written_by(i) /\ failed' = failed_by(i)
<1>1. access = [a |-> a, first |-> access.first]
  BY TheAccess DEF InStage
<1>2. Wait(i)
  BY DEF InStage, Answer, answered, Elsewhere
<1>3. access' = [a |-> a, first |-> FALSE]
  <2>1. access' = [access EXCEPT !.first = FALSE]
    BY <1>2 DEF Wait
  <2>2. PICK f : access = [a |-> a, first |-> f]
    BY <1>1
  <2> QED BY <2>1, <2>2
<1> QED BY <1>2, <1>3 DEF Wait

(* The bus and the faults at an edge where the first or second half is asked for. *)
LEMMA Asking ==
  ASSUME NEW i, NEW a, InStage(i, a), data_req_o(i)
  PROVE  /\ bus' = LET rest == IF i.rvalid THEN Tail(bus) ELSE bus
                   IN  IF i.gnt /\ ~i.pmp_err THEN Append(rest, Requested(i)) ELSE rest
         /\ request' = IF i.pmp_err THEN NoRequest ELSE [r |-> Requested(i), granted |-> i.gnt]
  BY DEF InStage, Bus, core_data_req

LEMMA FromUnasked ==
  ASSUME NEW i, NEW a, InStage(i, a), Unasked
  PROVE  GoesOn(a) /\ Held
<1>1. /\ access.first /\ ls_fsm_cs = "IDLE" /\ ~handle_misaligned_q /\ ~pmp_err_q
      /\ bus = <<>> /\ request = NoRequest /\ written = {} /\ failed = {}
  BY DEF Unasked, InStage, current
<1>2. ~i.rvalid /\ ~i.err
  BY <1>1 DEF InStage, Bus
<1>3. i.lsu_req /\ i.gnt \in BOOLEAN
  BY <1>1, Wires
<1>4. IdleRequest(i)
  BY <1>1, <1>3 DEF InStage, LsuCycle, IdleNoRequest, WaitGntMis, WaitRvalidMis, WaitGnt, WaitRvalidMisGntsDone
<1>5. ~addr_incr_req_o /\ data_req_o(i) /\ ~lsu_resp_valid_o(i)
  BY <1>1, <1>2, <1>3 DEF addr_incr_req_o, data_req_o, lsu_resp_valid_o
<1>6. /\ addr_last_d(i) = a.addr /\ Word(i.addr) = first_word(a)
      /\ i.pmp_err = first_denied(a) /\ split_misaligned_access(i) = split(a)
      /\ data_offset(i) = offset(a) /\ Requested(i) = first_request(a)
  BY <1>1, <1>5, FirstWires
<1>7. /\ access' = [a |-> a, first |-> FALSE] /\ response' = NoResponse
      /\ written' = written_by(i) /\ failed' = failed_by(i)
  BY <1>5, Waits
<1>8. /\ bus' = (IF i.gnt THEN queued(first_denied(a), first_request(a)) ELSE <<>>)
      /\ request' = IF first_denied(a) THEN NoRequest ELSE [r |-> first_request(a), granted |-> i.gnt]
  <2>1. bus' = IF i.gnt /\ ~first_denied(a) THEN Append(<<>>, first_request(a)) ELSE <<>>
    BY <1>1, <1>2, <1>5, <1>6, Asking
  <2>2. Append(<<>>, first_request(a)) = <<first_request(a)>>
    BY ShortBuses
  <2> QED BY <1>1, <1>2, <1>5, <1>6, <2>1, <2>2, Asking DEF queued
<1>9. written' = {} /\ failed' = taken(first_word(a), first_denied(a))
  BY <1>1, <1>2, <1>5, <1>6, <1>7 DEF written_by, failed_by, taken
<1>10. /\ pmp_err_q' = first_denied(a) /\ lsu_err_q' = FALSE
       /\ addr_last_q' = (IF i.gnt THEN a.addr ELSE addr_last_q)
       /\ i.gnt => ctrl_q' = control(a)
       /\ handle_misaligned_q' = (IF i.gnt THEN split(a) ELSE handle_misaligned_q)
       /\ ls_fsm_cs' = IF i.gnt THEN IF split(a) THEN "WAIT_RVALID_MIS" ELSE "IDLE"
                       ELSE IF split(a) THEN "WAIT_GNT_MIS" ELSE "WAIT_GNT"
  BY <1>4, <1>6, Wires DEF IdleRequest, Latch, control
<1>11. Underway(a)'
  <2>1. CASE ~i.gnt
    <3>1. Asked(a)'
      BY <1>1, <1>3, <1>8, <1>9, <1>10, <2>1 DEF Asked, offered
    <3> QED BY <3>1 DEF Underway
  <2>2. CASE i.gnt /\ ~split(a)
    <3>1. Single(a)'
      BY <1>1, <1>3, <1>8, <1>9, <1>10, <2>2 DEF Single, Settled
    <3> QED BY <3>1 DEF Underway
  <2>3. CASE i.gnt /\ split(a)
    <3>1. FirstGranted(a)'
      BY <1>1, <1>3, <1>8, <1>9, <1>10, <2>3 DEF FirstGranted, Settled
    <3> QED BY <3>1 DEF Underway
  <2> QED BY <2>1, <2>2, <2>3
<1> QED BY <1>1, <1>7, <1>11 DEF GoesOn, Held

LEMMA FromAsked ==
  ASSUME NEW i, NEW a, InStage(i, a), ~access.first, Asked(a)
  PROVE  GoesOn(a) /\ Held
<1>1. /\ ls_fsm_cs = (IF split(a) THEN "WAIT_GNT_MIS" ELSE "WAIT_GNT")
      /\ ~handle_misaligned_q /\ ~lsu_err_q /\ pmp_err_q = first_denied(a)
      /\ bus = <<>> /\ request = offered(first_denied(a), first_request(a))
      /\ written = {} /\ failed = taken(first_word(a), first_denied(a))
  BY DEF Asked
<1>2. ~i.rvalid /\ ~i.err
  BY <1>1 DEF InStage, Bus
<1>3. i.gnt \in BOOLEAN /\ first_denied(a) \in BOOLEAN
  BY Wires DEF first_denied
<1>4. (split(a) /\ WaitGntMis(i)) \/ (~split(a) /\ WaitGnt(i))
  BY <1>1 DEF InStage, LsuCycle, IdleNoRequest, IdleRequest, WaitGntMis, WaitRvalidMis, WaitGnt, WaitRvalidMisGntsDone
<1>5. ~addr_incr_req_o /\ data_req_o(i) /\ ~lsu_resp_valid_o(i)
  BY <1>1 DEF addr_incr_req_o, data_req_o, lsu_resp_valid_o
<1>6. /\ addr_last_d(i) = a.addr /\ Word(i.addr) = first_word(a)
      /\ i.pmp_err = first_denied(a)
      /\ data_offset(i) = offset(a) /\ Requested(i) = first_request(a)
  BY <1>1, <1>5, FirstWires
<1>7. /\ access' = [a |-> a, first |-> FALSE] /\ response' = NoResponse
      /\ written' = written_by(i) /\ failed' = failed_by(i)
  BY <1>5, Waits
<1>8. /\ bus' = (IF i.gnt THEN queued(first_denied(a), first_request(a)) ELSE <<>>)
      /\ request' = IF first_denied(a) THEN NoRequest ELSE [r |-> first_request(a), granted |-> i.gnt]
  <2>1. bus' = IF i.gnt /\ ~first_denied(a) THEN Append(<<>>, first_request(a)) ELSE <<>>
    BY <1>1, <1>2, <1>5, <1>6, Asking
  <2>2. Append(<<>>, first_request(a)) = <<first_request(a)>>
    BY ShortBuses
  <2> QED BY <1>1, <1>2, <1>5, <1>6, <2>1, <2>2, Asking DEF queued
<1>9. written' = {} /\ failed' = taken(first_word(a), first_denied(a))
  BY <1>1, <1>2, <1>5, <1>6, <1>7 DEF written_by, failed_by, taken
<1> DEFINE go == i.gnt \/ first_denied(a)
<1>10. /\ pmp_err_q' = first_denied(a) /\ ~lsu_err_q'
       /\ addr_last_q' = (IF go THEN a.addr ELSE addr_last_q)
       /\ go => ctrl_q' = control(a)
       /\ split(a) => handle_misaligned_q' = go /\ ls_fsm_cs' = IF go THEN "WAIT_RVALID_MIS" ELSE "WAIT_GNT_MIS"
       /\ ~split(a) => ~handle_misaligned_q' /\ ls_fsm_cs' = IF go THEN "IDLE" ELSE "WAIT_GNT"
  <2>1. CASE split(a) /\ WaitGntMis(i)
    BY <1>1, <1>3, <1>6, <2>1, Wires DEF WaitGntMis, Latch, control
  <2>2. CASE ~split(a) /\ WaitGnt(i)
    BY <1>1, <1>3, <1>6, <2>2, Wires DEF WaitGnt, Latch, control
  <2> QED BY <1>4, <2>1, <2>2
<1>11. Underway(a)'
  <2>1. CASE ~go
    <3>1. Asked(a)'
      BY <1>1, <1>3, <1>8, <1>9, <1>10, <2>1 DEF Asked, offered
    <3> QED BY <3>1 DEF Underway
  <2>2. CASE go /\ ~split(a)
    <3>1. bus' = queued(first_denied(a), first_request(a)) /\ Settled'
      BY <1>3, <1>8, <2>2 DEF Settled, queued
    <3>2. Single(a)'
      BY <1>9, <1>10, <2>2, <3>1 DEF Single
    <3> QED BY <3>2 DEF Underway
  <2>3. CASE go /\ split(a)
    <3>1. bus' = queued(first_denied(a), first_request(a)) /\ Settled'
      BY <1>3, <1>8, <2>3 DEF Settled, queued
    <3>2. FirstGranted(a)'
      BY <1>9, <1>10, <2>3, <3>1 DEF FirstGranted
    <3> QED BY <3>2 DEF Underway
  <2> QED BY <2>1, <2>2, <2>3
<1>12. Held
  <2>1. CASE first_denied(a)
    BY <1>1, <2>1 DEF Held, offered
  <2>2. CASE ~first_denied(a)
    BY <1>1, <1>8, <2>2, Distinct DEF Held, offered
  <2> QED BY <2>1, <2>2
<1> QED BY <1>7, <1>11, <1>12 DEF GoesOn

(* The first half ends on an answer of the bus or a denial: what it leaves.  *)
LEMMA FirstEnds ==
  ASSUME NEW i, NEW a, InStage(i, a), i.rvalid, bus # <<>>, Head(bus) = first_request(a), written = {},
         ~first_denied(a)
  PROVE  /\ written_by(i) = first_written(a, i.err)
         /\ ~a.we /\ ~i.err => \A k \in 1 .. 3 : i.rdata[k] = first_word(a) + k
<1>1. /\ Head(bus).we = a.we /\ Head(bus).word = first_word(a)
      /\ Head(bus).be = first_lanes(a) /\ Head(bus).wdata = rotated(a)
  BY DEF first_request
<1>2. written_by(i) = first_written(a, i.err)
  <2>1. CASE a.we /\ ~i.err
    <3>1. \A k \in first_lanes(a) : rotated(a)[k] = (k - offset(a)) % 4
      BY <2>1 DEF rotated, first_lanes
    <3>2. {<<first_word(a) + k, rotated(a)[k]>> : k \in first_lanes(a)}
            = {<<first_word(a) + k, (k - offset(a)) % 4>> : k \in first_lanes(a)}
      BY <3>1
    <3>3. written_by(i) = {<<first_word(a) + k, rotated(a)[k]>> : k \in first_lanes(a)}
      BY <1>1, <2>1 DEF written_by
    <3> QED BY <2>1, <3>2, <3>3 DEF first_written, first_half
  <2>2. CASE ~(a.we /\ ~i.err)
    BY <1>1, <2>2 DEF written_by, first_written
  <2> QED BY <2>1, <2>2
<1>3. ~a.we /\ ~i.err => \A k \in Lanes : i.rdata[k] = first_word(a) + k
  BY <1>1, Wires
<1> QED BY <1>2, <1>3 DEF Lanes

LEMMA FromFirstGranted ==
  ASSUME NEW i, NEW a, InStage(i, a), ~access.first, FirstGranted(a)
  PROVE  GoesOn(a) /\ Held
<1>1. /\ split(a) /\ ls_fsm_cs = "WAIT_RVALID_MIS"
      /\ handle_misaligned_q /\ ~lsu_err_q /\ pmp_err_q = first_denied(a)
      /\ bus = queued(first_denied(a), first_request(a))
      /\ Settled \/ request = offered(second_denied(a), second_request(a))
      /\ written = {}
      /\ failed \in {taken(first_word(a), first_denied(a)),
                     taken(first_word(a), first_denied(a)) \cup taken(second_word(a), second_denied(a))}
      /\ ctrl_q = control(a) /\ addr_last_q = a.addr
  BY DEF FirstGranted
<1>2. /\ i.gnt \in BOOLEAN /\ i.rvalid \in BOOLEAN /\ i.err \in BOOLEAN
      /\ first_denied(a) \in BOOLEAN /\ second_denied(a) \in BOOLEAN
  BY Wires DEF first_denied, second_denied
<1>3. WaitRvalidMis(i)
  BY <1>1 DEF InStage, LsuCycle, IdleNoRequest, IdleRequest, WaitGntMis, WaitRvalidMis, WaitGnt, WaitRvalidMisGntsDone
<1>4. addr_incr_req_o /\ data_req_o(i) /\ ~lsu_resp_valid_o(i)
  BY <1>1 DEF addr_incr_req_o, data_req_o, lsu_resp_valid_o
<1>5. /\ addr_last_d(i) = second_word(a) /\ Word(i.addr) = second_word(a)
      /\ i.pmp_err = second_denied(a) /\ Requested(i) = second_request(a)
  BY <1>1, <1>4, SecondWires
<1>6. /\ access' = [a |-> a, first |-> FALSE] /\ response' = NoResponse
      /\ written' = written_by(i) /\ failed' = failed_by(i)
  BY <1>4, Waits
<1>7. /\ i.rvalid => ~first_denied(a) /\ bus # <<>> /\ Head(bus) = first_request(a) /\ Tail(bus) = <<>>
      /\ i.err => i.rvalid
  <2>1. (i.rvalid => bus # <<>>) /\ (i.err => i.rvalid)
    BY DEF InStage, Bus
  <2> QED BY <1>1, <1>2, <2>1, ShortBuses DEF queued
<1>8. request' = IF second_denied(a) THEN NoRequest ELSE [r |-> second_request(a), granted |-> i.gnt]
  BY <1>4, <1>5, Asking
<1>9. failed' = failed \cup taken(first_word(a), i.err) \cup taken(second_word(a), second_denied(a))
  <2>1. i.err => Head(bus).word = first_word(a)
    BY <1>7 DEF first_request
  <2> QED BY <1>4, <1>5, <1>6, <2>1 DEF failed_by, taken
<1>10. Held
  <2>1. CASE request = offered(second_denied(a), second_request(a))
    BY <1>2, <1>8, <2>1, Distinct DEF Held, offered
  <2>2. CASE Settled
    BY <2>2 DEF Held, Settled
  <2> QED BY <1>1, <2>1, <2>2
<1>11. CASE i.rvalid \/ first_denied(a)
  <2> DEFINE err == i.err \/ first_denied(a)
  <2>1. /\ pmp_err_q' = second_denied(a) /\ lsu_err_q' = err /\ ctrl_q' = control(a)
        /\ addr_last_q' = (IF i.gnt /\ ~err THEN second_word(a) ELSE a.addr)
        /\ ls_fsm_cs' = (IF i.gnt THEN "IDLE" ELSE "WAIT_GNT")
        /\ handle_misaligned_q' = ~i.gnt
        /\ ~a.we => \A k \in 1 .. 3 : rdata_q'[k] = i.rdata[k]
    <3>1. first_half_answered(i) /\ first_half_err(i) = err
      BY <1>1, <1>2, <1>11 DEF first_half_answered, first_half_err
    <3>2. ctrl_q.we = a.we
      BY <1>1 DEF control
    <3> QED BY <1>1, <1>3, <1>5, <3>1, <3>2 DEF WaitRvalidMis, Latch
  <2>2. /\ written' = first_written(a, err)
        /\ ~a.we /\ ~err => \A k \in 1 .. 3 : rdata_q'[k] = first_word(a) + k
    <3>1. CASE i.rvalid
      BY <1>1, <1>2, <1>6, <1>7, <2>1, <3>1, FirstEnds
    <3>2. CASE ~i.rvalid
      <4>1. err /\ written' = {}
        BY <1>1, <1>2, <1>6, <1>11, <3>2 DEF written_by
      <4> QED BY <4>1 DEF first_written
    <3> QED BY <1>2, <3>1, <3>2
  <2>3. failed' = taken(first_word(a), err) \cup taken(second_word(a), second_denied(a))
    BY <1>1, <1>2, <1>9 DEF taken
  <2>4. bus' = (IF i.gnt THEN queued(second_denied(a), second_request(a)) ELSE <<>>)
    <3>1. (IF i.rvalid THEN Tail(bus) ELSE bus) = <<>>
      BY <1>1, <1>2, <1>7, <1>11 DEF queued
    <3>2. Append(<<>>, second_request(a)) = <<second_request(a)>>
      BY ShortBuses
    <3> QED BY <1>4, <1>5, <3>1, <3>2, Asking DEF queued
  <2>5. FirstOver(a)'
    <3>1. FirstLoaded(a)'
      BY <2>1, <2>2 DEF FirstLoaded
    <3>2. first_denied(a) => lsu_err_q'
      BY <2>1
    <3> QED BY <1>1, <2>1, <2>2, <2>3, <3>1, <3>2 DEF FirstOver
  <2>6. CASE i.gnt
    <3>1. SecondGranted(a)'
      BY <1>8, <2>1, <2>4, <2>5, <2>6 DEF SecondGranted, Settled
    <3> QED BY <1>6, <1>10, <3>1 DEF Underway, GoesOn
  <2>7. CASE ~i.gnt
    <3>1. SecondAsked(a)'
      BY <1>2, <1>8, <2>1, <2>4, <2>5, <2>7 DEF SecondAsked, offered
    <3> QED BY <1>6, <1>10, <3>1 DEF Underway, GoesOn
  <2> QED BY <2>6, <2>7
<1>12. CASE ~(i.rvalid \/ first_denied(a))
  <2>1. /\ pmp_err_q' = first_denied(a) /\ ~lsu_err_q' /\ ctrl_q' = control(a) /\ addr_last_q' = a.addr
        /\ ls_fsm_cs' = (IF i.gnt THEN "WAIT_RVALID_MIS_GNTS_DONE" ELSE "WAIT_RVALID_MIS")
        /\ handle_misaligned_q' = ~i.gnt
    <3>1. ~first_half_answered(i)
      BY <1>1, <1>12 DEF first_half_answered
    <3> QED BY <1>1, <1>2, <1>3, <1>12, <3>1 DEF WaitRvalidMis, Latch
  <2>2. written' = {} /\ failed' = taken(second_word(a), second_denied(a))
    BY <1>1, <1>2, <1>6, <1>7, <1>9, <1>12 DEF written_by, taken
  <2>3. bus' = IF i.gnt /\ ~second_denied(a) THEN <<first_request(a), second_request(a)>> ELSE <<first_request(a)>>
    <3>1. (IF i.rvalid THEN Tail(bus) ELSE bus) = <<first_request(a)>>
      BY <1>1, <1>12 DEF queued
    <3>2. Append(<<first_request(a)>>, second_request(a)) = <<first_request(a), second_request(a)>>
      BY ShortBuses
    <3> QED BY <1>4, <1>5, <3>1, <3>2, Asking
  <2>4. CASE i.gnt
    <3>1. BothGranted(a)'
      BY <1>1, <1>8, <1>12, <2>1, <2>2, <2>3, <2>4 DEF BothGranted, Settled
    <3> QED BY <1>6, <1>10, <3>1 DEF Underway, GoesOn
  <2>5. CASE ~i.gnt
    <3>1. taken(first_word(a), first_denied(a)) = {}
      BY <1>12 DEF taken
    <3>2. request' = offered(second_denied(a), second_request(a))
      BY <1>2, <1>8, <2>5 DEF offered
    <3>3. bus' = queued(first_denied(a), first_request(a))
      BY <1>12, <2>3, <2>5 DEF queued
    <3>4. FirstGranted(a)'
      BY <1>1, <1>2, <1>12, <2>1, <2>2, <2>5, <3>1, <3>2, <3>3 DEF FirstGranted
    <3> QED BY <1>6, <1>10, <3>4 DEF Underway, GoesOn
  <2> QED BY <2>4, <2>5
<1> QED BY <1>11, <1>12

LEMMA FromBothGranted ==
  ASSUME NEW i, NEW a, InStage(i, a), ~access.first, BothGranted(a)
  PROVE  GoesOn(a) /\ Held
<1>1. /\ split(a) /\ ls_fsm_cs = "WAIT_RVALID_MIS_GNTS_DONE"
      /\ ~handle_misaligned_q /\ ~lsu_err_q /\ ~pmp_err_q /\ ~first_denied(a)
      /\ bus = (IF second_denied(a) THEN <<first_request(a)>> ELSE <<first_request(a), second_request(a)>>)
      /\ Settled
      /\ written = {} /\ failed = taken(second_word(a), second_denied(a))
      /\ ctrl_q = control(a) /\ addr_last_q = a.addr
  BY DEF BothGranted
<1>2. i.rvalid \in BOOLEAN /\ i.err \in BOOLEAN /\ second_denied(a) \in BOOLEAN
  BY Wires DEF second_denied
<1>3. WaitRvalidMisGntsDone(i)
  BY <1>1 DEF InStage, LsuCycle, IdleNoRequest, IdleRequest, WaitGntMis, WaitRvalidMis, WaitGnt, WaitRvalidMisGntsDone
<1>4. addr_incr_req_o /\ ~data_req_o(i) /\ ~lsu_resp_valid_o(i)
  BY <1>1 DEF addr_incr_req_o, data_req_o, lsu_resp_valid_o
<1>5. addr_last_d(i) = second_word(a) /\ i.pmp_err = second_denied(a)
  BY <1>1, <1>4, SecondWires
<1>6. /\ access' = [a |-> a, first |-> FALSE] /\ response' = NoResponse
      /\ written' = written_by(i) /\ failed' = failed_by(i)
  BY <1>4, Waits
<1>7. /\ bus # <<>> /\ Head(bus) = first_request(a)
      /\ Tail(bus) = queued(second_denied(a), second_request(a))
  BY <1>1, ShortBuses DEF queued
<1>8. /\ i.err => i.rvalid
      /\ bus' = (IF i.rvalid THEN Tail(bus) ELSE bus)
      /\ request' = NoRequest
  BY <1>4 DEF InStage, Bus, core_data_req
<1>9. failed' = taken(first_word(a), i.err) \cup taken(second_word(a), second_denied(a))
  <2>1. Head(bus).word = first_word(a)
    BY <1>7 DEF first_request
  <2> QED BY <1>1, <1>4, <1>6, <2>1 DEF failed_by, taken
<1>10. Held
  BY <1>1 DEF Held, Settled
<1>11. CASE i.rvalid
  <2>1. /\ pmp_err_q' = second_denied(a) /\ lsu_err_q' = i.err /\ ctrl_q' = control(a)
        /\ addr_last_q' = (IF i.err THEN a.addr ELSE second_word(a))
        /\ ls_fsm_cs' = "IDLE" /\ ~handle_misaligned_q'
        /\ ~a.we => \A k \in 1 .. 3 : rdata_q'[k] = i.rdata[k]
    <3>1. ctrl_q.we = a.we
      BY <1>1 DEF control
    <3> QED BY <1>1, <1>2, <1>3, <1>5, <1>11, <3>1 DEF WaitRvalidMisGntsDone, Latch
  <2>2. /\ written' = first_written(a, i.err)
        /\ ~a.we /\ ~i.err => \A k \in 1 .. 3 : rdata_q'[k] = first_word(a) + k
    BY <1>1, <1>6, <1>7, <1>11, <2>1, FirstEnds
  <2>3. FirstOver(a)'
    <3>1. FirstLoaded(a)'
      BY <2>1, <2>2 DEF FirstLoaded
    <3> QED BY <1>1, <1>9, <2>1, <2>2, <3>1 DEF FirstOver
  <2>4. SecondGranted(a)'
    BY <1>2, <1>7, <1>8, <1>11, <2>1, <2>3 DEF SecondGranted, Settled
  <2> QED BY <1>6, <1>10, <2>4 DEF Underway, GoesOn
<1>12. CASE ~i.rvalid
  <2>1. UNCHANGED <<ls_fsm_cs, handle_misaligned_q, lsu_err_q, pmp_err_q, ctrl_q, addr_last_q>>
    BY <1>3, <1>12 DEF WaitRvalidMisGntsDone, Latch
  <2>2. written' = {} /\ failed' = taken(second_word(a), second_denied(a))
    BY <1>1, <1>6, <1>8, <1>9, <1>12 DEF written_by, taken
  <2>3. BothGranted(a)'
    BY <1>1, <1>8, <1>12, <2>1, <2>2 DEF BothGranted, Settled
  <2> QED BY <1>6, <1>10, <2>3 DEF Underway, GoesOn
<1> QED BY <1>2, <1>11, <1>12

LEMMA FromSecondAsked ==
  ASSUME NEW i, NEW a, InStage(i, a), ~access.first, SecondAsked(a)
  PROVE  GoesOn(a) /\ Held
<1>1. /\ split(a) /\ pmp_err_q = second_denied(a)
      /\ first_denied(a) => lsu_err_q
      /\ written = first_written(a, lsu_err_q)
      /\ failed = taken(first_word(a), lsu_err_q) \cup taken(second_word(a), second_denied(a))
      /\ ctrl_q = control(a) /\ FirstLoaded(a)
      /\ ls_fsm_cs = "WAIT_GNT" /\ handle_misaligned_q /\ addr_last_q = a.addr
      /\ bus = <<>> /\ request = offered(second_denied(a), second_request(a))
  BY DEF SecondAsked, FirstOver
<1>2. i.gnt \in BOOLEAN /\ second_denied(a) \in BOOLEAN /\ lsu_err_q \in BOOLEAN
  BY Wires DEF second_denied, InStage, TypeOK, LsuTypeOK
<1>3. WaitGnt(i)
  BY <1>1 DEF InStage, LsuCycle, IdleNoRequest, IdleRequest, WaitGntMis, WaitRvalidMis, WaitGnt, WaitRvalidMisGntsDone
<1>4. addr_incr_req_o /\ data_req_o(i) /\ ~lsu_resp_valid_o(i)
  BY <1>1 DEF addr_incr_req_o, data_req_o, lsu_resp_valid_o
<1>5. /\ addr_last_d(i) = second_word(a) /\ Word(i.addr) = second_word(a)
      /\ i.pmp_err = second_denied(a) /\ data_offset(i) = offset(a)
      /\ Requested(i) = second_request(a)
  BY <1>1, <1>4, SecondWires
<1>6. /\ access' = [a |-> a, first |-> FALSE] /\ response' = NoResponse
      /\ written' = written_by(i) /\ failed' = failed_by(i)
  BY <1>4, Waits
<1>7. ~i.rvalid /\ ~i.err
  BY <1>1 DEF InStage, Bus
<1>8. /\ bus' = (IF i.gnt THEN queued(second_denied(a), second_request(a)) ELSE <<>>)
      /\ request' = IF second_denied(a) THEN NoRequest ELSE [r |-> second_request(a), granted |-> i.gnt]
  <2>1. bus' = IF i.gnt /\ ~second_denied(a) THEN Append(<<>>, second_request(a)) ELSE <<>>
    BY <1>1, <1>4, <1>5, <1>7, Asking
  <2>2. Append(<<>>, second_request(a)) = <<second_request(a)>>
    BY ShortBuses
  <2> QED BY <1>4, <1>5, <2>1, <2>2, Asking DEF queued
<1>9. written' = first_written(a, lsu_err_q) /\ failed' = failed
  BY <1>1, <1>4, <1>5, <1>6, <1>7 DEF written_by, failed_by, taken
<1>10. Held
  <2>1. CASE second_denied(a)
    BY <1>1, <2>1 DEF Held, offered
  <2>2. CASE ~second_denied(a)
    BY <1>1, <1>8, <2>2, Distinct DEF Held, offered
  <2> QED BY <2>1, <2>2
<1> DEFINE go == i.gnt \/ second_denied(a)
<1>11. /\ UNCHANGED <<pmp_err_q, lsu_err_q, rdata_q>>
       /\ addr_last_q' = (IF go /\ ~lsu_err_q THEN second_word(a) ELSE a.addr)
       /\ ctrl_q' = control(a)
       /\ handle_misaligned_q' = ~go
       /\ ls_fsm_cs' = IF go THEN "IDLE" ELSE "WAIT_GNT"
  BY <1>1, <1>2, <1>3, <1>5, Wires DEF WaitGnt, Latch, control
<1>12. FirstOver(a)'
  <2>1. FirstLoaded(a)'
    BY <1>1, <1>11 DEF FirstLoaded
  <2> QED BY <1>1, <1>9, <1>11, <2>1 DEF FirstOver
<1>13. CASE go
  <2>1. bus' = queued(second_denied(a), second_request(a)) /\ Settled'
    BY <1>2, <1>8, <1>13 DEF Settled, queued
  <2>2. SecondGranted(a)'
    BY <1>11, <1>12, <1>13, <2>1 DEF SecondGranted
  <2> QED BY <1>6, <1>10, <2>2 DEF Underway, GoesOn
<1>14. CASE ~go
  <2>1. SecondAsked(a)'
    BY <1>1, <1>2, <1>8, <1>11, <1>12, <1>14 DEF SecondAsked, offered
  <2> QED BY <1>6, <1>10, <2>1 DEF Underway, GoesOn
<1> QED BY <1>13, <1>14

----------------------------------------------------------------------------
(* The two halves put together.                                              *)

(* Byte k of an access lies in the first word, or in the second.             *)
LEMMA ByteAddress ==
  ASSUME NEW a \in Access, NEW k \in 0 .. Size(a.type) - 1
  PROVE  /\ k \in Lanes /\ offset(a) \in Lanes
         /\ offset(a) + k < 4 => (a.addr + k) % NumBytes = first_word(a) + (offset(a) + k)
         /\ offset(a) + k >= 4 => /\ split(a)
                                  /\ (a.addr + k) % NumBytes = second_word(a) + (offset(a) + k - 4)
<1>1. /\ a.addr \in Addr /\ a.type \in Types /\ offset(a) \in Lanes
      /\ Size(a.type) = (IF a.type = "word" THEN 4 ELSE IF a.type = "half" THEN 2 ELSE 1)
  BY AccessFields
<1>2. k \in Lanes
  BY <1>1 DEF Lanes
<1>3. (a.addr + k) % NumBytes = IF offset(a) + k < 4 THEN first_word(a) + (offset(a) + k)
                                ELSE second_word(a) + (offset(a) + k - 4)
  BY <1>1, <1>2, Words DEF offset, first_word, second_word
<1>4. offset(a) + k \in Int
  BY <1>1, <1>2 DEF Lanes
<1>5. offset(a) + k >= 4 => split(a)
  BY <1>1, <1>2 DEF split, Lanes, Types
<1> QED BY <1>1, <1>2, <1>3, <1>4, <1>5

LEMMA Rotation ==
  ASSUME NEW o \in Lanes, NEW k \in Lanes
  PROVE  (k - o) % 4 = IF k >= o THEN k - o ELSE k - o + 4
  BY DEF Lanes

LEMMA Halves ==
  ASSUME NEW a \in Access
  PROVE  /\ asked(a) = first_half(a) \cup second_half(a)
         /\ ~split(a) => second_half(a) = {}
<1> DEFINE o == offset(a)
           n == Size(a.type)
<1>1. o \in Lanes /\ n \in {1, 2, 4} /\ first_word(a) \in Int /\ second_word(a) \in Int
  BY AccessFields DEF Addr
<1>2. ASSUME NEW k \in first_lanes(a)
      PROVE  <<first_word(a) + k, (k - o) % 4>> \in asked(a)
  <2>1. k \in Lanes /\ k >= o /\ k - o \in 0 .. n - 1
    BY <1>1, <1>2 DEF first_lanes, Lanes
  <2>2. (k - o) % 4 = k - o
    BY <1>1, <2>1, Rotation
  <2>3. PICK j \in 0 .. n - 1 : j = k - o
    BY <2>1
  <2>4. (a.addr + j) % NumBytes = first_word(a) + k
    <3>1. o + j = k /\ o + j < 4
      BY <1>1, <2>1, <2>3 DEF Lanes
    <3> QED BY <3>1, ByteAddress
  <2> QED BY <2>2, <2>3, <2>4 DEF asked
<1>3. ASSUME NEW k \in second_lanes(a)
      PROVE  split(a) /\ <<second_word(a) + k, (k - o) % 4>> \in asked(a)
  <2>1. k \in Lanes /\ k < o /\ k - o + 4 \in 0 .. n - 1
    BY <1>1, <1>3 DEF second_lanes, Lanes
  <2>2. (k - o) % 4 = k - o + 4
    <3>1. ~(k >= o)
      BY <1>1, <2>1 DEF Lanes
    <3> QED BY <1>1, <2>1, <3>1, Rotation
  <2>3. PICK j \in 0 .. n - 1 : j = k - o + 4
    BY <2>1
  <2>4. split(a) /\ (a.addr + j) % NumBytes = second_word(a) + k
    <3>1. o + j - 4 = k /\ o + j >= 4
      BY <1>1, <2>1, <2>3 DEF Lanes
    <3> QED BY <3>1, ByteAddress
  <2> QED BY <2>2, <2>3, <2>4 DEF asked
<1>4. ASSUME NEW k \in 0 .. n - 1
      PROVE  <<(a.addr + k) % NumBytes, k>> \in first_half(a) \cup second_half(a)
  <2>1. k \in Lanes
    BY ByteAddress
  <2>2. CASE o + k < 4
    <3>1. PICK j \in first_lanes(a) : j = o + k
      BY <1>1, <2>1, <2>2 DEF first_lanes, Lanes
    <3>2. (j - o) % 4 = k
      <4>1. j \in Lanes /\ j >= o /\ j - o = k
        BY <1>1, <2>1, <2>2, <3>1 DEF Lanes
      <4> QED BY <1>1, <4>1, Rotation
    <3>3. (a.addr + k) % NumBytes = first_word(a) + j
      BY <2>2, <3>1, ByteAddress
    <3> QED BY <3>2, <3>3 DEF first_half
  <2>3. CASE o + k >= 4
    <3>1. PICK j \in second_lanes(a) : j = o + k - 4
      BY <1>1, <2>1, <2>3 DEF second_lanes, Lanes
    <3>2. (j - o) % 4 = k
      <4>1. j \in Lanes /\ ~(j >= o) /\ j - o + 4 = k
        BY <1>1, <2>1, <2>3, <3>1 DEF Lanes
      <4> QED BY <1>1, <4>1, Rotation
    <3>3. (a.addr + k) % NumBytes = second_word(a) + j
      BY <2>3, <3>1, ByteAddress
    <3> QED BY <3>2, <3>3 DEF second_half
  <2>4. o + k \in Int
    BY <1>1, <2>1 DEF Lanes
  <2> QED BY <2>2, <2>3, <2>4
<1>5. asked(a) = first_half(a) \cup second_half(a)
  BY <1>2, <1>3, <1>4 DEF asked, first_half, second_half
<1>6. ~split(a) => second_half(a) = {}
  BY <1>3 DEF second_half
<1> QED BY <1>5, <1>6

LEMMA Loaded ==
  ASSUME NEW i, NEW a \in Access, ctrl_q = control(a),
         split(a) => /\ \A k \in 1 .. 3 : rdata_q[k] = first_word(a) + k
                     /\ \A k \in Lanes : i.rdata[k] = second_word(a) + k,
         ~split(a) => \A k \in Lanes : i.rdata[k] = first_word(a) + k
  PROVE  lsu_rdata_o(i).bytes = [k \in 0 .. Size(a.type) - 1 |-> (a.addr + k) % NumBytes]
<1> DEFINE o == offset(a)
<1>1. /\ a.type \in Types /\ o \in Lanes
      /\ Size(a.type) = (IF a.type = "word" THEN 4 ELSE IF a.type = "half" THEN 2 ELSE 1)
  BY AccessFields
<1>2. ctrl_q.offset = o /\ ctrl_q.type = a.type
  BY DEF control
<1>3. ASSUME NEW k \in 0 .. Size(a.type) - 1
      PROVE  rdata_byte(i, k) = (a.addr + k) % NumBytes
  <2>1. rdata_byte(i, k) = IF split(a) /\ o + k < 4 THEN rdata_q[o + k] ELSE i.rdata[(o + k) % 4]
    BY <1>2 DEF rdata_byte, split
  <2>2. k \in Lanes
    BY ByteAddress
  <2>3. CASE o + k < 4
    <3>1. o + k \in Lanes /\ (o + k) % 4 = o + k
      BY <1>1, <2>2, <2>3 DEF Lanes
    <3>2. split(a) => o + k \in 1 .. 3
      BY <1>1, <2>2, <2>3 DEF split, Lanes
    <3>3. rdata_byte(i, k) = first_word(a) + (o + k)
      BY <2>1, <2>3, <3>1, <3>2
    <3> QED BY <2>3, <3>3, ByteAddress
  <2>4. CASE o + k >= 4
    <3>1. o + k - 4 \in Lanes /\ (o + k) % 4 = o + k - 4 /\ ~(o + k < 4)
      BY <1>1, <2>2, <2>4 DEF Lanes
    <3>2. split(a) /\ (a.addr + k) % NumBytes = second_word(a) + (o + k - 4)
      BY <2>4, ByteAddress
    <3>3. rdata_byte(i, k) = second_word(a) + (o + k - 4)
      BY <2>1, <3>1, <3>2
    <3> QED BY <3>2, <3>3
  <2>5. o + k \in Int
    BY <1>1, <2>2 DEF Lanes
  <2> QED BY <2>3, <2>4, <2>5
<1>4. lsu_rdata_o(i).bytes = [k \in 0 .. Size(a.type) - 1 |-> rdata_byte(i, k)]
  <2>1. CASE a.type = "word"
    BY <1>1, <1>2, <2>1 DEF lsu_rdata_o
  <2>2. CASE a.type = "half"
    BY <1>1, <1>2, <2>2 DEF lsu_rdata_o
  <2>3. CASE a.type = "byte"
    BY <1>1, <1>2, <2>3 DEF lsu_rdata_o
  <2> QED BY <1>1, <2>1, <2>2, <2>3 DEF Types
<1> QED BY <1>3, <1>4

(* Nothing is requested while the unit waits for the last answer.            *)
LEMMA Idles ==
  ASSUME NEW i, NEW a, InStage(i, a), ~access.first, ls_fsm_cs = "IDLE"
  PROVE  /\ pmp_err_q' = FALSE
         /\ UNCHANGED <<ls_fsm_cs, handle_misaligned_q, lsu_err_q, rdata_q, ctrl_q, addr_last_q>>
         /\ request' = NoRequest /\ bus' = (IF i.rvalid THEN Tail(bus) ELSE bus)
         /\ (i.err => i.rvalid) /\ (i.rvalid => bus # <<>>)
         /\ failed_by(i) = failed \cup (IF i.err THEN {Head(bus).word} ELSE {})
         /\ lsu_resp_valid_o(i) = (i.rvalid \/ pmp_err_q)
<1>1. ~i.lsu_req
  BY Wires
<1>2. IdleNoRequest(i)
  BY <1>1 DEF InStage, LsuCycle, IdleRequest, WaitGntMis, WaitRvalidMis, WaitGnt, WaitRvalidMisGntsDone
<1>3. ~data_req_o(i)
  BY <1>1 DEF data_req_o
<1>4. i.rvalid \in BOOLEAN /\ pmp_err_q \in BOOLEAN
  BY Wires DEF InStage, TypeOK, LsuTypeOK
<1>5. Bus(i)
  BY DEF InStage
<1>6. /\ pmp_err_q' = FALSE
      /\ UNCHANGED <<ls_fsm_cs, handle_misaligned_q, lsu_err_q, rdata_q, ctrl_q, addr_last_q>>
  BY <1>2 DEF IdleNoRequest, Latch
<1>7. failed_by(i) = failed \cup (IF i.err THEN {Head(bus).word} ELSE {})
  BY <1>3 DEF failed_by
<1> QED BY <1>3, <1>4, <1>5, <1>6, <1>7 DEF Bus, core_data_req, lsu_resp_valid_o

LEMMA Answers ==
  ASSUME NEW i, NEW a, InStage(i, a), ~access.first, ls_fsm_cs = "IDLE", lsu_resp_valid_o(i),
         ctrl_q = control(a)
  PROVE  /\ access' \in {NoAccess} \cup {Fresh(b) : b \in Access}
         /\ written' = {} /\ failed' = {}
         /\ response'.to = a /\ response'.rdata = lsu_rdata_o(i)
         /\ response'.written = written_by(i) /\ response'.failed = failed_by(i)
         /\ response'.load_err <=> (data_or_pmp_err(i) /\ ~a.we)
         /\ response'.store_err <=> (data_or_pmp_err(i) /\ a.we)
         /\ response'.rf_we <=> (i.rvalid /\ ~data_or_pmp_err(i) /\ ~a.we)
         /\ response'.load_err \in BOOLEAN /\ response'.store_err \in BOOLEAN
         /\ response' # Stray /\ response' # NoResponse
<1>1. Answer(i)
  BY DEF InStage, Wait, answered, Elsewhere
<1>2. a = access.a /\ ctrl_q.we = a.we
  BY DEF InStage, control
<1>3. access' \in {NoAccess} \cup {Fresh(b) : b \in Access} /\ written' = {} /\ failed' = {}
  BY <1>1 DEF Answer, NextAccess
<1>4. response' = [to |-> a, load_err |-> load_err_o(i), store_err |-> store_err_o(i),
                   rf_we |-> lsu_rdata_valid_o(i), rdata |-> lsu_rdata_o(i),
                   written |-> written_by(i), failed |-> failed_by(i)]
  BY <1>1, <1>2 DEF Answer
<1>5. DOMAIN response' = {"to", "load_err", "store_err", "rf_we", "rdata", "written", "failed"}
  BY <1>4
<1>6. DOMAIN Stray = {"stray"} /\ DOMAIN NoResponse = {"none"}
  BY DEF Stray, NoResponse
<1>7. "to" \notin DOMAIN Stray /\ "to" \notin DOMAIN NoResponse
  BY <1>6
<1>8. response' # Stray /\ response' # NoResponse
  BY <1>5, <1>7
<1>9. /\ load_err_o(i) <=> (data_or_pmp_err(i) /\ ~a.we)
      /\ store_err_o(i) <=> (data_or_pmp_err(i) /\ a.we)
      /\ lsu_rdata_valid_o(i) <=> (i.rvalid /\ ~data_or_pmp_err(i) /\ ~a.we)
  BY <1>2 DEF load_err_o, store_err_o, lsu_rdata_valid_o
<1>10. load_err_o(i) \in BOOLEAN /\ store_err_o(i) \in BOOLEAN
  BY DEF load_err_o, store_err_o
<1>11. /\ response'.to = a /\ response'.rdata = lsu_rdata_o(i)
       /\ response'.written = written_by(i) /\ response'.failed = failed_by(i)
  BY <1>4
<1>12. /\ response'.load_err = load_err_o(i) /\ response'.store_err = store_err_o(i)
       /\ response'.rf_we = lsu_rdata_valid_o(i)
  BY <1>4
<1> QED BY <1>3, <1>8, <1>9, <1>10, <1>11, <1>12

LEMMA CorrectAnswer ==
  ASSUME NEW i, NEW a, InStage(i, a), ~access.first, ls_fsm_cs = "IDLE", lsu_resp_valid_o(i),
         ctrl_q = control(a),
         data_or_pmp_err(i) <=> failed_by(i) # {},
         first_word(a) \in failed_by(i) => addr_last_q = a.addr,
         failed_by(i) # {} /\ first_word(a) \notin failed_by(i) => addr_last_q = second_word(a),
         ~data_or_pmp_err(i) /\ ~a.we =>
           /\ i.rvalid
           /\ split(a) => /\ \A k \in 1 .. 3 : rdata_q[k] = first_word(a) + k
                          /\ \A k \in Lanes : i.rdata[k] = second_word(a) + k
           /\ ~split(a) => \A k \in Lanes : i.rdata[k] = first_word(a) + k,
         written_by(i) \subseteq (IF a.we THEN asked(a) ELSE {}),
         a.we /\ ~data_or_pmp_err(i) => written_by(i) = asked(a)
  PROVE  Correct'
<1> DEFINE r == response'
<1>1. /\ r.to = a /\ r.rdata = lsu_rdata_o(i)
      /\ r.written = written_by(i) /\ r.failed = failed_by(i)
      /\ r.load_err <=> (data_or_pmp_err(i) /\ ~a.we)
      /\ r.store_err <=> (data_or_pmp_err(i) /\ a.we)
      /\ r.rf_we <=> (i.rvalid /\ ~data_or_pmp_err(i) /\ ~a.we)
      /\ r.load_err \in BOOLEAN /\ r.store_err \in BOOLEAN
  BY Answers
<1>2. a \in Access /\ a.we \in BOOLEAN
  BY Wires, AccessFields
<1>3. addr_last_q' = addr_last_q
  BY Idles
<1>4. LoadsReadTheirBytes'
  <2> SUFFICES ASSUME ~r.load_err, ~a.we
               PROVE  /\ r.rf_we
                      /\ r.rdata.bytes = [k \in 0 .. Size(a.type) - 1 |-> (a.addr + k) % NumBytes]
                      /\ r.rdata.ext = (IF a.type = "word" THEN "none" ELSE IF a.sign_ext THEN "sign" ELSE "zero")
    BY <1>1 DEF LoadsReadTheirBytes
  <2>1. ~data_or_pmp_err(i)
    BY <1>1
  <2>2. r.rf_we
    BY <1>1, <2>1
  <2>3. lsu_rdata_o(i).bytes = [k \in 0 .. Size(a.type) - 1 |-> (a.addr + k) % NumBytes]
    BY <1>2, <2>1, Loaded
  <2>4. lsu_rdata_o(i).ext = (IF a.type = "word" THEN "none" ELSE IF a.sign_ext THEN "sign" ELSE "zero")
    BY DEF lsu_rdata_o, control
  <2> QED BY <1>1, <2>2, <2>3, <2>4
<1>5. StoresWriteTheirBytes'
  <2>1. ~r.store_err /\ a.we => ~data_or_pmp_err(i)
    BY <1>1
  <2> QED BY <1>1, <2>1 DEF StoresWriteTheirBytes, asked
<1>6. FaultsAreReported'
  <2>1. r.load_err = (failed_by(i) # {} /\ ~a.we) /\ r.store_err = (failed_by(i) # {} /\ a.we)
    BY <1>1, <1>2
  <2>2. r.load_err => ~r.rf_we
    BY <1>1
  <2> QED BY <1>1, <2>1, <2>2 DEF FaultsAreReported
<1>7. FirstFailingAddress'
  BY <1>1, <1>3 DEF FirstFailingAddress, first_word, second_word
<1> QED BY <1>4, <1>5, <1>6, <1>7 DEF Correct

(* The access ends, and the unit is ready for the next.                       *)
Ends == /\ access' \in {NoAccess} \cup {Fresh(b) : b \in Access}
        /\ Unasked' /\ response' # Stray /\ Correct'

LEMMA FromSingle ==
  ASSUME NEW i, NEW a, InStage(i, a), ~access.first, Single(a)
  PROVE  (GoesOn(a) \/ Ends) /\ Held /\ request' = NoRequest
<1>1. /\ ~split(a) /\ ls_fsm_cs = "IDLE"
      /\ ~handle_misaligned_q /\ ~lsu_err_q /\ pmp_err_q = first_denied(a)
      /\ bus = queued(first_denied(a), first_request(a)) /\ Settled
      /\ written = {} /\ failed = taken(first_word(a), first_denied(a))
      /\ ctrl_q = control(a) /\ addr_last_q = a.addr
  BY DEF Single
<1>2. i.rvalid \in BOOLEAN /\ i.err \in BOOLEAN /\ first_denied(a) \in BOOLEAN
  BY Wires DEF first_denied
<1>3. /\ pmp_err_q' = FALSE
      /\ UNCHANGED <<ls_fsm_cs, handle_misaligned_q, lsu_err_q, rdata_q, ctrl_q, addr_last_q>>
      /\ request' = NoRequest /\ bus' = (IF i.rvalid THEN Tail(bus) ELSE bus)
      /\ (i.err => i.rvalid) /\ (i.rvalid => bus # <<>>)
      /\ failed_by(i) = failed \cup (IF i.err THEN {Head(bus).word} ELSE {})
      /\ lsu_resp_valid_o(i) = (i.rvalid \/ first_denied(a))
  BY <1>1, Idles
<1>4. /\ i.rvalid => ~first_denied(a) /\ bus # <<>> /\ Head(bus) = first_request(a) /\ Tail(bus) = <<>>
      /\ ~i.rvalid /\ first_denied(a) => bus = <<>>
  BY <1>1, <1>3, ShortBuses DEF queued
<1>5. Held
  BY <1>1 DEF Held, Settled
<1>6. CASE ~lsu_resp_valid_o(i)
  <2>1. ~i.rvalid /\ ~i.err /\ ~first_denied(a)
    BY <1>2, <1>3, <1>6
  <2>2. /\ access' = [a |-> a, first |-> FALSE] /\ response' = NoResponse
        /\ written' = written_by(i) /\ failed' = failed_by(i)
    BY <1>6, Waits
  <2>3. written' = {} /\ failed' = failed
    BY <1>1, <1>3, <2>1, <2>2 DEF written_by
  <2>4. pmp_err_q' = first_denied(a)
    BY <1>2, <1>3, <2>1
  <2>5. Single(a)'
    BY <1>1, <1>3, <2>1, <2>3, <2>4 DEF Single, Settled
  <2> QED BY <1>3, <1>5, <2>2, <2>5 DEF GoesOn, Underway
<1>7. CASE lsu_resp_valid_o(i)
  <2>1. access' \in {NoAccess} \cup {Fresh(b) : b \in Access} /\ written' = {} /\ failed' = {} /\ response' # Stray
    BY <1>1, <1>7, Answers
  <2>2. access' = NoAccess \/ access'.first
    BY <2>1 DEF Fresh
  <2>3. bus' = <<>>
    BY <1>2, <1>3, <1>4, <1>7
  <2>4. Unasked'
    BY <1>1, <1>3, <2>1, <2>2, <2>3 DEF Unasked
  <2>5. failed_by(i) = taken(first_word(a), i.err \/ first_denied(a))
    <3>1. i.err => Head(bus).word = first_word(a)
      BY <1>3, <1>4 DEF first_request
    <3> QED BY <1>1, <1>2, <1>3, <3>1 DEF taken
  <2>6. data_or_pmp_err(i) <=> (i.err \/ first_denied(a))
    BY <1>1 DEF data_or_pmp_err
  <2>7. written_by(i) = IF i.rvalid THEN first_written(a, i.err) ELSE {}
    <3>1. CASE i.rvalid
      BY <1>1, <1>4, <3>1, FirstEnds
    <3>2. CASE ~i.rvalid
      BY <1>1, <3>2 DEF written_by
    <3> QED BY <1>2, <3>1, <3>2
  <2>8. asked(a) = first_half(a)
    BY <1>1, Wires, Halves
  <2>9. ~data_or_pmp_err(i) => i.rvalid
    BY <1>3, <1>7, <2>6
  <2>10. ~data_or_pmp_err(i) /\ ~a.we => \A k \in Lanes : i.rdata[k] = first_word(a) + k
    <3>1. Head(bus) = first_request(a) => Head(bus).we = a.we /\ Head(bus).word = first_word(a)
      BY DEF first_request
    <3> QED BY <1>4, <2>6, <2>9, <3>1, Wires
  <2>11. written_by(i) \subseteq (IF a.we THEN asked(a) ELSE {})
    BY <2>7, <2>8 DEF first_written
  <2>12. a.we /\ ~data_or_pmp_err(i) => written_by(i) = asked(a)
    BY <2>6, <2>7, <2>8, <2>9 DEF first_written
  <2>13. Correct'
    <3>1. data_or_pmp_err(i) <=> failed_by(i) # {}
      BY <2>5, <2>6 DEF taken
    <3>2. failed_by(i) # {} => first_word(a) \in failed_by(i)
      BY <2>5 DEF taken
    <3> QED BY <1>1, <1>7, <2>9, <2>10, <2>11, <2>12, <3>1, <3>2, CorrectAnswer
  <2> QED BY <1>3, <1>5, <2>1, <2>4, <2>13 DEF Ends
<1> QED BY <1>6, <1>7

LEMMA FromSecondGranted ==
  ASSUME NEW i, NEW a, InStage(i, a), ~access.first, SecondGranted(a)
  PROVE  (GoesOn(a) \/ Ends) /\ Held /\ request' = NoRequest
<1>1. /\ split(a) /\ pmp_err_q = second_denied(a)
      /\ first_denied(a) => lsu_err_q
      /\ written = first_written(a, lsu_err_q)
      /\ failed = taken(first_word(a), lsu_err_q) \cup taken(second_word(a), second_denied(a))
      /\ ctrl_q = control(a) /\ FirstLoaded(a)
      /\ ls_fsm_cs = "IDLE" /\ ~handle_misaligned_q
      /\ addr_last_q = (IF lsu_err_q THEN a.addr ELSE second_word(a))
      /\ bus = queued(second_denied(a), second_request(a)) /\ Settled
  BY DEF SecondGranted, FirstOver
<1>2. /\ i.rvalid \in BOOLEAN /\ i.err \in BOOLEAN
      /\ second_denied(a) \in BOOLEAN /\ lsu_err_q \in BOOLEAN
  BY Wires DEF second_denied, InStage, TypeOK, LsuTypeOK
<1>3. /\ pmp_err_q' = FALSE
      /\ UNCHANGED <<ls_fsm_cs, handle_misaligned_q, lsu_err_q, rdata_q, ctrl_q, addr_last_q>>
      /\ request' = NoRequest /\ bus' = (IF i.rvalid THEN Tail(bus) ELSE bus)
      /\ (i.err => i.rvalid) /\ (i.rvalid => bus # <<>>)
      /\ failed_by(i) = failed \cup (IF i.err THEN {Head(bus).word} ELSE {})
      /\ lsu_resp_valid_o(i) = (i.rvalid \/ second_denied(a))
  BY <1>1, Idles
<1>4. /\ i.rvalid => ~second_denied(a) /\ bus # <<>> /\ Head(bus) = second_request(a) /\ Tail(bus) = <<>>
      /\ ~i.rvalid /\ second_denied(a) => bus = <<>>
  BY <1>1, <1>3, ShortBuses DEF queued
<1>5. Held
  BY <1>1 DEF Held, Settled
<1>6. CASE ~lsu_resp_valid_o(i)
  <2>1. ~i.rvalid /\ ~i.err /\ ~second_denied(a)
    BY <1>2, <1>3, <1>6
  <2>2. /\ access' = [a |-> a, first |-> FALSE] /\ response' = NoResponse
        /\ written' = written_by(i) /\ failed' = failed_by(i)
    BY <1>6, Waits
  <2>3. written' = written /\ failed' = failed
    BY <1>3, <2>1, <2>2 DEF written_by
  <2>4. pmp_err_q' = second_denied(a)
    BY <1>2, <1>3, <2>1
  <2>5. FirstOver(a)'
    <3>1. FirstLoaded(a)'
      BY <1>1, <1>3 DEF FirstLoaded
    <3> QED BY <1>1, <1>3, <2>3, <2>4, <3>1 DEF FirstOver
  <2>6. SecondGranted(a)'
    BY <1>1, <1>3, <2>1, <2>5 DEF SecondGranted, Settled
  <2> QED BY <1>3, <1>5, <2>2, <2>6 DEF GoesOn, Underway
<1>7. CASE lsu_resp_valid_o(i)
  <2>1. access' \in {NoAccess} \cup {Fresh(b) : b \in Access} /\ written' = {} /\ failed' = {} /\ response' # Stray
    BY <1>1, <1>7, Answers
  <2>2. access' = NoAccess \/ access'.first
    BY <2>1 DEF Fresh
  <2>3. bus' = <<>>
    BY <1>2, <1>3, <1>4, <1>7
  <2>4. Unasked'
    BY <1>1, <1>3, <2>1, <2>2, <2>3 DEF Unasked
  <2>5. i.rvalid => /\ Head(bus).we = a.we /\ Head(bus).word = second_word(a)
                    /\ Head(bus).be = second_lanes(a) /\ Head(bus).wdata = rotated(a)
    BY <1>4 DEF second_request
  <2>6. failed_by(i) = taken(first_word(a), lsu_err_q) \cup taken(second_word(a), i.err \/ second_denied(a))
    BY <1>1, <1>2, <1>3, <2>5 DEF taken
  <2>7. data_or_pmp_err(i) <=> (lsu_err_q \/ i.err \/ second_denied(a))
    BY <1>1 DEF data_or_pmp_err
  <2>8. written_by(i) = first_written(a, lsu_err_q) \cup (IF i.rvalid /\ ~i.err /\ a.we THEN second_half(a) ELSE {})
    <3>1. CASE i.rvalid /\ ~i.err /\ a.we
      <4>1. \A k \in second_lanes(a) : rotated(a)[k] = (k - offset(a)) % 4
        <5>1. second_lanes(a) \subseteq Lanes
          BY Wires, AccessFields DEF second_lanes, Lanes
        <5> QED BY <3>1, <5>1 DEF rotated
      <4>2. {<<second_word(a) + k, rotated(a)[k]>> : k \in second_lanes(a)} = second_half(a)
        BY <4>1 DEF second_half
      <4>3. written_by(i) = written \cup {<<second_word(a) + k, rotated(a)[k]>> : k \in second_lanes(a)}
        BY <2>5, <3>1 DEF written_by
      <4> QED BY <1>1, <3>1, <4>2, <4>3
    <3>2. CASE ~(i.rvalid /\ ~i.err /\ a.we)
      BY <1>1, <2>5, <3>2 DEF written_by
    <3> QED BY <3>1, <3>2
  <2>9. asked(a) = first_half(a) \cup second_half(a)
    BY Wires, Halves
  <2>10. ~data_or_pmp_err(i) => i.rvalid
    BY <1>3, <1>7, <2>7
  <2>11. ~data_or_pmp_err(i) /\ ~a.we =>
           /\ \A k \in 1 .. 3 : rdata_q[k] = first_word(a) + k
           /\ \A k \in Lanes : i.rdata[k] = second_word(a) + k
    <3> SUFFICES ASSUME ~data_or_pmp_err(i), ~a.we
                 PROVE  /\ \A k \in 1 .. 3 : rdata_q[k] = first_word(a) + k
                        /\ \A k \in Lanes : i.rdata[k] = second_word(a) + k
      OBVIOUS
    <3>1. \A k \in 1 .. 3 : rdata_q[k] = first_word(a) + k
      BY <1>1, <2>7 DEF FirstLoaded
    <3>2. \A k \in Lanes : i.rdata[k] = second_word(a) + k
      BY <1>4, <2>5, <2>7, <2>10, Wires
    <3> QED BY <3>1, <3>2
  <2>12. written_by(i) \subseteq (IF a.we THEN asked(a) ELSE {})
    BY <2>8, <2>9 DEF first_written
  <2>13. a.we /\ ~data_or_pmp_err(i) => written_by(i) = asked(a)
    BY <2>7, <2>8, <2>9, <2>10 DEF first_written
  <2>14. Correct'
    <3>1. data_or_pmp_err(i) <=> failed_by(i) # {}
      BY <2>6, <2>7 DEF taken
    <3>2. first_word(a) # second_word(a)
      BY Wires, AccessFields, Words DEF first_word, second_word
    <3>3. first_word(a) \in failed_by(i) => addr_last_q = a.addr
      BY <1>1, <1>2, <2>6, <3>2 DEF taken
    <3>4. failed_by(i) # {} /\ first_word(a) \notin failed_by(i) => addr_last_q = second_word(a)
      BY <1>1, <1>2, <2>6 DEF taken
    <3> QED BY <1>1, <1>7, <2>10, <2>11, <2>12, <2>13, <3>1, <3>3, <3>4, CorrectAnswer
  <2> QED BY <1>3, <1>5, <2>1, <2>4, <2>14 DEF Ends
<1> QED BY <1>6, <1>7

(* No access in the stage.                                                   *)
LEMMA FromElsewhere ==
  ASSUME NEW i, ~current, Unasked, \E gnt, rvalid, err \in BOOLEAN : i = Input(gnt, rvalid, err),
         Bus(i), LsuCycle(i), Wait(i) \/ Answer(i) \/ Elsewhere(i)
  PROVE  /\ access' \in {NoAccess} \cup {Fresh(b) : b \in Access}
         /\ Unasked' /\ response' = NoResponse
<1>1. /\ ls_fsm_cs = "IDLE" /\ ~handle_misaligned_q /\ ~pmp_err_q
      /\ bus = <<>> /\ request = NoRequest /\ written = {} /\ failed = {}
  BY DEF Unasked
<1>2. ~i.lsu_req
  <2>1. PICK gnt, rvalid, err \in BOOLEAN : i = Input(gnt, rvalid, err)
    OBVIOUS
  <2>2. i.lsu_req = (current /\ access.first)
    BY <2>1 DEF Input
  <2> QED BY <2>2
<1>3. ~i.rvalid /\ ~i.err
  BY <1>1 DEF Bus
<1>4. IdleNoRequest(i)
  BY <1>1, <1>2 DEF LsuCycle, IdleRequest, WaitGntMis, WaitRvalidMis, WaitGnt, WaitRvalidMisGntsDone
<1>5. ~data_req_o(i) /\ ~lsu_resp_valid_o(i)
  BY <1>1, <1>2, <1>3 DEF data_req_o, lsu_resp_valid_o
<1>6. bus' = <<>> /\ request' = NoRequest
  BY <1>1, <1>3, <1>5 DEF Bus, core_data_req
<1>7. Elsewhere(i)
  BY DEF Wait, Answer, answered
<1>8. /\ access' \in {NoAccess} \cup {Fresh(b) : b \in Access}
      /\ written' = {} /\ failed' = {} /\ response' = NoResponse
  BY <1>1, <1>3, <1>5, <1>7 DEF Elsewhere, written_by, failed_by
<1>9. access' = NoAccess \/ access'.first
  BY <1>8 DEF Fresh
<1>10. ls_fsm_cs' = "IDLE" /\ ~handle_misaligned_q' /\ ~pmp_err_q'
  BY <1>1, <1>4 DEF IdleNoRequest
<1> QED BY <1>6, <1>8, <1>9, <1>10 DEF Unasked

----------------------------------------------------------------------------
(* Types.                                                                    *)
LEMMA HalfTypes ==
  ASSUME NEW a \in Access,
         NEW b \in {<<>>, <<first_request(a)>>, <<second_request(a)>>, <<first_request(a), second_request(a)>>},
         NEW w \in {{}, first_half(a)},
         NEW f \in SUBSET {first_word(a), second_word(a)}
  PROVE  /\ \A k \in DOMAIN b : b[k].word \in Addr /\ b[k].be \subseteq Lanes
         /\ Len(b) <= 2
         /\ w \subseteq Addr \X Lanes /\ f \subseteq Addr
         /\ b # <<>> => \A k \in Lanes : Head(b).word + k \in Addr
<1>1. /\ first_word(a) \in Addr /\ second_word(a) \in Addr /\ offset(a) \in Lanes
      /\ Size(a.type) \in {1, 2, 4}
  BY AccessFields
<1>2. \A k \in Lanes : first_word(a) + k \in Addr /\ second_word(a) + k \in Addr
  BY AccessFields, Words DEF first_word, second_word
<1>3. first_lanes(a) \subseteq Lanes /\ second_lanes(a) \subseteq Lanes
  BY <1>1 DEF first_lanes, second_lanes, Lanes
<1> DEFINE x == first_request(a)
           y == second_request(a)
<1>4. /\ x.word = first_word(a) /\ x.be = first_lanes(a)
      /\ y.word = second_word(a) /\ y.be = second_lanes(a)
  BY DEF first_request, second_request
<1>5. first_half(a) \subseteq Addr \X Lanes
  BY <1>1, <1>2, <1>3, Lengths DEF first_half
<1> HIDE DEF x, y
<1>6. /\ \A k \in DOMAIN b : b[k] \in {x, y}
      /\ Len(b) <= 2
      /\ b # <<>> => Head(b) \in {x, y}
  <2>1. b = <<>> \/ b = <<x>> \/ b = <<y>> \/ b = <<x, y>>
    BY DEF x, y
  <2>2. CASE b = <<>>
    BY <2>2
  <2>3. CASE b = <<x>>
    BY <2>3
  <2>4. CASE b = <<y>>
    BY <2>4
  <2>5. CASE b = <<x, y>>
    BY <2>5
  <2> QED BY <2>1, <2>2, <2>3, <2>4, <2>5
<1> QED BY <1>1, <1>2, <1>3, <1>4, <1>5, <1>6

LEMMA Signals ==
  ASSUME TypeOK, NEW i, \E gnt, rvalid, err \in BOOLEAN : i = Input(gnt, rvalid, err),
         bus # <<>> => \A k \in Lanes : Head(bus).word + k \in Addr
  PROVE  /\ i.rvalid \in BOOLEAN /\ i.err \in BOOLEAN /\ i.gnt \in BOOLEAN /\ i.pmp_err \in BOOLEAN
         /\ \A k \in 1 .. 3 : i.rdata[k] \in Byte
         /\ i.addr \in Addr /\ addr_last_d(i) \in Addr
         /\ data_offset(i) \in Lanes /\ i.lsu_type \in Types
         /\ i.lsu_sign_ext \in BOOLEAN /\ i.lsu_we \in BOOLEAN
<1>1. PICK gnt, rvalid, err \in BOOLEAN : i = Input(gnt, rvalid, err)
  OBVIOUS
<1>2. /\ the.addr \in Addr /\ the.type \in Types /\ the.we \in BOOLEAN /\ the.sign_ext \in BOOLEAN
  <2>1. CASE current
    BY <2>1, TheAccess, AccessFields
  <2>2. CASE ~current
    BY <2>2, NumBytesAssumption DEF the, Addr, Types
  <2> QED BY <2>1, <2>2
<1>3. adder_result \in Addr
  BY <1>2, Words DEF adder_result, TypeOK, LsuTypeOK
<1>4. /\ i.rvalid = rvalid /\ i.err = err /\ i.gnt = gnt /\ i.pmp_err \in BOOLEAN
      /\ i.addr = adder_result /\ i.lsu_type = the.type
      /\ i.lsu_sign_ext = the.sign_ext /\ i.lsu_we = the.we
  BY <1>1 DEF Input
<1>5. \A k \in Lanes : i.rdata[k] \in Byte
  <2>1. CASE rvalid /\ bus # <<>> /\ ~err /\ ~Head(bus).we
    BY <1>1, <2>1 DEF Input, Byte
  <2>2. CASE ~(rvalid /\ bus # <<>> /\ ~err /\ ~Head(bus).we)
    BY <1>1, <2>2 DEF Input, Byte
  <2> QED BY <2>1, <2>2
<1>6. w_aligned(i.addr) \in Addr
  <2>1. i.addr \in Addr /\ i.addr \in Int
    BY <1>3, <1>4 DEF Addr
  <2>2. Word(i.addr) = w_aligned(i.addr) /\ Word(i.addr) + 0 \in Addr
    BY <2>1, Words DEF w_aligned, Lanes
  <2>3. w_aligned(i.addr) \in Int
    BY <2>1 DEF w_aligned
  <2> QED BY <2>2, <2>3
<1>7. data_offset(i) \in Lanes
  BY <1>3, <1>4, Words DEF data_offset
<1> QED BY <1>1, <1>2, <1>3, <1>4, <1>5, <1>6, <1>7 DEF addr_last_d, Lanes

LEMMA LsuTypes ==
  ASSUME TypeOK, NEW i, \E gnt, rvalid, err \in BOOLEAN : i = Input(gnt, rvalid, err),
         bus # <<>> => \A k \in Lanes : Head(bus).word + k \in Addr, LsuCycle(i)
  PROVE  LsuTypeOK(Byte)'
<1>1. /\ ls_fsm_cs \in LsuStates
      /\ handle_misaligned_q \in BOOLEAN /\ pmp_err_q \in BOOLEAN /\ lsu_err_q \in BOOLEAN
      /\ rdata_q \in [1 .. 3 -> Byte]
      /\ ctrl_q \in [offset : Lanes, type : Types, sign_ext : BOOLEAN, we : BOOLEAN]
      /\ addr_last_q \in Addr
  BY DEF TypeOK, LsuTypeOK
<1>2. /\ i.gnt \in BOOLEAN /\ i.pmp_err \in BOOLEAN
      /\ [k \in 1 .. 3 |-> i.rdata[k]] \in [1 .. 3 -> Byte]
      /\ addr_last_d(i) \in Addr
      /\ [offset |-> data_offset(i), type |-> i.lsu_type, sign_ext |-> i.lsu_sign_ext, we |-> i.lsu_we]
           \in [offset : Lanes, type : Types, sign_ext : BOOLEAN, we : BOOLEAN]
  BY Signals
<1>3. i.err \in BOOLEAN
  BY Signals
<1>4. ASSUME NEW au, NEW cu, NEW ru, Latch(i, au, cu, ru)
      PROVE  /\ rdata_q' \in [1 .. 3 -> Byte]
             /\ ctrl_q' \in [offset : Lanes, type : Types, sign_ext : BOOLEAN, we : BOOLEAN]
             /\ addr_last_q' \in Addr
  BY <1>1, <1>2, <1>4 DEF Latch
<1>5. /\ rdata_q' \in [1 .. 3 -> Byte]
      /\ ctrl_q' \in [offset : Lanes, type : Types, sign_ext : BOOLEAN, we : BOOLEAN]
      /\ addr_last_q' \in Addr
  BY <1>4 DEF LsuCycle, IdleNoRequest, IdleRequest, WaitGntMis, WaitRvalidMis, WaitGnt, WaitRvalidMisGntsDone
<1>6. ls_fsm_cs' \in LsuStates
  BY <1>1 DEF LsuCycle, IdleNoRequest, IdleRequest, WaitGntMis, WaitRvalidMis, WaitGnt, WaitRvalidMisGntsDone, LsuStates
<1>7. handle_misaligned_q' \in BOOLEAN
  BY <1>1, <1>2 DEF LsuCycle, IdleNoRequest, IdleRequest, WaitGntMis, WaitRvalidMis, WaitGnt, WaitRvalidMisGntsDone,
                    split_misaligned_access
<1>8. pmp_err_q' \in BOOLEAN /\ lsu_err_q' \in BOOLEAN
  BY <1>1, <1>2, <1>3 DEF LsuCycle, IdleNoRequest, IdleRequest, WaitGntMis, WaitRvalidMis, WaitGnt, WaitRvalidMisGntsDone,
                          first_half_err
<1> QED BY <1>5, <1>6, <1>7, <1>8 DEF LsuTypeOK

----------------------------------------------------------------------------
(* The invariant.                                                            *)
LEMMA InitHolds == Init => IInv
<1> SUFFICES ASSUME Init PROVE IInv
  OBVIOUS
<1> USE DEF Init, LsuInit
<1>1. Phase
  BY DEF Phase, Unasked
<1>2. TypeOK
  <2>1. 0 \in Addr /\ 0 \in Lanes /\ "word" \in Types /\ "IDLE" \in LsuStates /\ Noise \in Byte
    BY NumBytesAssumption DEF Addr, Lanes, Types, LsuStates, Byte
  <2>2. LsuTypeOK(Byte)
    BY <2>1 DEF LsuTypeOK
  <2> QED BY <2>2 DEF TypeOK
<1>3. OneAnswerPerAccess
  BY Distinct DEF OneAnswerPerAccess
<1>4. Correct
  BY DEF Correct, LoadsReadTheirBytes, StoresWriteTheirBytes, FaultsAreReported, FirstFailingAddress
<1> QED BY <1>1, <1>2, <1>3, <1>4 DEF IInv

(* What a phase leaves on the bus and in the ghosts.                         *)
LEMMA Halfway ==
  ASSUME NEW a \in Access, Underway(a)
  PROVE  /\ bus \in {<<>>, <<first_request(a)>>, <<second_request(a)>>, <<first_request(a), second_request(a)>>}
         /\ written \in {{}, first_half(a)}
         /\ failed \in SUBSET {first_word(a), second_word(a)}
<1> USE DEF queued, taken, first_written
<1>1. CASE Asked(a)
  BY <1>1 DEF Asked
<1>2. CASE Single(a)
  BY <1>2 DEF Single
<1>3. CASE FirstGranted(a)
  BY <1>3 DEF FirstGranted
<1>4. CASE BothGranted(a)
  BY <1>4 DEF BothGranted
<1>5. CASE SecondAsked(a)
  BY <1>5 DEF SecondAsked, FirstOver
<1>6. CASE SecondGranted(a)
  BY <1>6 DEF SecondGranted, FirstOver
<1> QED BY <1>1, <1>2, <1>3, <1>4, <1>5, <1>6 DEF Underway

LEMMA HalfwayNext ==
  ASSUME NEW a \in Access, Underway(a)'
  PROVE  /\ bus' \in {<<>>, <<first_request(a)>>, <<second_request(a)>>, <<first_request(a), second_request(a)>>}
         /\ written' \in {{}, first_half(a)}
         /\ failed' \in SUBSET {first_word(a), second_word(a)}
<1> USE DEF queued, taken, first_written
<1>1. CASE Asked(a)'
  BY <1>1 DEF Asked
<1>2. CASE Single(a)'
  BY <1>2 DEF Single
<1>3. CASE FirstGranted(a)'
  BY <1>3 DEF FirstGranted
<1>4. CASE BothGranted(a)'
  BY <1>4 DEF BothGranted
<1>5. CASE SecondAsked(a)'
  BY <1>5 DEF SecondAsked, FirstOver
<1>6. CASE SecondGranted(a)'
  BY <1>6 DEF SecondGranted, FirstOver
<1> QED BY <1>1, <1>2, <1>3, <1>4, <1>5, <1>6 DEF Underway

LEMMA EdgeKeeps ==
  ASSUME IInv, NEW i, \E gnt, rvalid, err \in BOOLEAN : i = Input(gnt, rvalid, err),
         Bus(i), LsuCycle(i), Wait(i) \/ Answer(i) \/ Elsewhere(i)
  PROVE  IInv' /\ Held
<1>1. TypeOK /\ Phase
  BY DEF IInv
<1>2. LsuTypeOK(Byte)'
  <2>1. bus # <<>> => \A k \in Lanes : Head(bus).word + k \in Addr
    <3>1. CASE Unasked
      BY <3>1 DEF Unasked
    <3>2. CASE current /\ Underway(access.a)
      <4>1. access.a \in Access
        BY <1>1, <3>2, TheAccess
      <4> QED BY <3>2, <4>1, Halfway, HalfTypes
    <3> QED BY <1>1, <3>1, <3>2 DEF Phase
  <2> QED BY <1>1, <2>1, LsuTypes
<1>3. ASSUME access' \in {NoAccess} \cup {Fresh(b) : b \in Access}, Unasked'
      PROVE  TypeOK' /\ Phase'
  <2>1. access' \in {NoAccess} \cup [a : Access, first : BOOLEAN]
    <3>1. \A b \in Access : Fresh(b) \in [a : Access, first : BOOLEAN]
      BY DEF Fresh
    <3> QED BY <1>3, <3>1
  <2>2. bus' = <<>> /\ written' = {} /\ failed' = {} /\ Len(bus') = 0
    BY <1>3 DEF Unasked
  <2> QED BY <1>2, <1>3, <2>1, <2>2 DEF TypeOK, Phase
<1>4. ASSUME NEW a \in Access, GoesOn(a) PROVE IInv'
  <2>1. access' = [a |-> a, first |-> FALSE] /\ response' = NoResponse /\ Underway(a)'
    BY <1>4 DEF GoesOn
  <2>2. access' \in [a : Access, first : BOOLEAN] /\ access' # NoAccess
    BY <2>1, Distinct
  <2>3. TypeOK'
    <3>1. /\ \A k \in DOMAIN bus' : bus'[k].word \in Addr /\ bus'[k].be \subseteq Lanes
          /\ Len(bus') <= 2
          /\ written' \subseteq Addr \X Lanes /\ failed' \subseteq Addr
      BY <2>1, HalfwayNext, HalfTypes
    <3> QED BY <1>2, <2>2, <3>1 DEF TypeOK
  <2>4. Phase'
    <3>1. access'.a = a /\ ~access'.first
      BY <2>1
    <3>2. Underway(access.a)'
      BY <2>1, <3>1
    <3> QED BY <2>2, <3>1, <3>2 DEF Phase, current
  <2>5. OneAnswerPerAccess'
    BY <2>1, Distinct DEF OneAnswerPerAccess
  <2>6. Correct'
    BY <2>1 DEF Correct, LoadsReadTheirBytes, StoresWriteTheirBytes, FaultsAreReported, FirstFailingAddress
  <2> QED BY <2>3, <2>4, <2>5, <2>6 DEF IInv
<1>5. ASSUME Ends PROVE IInv'
  <2>1. TypeOK' /\ Phase'
    BY <1>3, <1>5 DEF Ends
  <2>2. OneAnswerPerAccess'
    BY <1>5 DEF Ends, Unasked, OneAnswerPerAccess
  <2> QED BY <1>5, <2>1, <2>2 DEF IInv, Ends
<1>6. CASE ~current
  <2>1. Unasked
    BY <1>1, <1>6 DEF Phase
  <2>2. /\ access' \in {NoAccess} \cup {Fresh(b) : b \in Access}
        /\ Unasked' /\ response' = NoResponse
    BY <1>6, <2>1, FromElsewhere
  <2>3. TypeOK' /\ Phase'
    BY <1>3, <2>2
  <2>4. OneAnswerPerAccess'
    BY <2>2, Distinct DEF OneAnswerPerAccess
  <2>5. Correct'
    BY <2>2 DEF Correct, LoadsReadTheirBytes, StoresWriteTheirBytes, FaultsAreReported, FirstFailingAddress
  <2>6. Held
    BY <2>1 DEF Held, Unasked
  <2> QED BY <2>3, <2>4, <2>5, <2>6 DEF IInv
<1>7. CASE current
  <2>1. PICK a : a = access.a
    OBVIOUS
  <2>2. InStage(i, a) /\ a \in Access
    BY <1>1, <1>7, <2>1, TheAccess DEF InStage
  <2>3. CASE Unasked
    BY <1>4, <2>2, <2>3, FromUnasked
  <2>4. CASE ~access.first /\ Underway(a)
    <3>1. CASE Asked(a)
      BY <1>4, <2>2, <2>4, <3>1, FromAsked
    <3>2. CASE Single(a)
      BY <1>4, <1>5, <2>2, <2>4, <3>2, FromSingle
    <3>3. CASE FirstGranted(a)
      BY <1>4, <2>2, <2>4, <3>3, FromFirstGranted
    <3>4. CASE BothGranted(a)
      BY <1>4, <2>2, <2>4, <3>4, FromBothGranted
    <3>5. CASE SecondAsked(a)
      BY <1>4, <2>2, <2>4, <3>5, FromSecondAsked
    <3>6. CASE SecondGranted(a)
      BY <1>4, <1>5, <2>2, <2>4, <3>6, FromSecondGranted
    <3> QED BY <2>4, <3>1, <3>2, <3>3, <3>4, <3>5, <3>6 DEF Underway
  <2> QED BY <1>1, <2>1, <2>3, <2>4 DEF Phase
<1> QED BY <1>6, <1>7

LEMMA NextKeeps ==
  ASSUME IInv, Next
  PROVE  IInv' /\ Held
<1>1. PICK gnt, rvalid, err \in BOOLEAN : Cycle(gnt, rvalid, err)
  BY DEF Next
<1>2. PICK i : /\ i = Input(gnt, rvalid, err)
               /\ Bus(i) /\ LsuCycle(i) /\ (Wait(i) \/ Answer(i) \/ Elsewhere(i))
  BY <1>1 DEF Cycle
<1> QED BY <1>2, EdgeKeeps

LEMMA StutterKeeps ==
  ASSUME IInv, UNCHANGED vars
  PROVE  IInv'
<1> USE DEF vars, lsuVars
<1>1. TypeOK'
  BY DEF IInv, TypeOK, LsuTypeOK
<1>2. Phase'
  BY DEF IInv, Phase, current, Unasked, Underway, Asked, Single, FirstGranted, BothGranted,
         SecondAsked, SecondGranted, FirstOver, FirstLoaded, Settled
<1>3. OneAnswerPerAccess'
  BY DEF IInv, OneAnswerPerAccess
<1>4. Correct'
  BY DEF IInv, Correct, LoadsReadTheirBytes, StoresWriteTheirBytes, FaultsAreReported, FirstFailingAddress
<1> QED BY <1>1, <1>2, <1>3, <1>4 DEF IInv

(* Every reachable state of the unit and its environment is in one of the    *)
(* phases of the access under way, and its response is right: the invariant  *)
(* the safety properties of the load/store unit follow from                  *)
(* (the FSM of cve2_load_store_unit).                                        *)
THEOREM Invariance == Spec => []IInv
<1>1. IInv /\ [Next]_vars => IInv'
  BY NextKeeps, StutterKeeps
<1> QED BY <1>1, InitHolds, PTL DEF Spec

(* Every register and history variable holds what it is meant to, and there  *)
(* are never more than two requests on the bus.                              *)
THEOREM TypesHold == Spec => []TypeOK
<1>1. IInv => TypeOK
  BY DEF IInv
<1> QED BY <1>1, Invariance, PTL

(* A load without an error writes its register with the bytes at its address *)
(* in order, whether they come from one word or from two (rdata_q and the    *)
(* realignment of the unit), for every address and every timing of the bus.  *)
THEOREM LoadsAreRight == Spec => []LoadsReadTheirBytes
<1>1. IInv => LoadsReadTheirBytes
  BY DEF IInv, Correct
<1> QED BY <1>1, Invariance, PTL

(* A store without an error writes each byte of its operand at its address   *)
(* and nothing else; a faulting store writes nothing but its bytes           *)
(* (data_be and data_wdata over the two requests).                           *)
THEOREM StoresAreRight == Spec => []StoresWriteTheirBytes
<1>1. IInv => StoresWriteTheirBytes
  BY DEF IInv, Correct
<1> QED BY <1>1, Invariance, PTL

(* An access reports an error exactly when one of its halves was denied by   *)
(* the PMP or failed on the bus (lsu_err_q, pmp_err_q and data_or_pmp_err).  *)
THEOREM FaultsAreRight == Spec => []FaultsAreReported
<1>1. IInv => FaultsAreReported
  BY DEF IInv, Correct
<1> QED BY <1>1, Invariance, PTL

(* mtval is the address of the half that failed first (addr_last_q).         *)
THEOREM FailingAddressIsRight == Spec => []FirstFailingAddress
<1>1. IInv => FirstFailingAddress
  BY DEF IInv, Correct
<1> QED BY <1>1, Invariance, PTL

(* The unit answers once for both halves, and no answer of the bus is left   *)
(* over for a later access (the response of the IDLE state).                 *)
THEOREM OneAnswer == Spec => []OneAnswerPerAccess
<1>1. IInv => OneAnswerPerAccess
  BY DEF IInv
<1> QED BY <1>1, Invariance, PTL

(* A request stays on the bus unchanged until it is granted, also while the  *)
(* first half of a misaligned access is answered with an error or a denial.  *)
THEOREM RequestIsHeld == Spec => RequestHeld
<1>1. IInv /\ [Next]_vars => [Held]_vars
  BY NextKeeps
<1> QED BY <1>1, Invariance, PTL DEF Spec, RequestHeld, Held
=============================================================================
