--------------------------- MODULE VectorLanes_proof ---------------------------
(***************************************************************************)
(* Arithmetic and moves take effect as the abstract machine says.            *)
(***************************************************************************)
EXTENDS VectorUnit_proof

----------------------------------------------------------------------------
(* The bytes an instruction writes, those before b of its register group.     *)
From(n) == IF n.name = "vslideup" THEN n.offset ELSE 0
Ends(n) == IF n.name = "vslidedown" THEN n.bytes - n.offset ELSE n.bytes

Dest(n, b) == {ISA!RegByte(n.vd, k) : k \in From(n) .. b - 1}

(* Memory with these bytes of the destination written.                       *)
Partial(n, m, b) ==
  [a \in DOMAIN m \cup Dest(n, b) |->
     IF a \in Dest(n, b) THEN ISA!Value(n, m, a - RegBytes * n.vd) ELSE m[a]]

(* The bytes of the first w words, of which the last may not be full.        *)
Upto(n, w) == IF w = Words(n) THEN n.bytes ELSE 4 * w

(* Memory is a function: what is written of it is what one writes.           *)
Plain(m) == m = [a \in DOMAIN m |-> m[a]]

LEMMA Registers ==
  ASSUME NEW r \in Nat
  PROVE  /\ RegBytes * r \in Nat /\ RegBytes * r = 4 * (RegWords * r) /\ RegWords * r \in Nat
         /\ \A k \in Int : ISA!RegByte(r, k) = RegBytes * r + k
<1>1. RegWords \in Nat /\ RegBytes = 4 * RegWords
  BY RegWordsAssumption DEF RegBytes
<1>2. RegWords * r \in Nat
  BY <1>1
<1>3. RegBytes * r = 4 * (RegWords * r)
  BY <1>1
<1> QED BY <1>1, <1>2, <1>3 DEF ISA!RegByte

LEMMA DestBytes ==
  ASSUME NEW n, n.vd \in Nat, From(n) \in Nat, NEW b \in Nat, NEW a
  PROVE  a \in Dest(n, b) <=> a \in Int /\ RegBytes * n.vd + From(n) <= a /\ a < RegBytes * n.vd + b
<1>1. RegBytes * n.vd \in Nat
  BY Registers
<1>2. \A k \in Int : ISA!RegByte(n.vd, k) = RegBytes * n.vd + k
  BY Registers
<1> DEFINE D == RegBytes * n.vd
           f == From(n)
<1>3. D \in Nat /\ f \in Nat /\ \A k \in Int : ISA!RegByte(n.vd, k) = D + k
  BY <1>1, <1>2
<1>6. Dest(n, b) = {ISA!RegByte(n.vd, k) : k \in f .. b - 1}
  BY DEF Dest
<1> HIDE DEF D, f
<1>4. a \in Dest(n, b) => a \in Int /\ D + f <= a /\ a < D + b
  BY <1>3, <1>6
<1>5. ASSUME a \in Int, D + f <= a, a < D + b PROVE a \in Dest(n, b)
  <2>1. a - D \in f .. b - 1 /\ D + (a - D) = a
    BY <1>3, <1>5
  <2> QED BY <1>3, <1>6, <2>1
<1> QED BY <1>4, <1>5 DEF D, f

(* What writing the bytes at addresses s of a word d makes of memory.        *)
Update(m, s, d) == [a \in DOMAIN m \cup s |-> IF a \in s THEN d[a % 4] ELSE m[a]]

(* The first word has not been written to yet.                               *)
LEMMA PartialNone ==
  ASSUME NEW n, n.vd \in Nat, From(n) \in Nat, NEW b \in Nat, b <= From(n), NEW m, Plain(m)
  PROVE  Partial(n, m, b) = m
<1>1. \A a : a \notin Dest(n, b)
  BY DEF Dest
<1>2. DOMAIN m \cup Dest(n, b) = DOMAIN m
  BY <1>1
<1>3. Partial(n, m, b) = [a \in DOMAIN m |-> m[a]]
  BY <1>1, <1>2, Zenon DEF Partial
<1> QED BY <1>3 DEF Plain

(* All of them have: the instruction has had its effect.                     *)
LEMMA PartialAll ==
  ASSUME NEW n, n.name \in LaneNames \cup SlideNames, n.vd \in Nat, n.bytes \in Nat, n.offset \in Nat, NEW m
  PROVE  ISA!Effect(n, m) = Partial(n, m, Ends(n))
<1> DEFINE f == From(n)
           e == Ends(n)
<1>1. ISA!Written(n) = f .. e - 1
  BY DEF LaneNames, SlideNames, ISA!Written, From, Ends
<1>2. \A k : ISA!DestByte(n, k) = ISA!RegByte(n.vd, k)
  BY DEF LaneNames, SlideNames, ISA!DestByte, ISA!Stores
<1> DEFINE D == RegBytes * n.vd
<1>8. RegBytes * n.vd \in Nat
  BY Registers
<1>7. D \in Nat /\ \A k \in Int : ISA!RegByte(n.vd, k) = D + k
  BY <1>8, Registers
<1>9. Dest(n, e) = {ISA!RegByte(n.vd, k) : k \in f .. e - 1}
  BY DEF Dest
<1>10. f \in Int /\ e \in Int
  BY DEF From, Ends
<1> HIDE DEF D, f, e
<1> DEFINE written == {ISA!DestByte(n, k) : k \in ISA!Written(n)}
<1>3. written = Dest(n, e)
  BY <1>1, <1>2, <1>9
<1>4. ASSUME NEW a \in Dest(n, e)
      PROVE  (CHOOSE k \in ISA!Written(n) : ISA!DestByte(n, k) = a) = a - D
  <2>1. PICK k0 \in f .. e - 1 : a = ISA!RegByte(n.vd, k0)
    BY <1>4, <1>9
  <2>2. \A k \in ISA!Written(n) : ISA!DestByte(n, k) = D + k /\ k \in Int
    BY <1>1, <1>2, <1>7, <1>10
  <2>3. k0 \in ISA!Written(n) /\ ISA!DestByte(n, k0) = a
    BY <1>1, <1>2, <2>1
  <2> DEFINE c == CHOOSE k \in ISA!Written(n) : ISA!DestByte(n, k) = a
  <2>4. c \in ISA!Written(n) /\ ISA!DestByte(n, c) = a
    BY <2>3, Zenon
  <2> HIDE DEF c
  <2>5. c \in Int /\ a = D + c
    BY <2>2, <2>4
  <2>6. c = a - D
    BY <1>7, <2>5
  <2> QED BY <2>6 DEF c
<1>5. ISA!Effect(n, m) = [a \in DOMAIN m \cup written |->
         IF a \in written THEN ISA!Value(n, m, CHOOSE k \in ISA!Written(n) : ISA!DestByte(n, k) = a)
         ELSE m[a]]
  BY DEF ISA!Effect
<1> HIDE DEF written
<1>6. ISA!Effect(n, m) = [a \in DOMAIN m \cup Dest(n, e) |->
         IF a \in Dest(n, e) THEN ISA!Value(n, m, CHOOSE k \in ISA!Written(n) : ISA!DestByte(n, k) = a)
         ELSE m[a]]
  BY <1>3, <1>5, Zenon
<1>11. ISA!Effect(n, m) = Partial(n, m, e)
  BY <1>4, <1>6, Zenon DEF Partial, D
<1> QED BY <1>11 DEF e

(* Another word is written.                                                  *)
LEMMA PartialNext ==
  ASSUME NEW n, n.vd \in Nat, From(n) \in Nat, NEW m, NEW b \in Nat, NEW c \in Nat, b <= c, NEW d, NEW w,
         NEW D, D = RegBytes * n.vd,
         \A a : a \in w <=> a \in Int /\ D + b <= a /\ D + From(n) <= a /\ a < D + c,
         \A a \in w : d[a % 4] = ISA!Value(n, m, a - D)
  PROVE  Update(Partial(n, m, b), w, d) = Partial(n, m, c)
<1> DEFINE P == Partial(n, m, b)
           f == From(n)
<1>1. D \in Nat /\ f \in Nat
  BY Registers
<1>2. \A a : a \in Dest(n, b) <=> a \in Int /\ D + f <= a /\ a < D + b
  BY DestBytes
<1>3. \A a : a \in Dest(n, c) <=> a \in Int /\ D + f <= a /\ a < D + c
  BY DestBytes
<1>4. DOMAIN P = DOMAIN m \cup Dest(n, b)
  BY DEF Partial
<1>5. \A a : a \in w <=> a \in Int /\ D + b <= a /\ D + f <= a /\ a < D + c
  OBVIOUS
<1>8. \A a \in DOMAIN P : P[a] = IF a \in Dest(n, b) THEN ISA!Value(n, m, a - D) ELSE m[a]
  BY DEF Partial
<1> HIDE DEF P, f
<1>6. \A a : a \in Dest(n, c) <=> a \in Dest(n, b) \/ a \in w
  BY <1>1, <1>2, <1>3, <1>5
<1>7. DOMAIN P \cup w = DOMAIN m \cup Dest(n, c)
  BY <1>4, <1>6, Zenon
<1>9. \A a \in DOMAIN m \cup Dest(n, c) :
        (IF a \in w THEN d[a % 4] ELSE P[a]) = IF a \in Dest(n, c) THEN ISA!Value(n, m, a - D) ELSE m[a]
  <2> SUFFICES ASSUME NEW a \in DOMAIN m \cup Dest(n, c)
               PROVE  (IF a \in w THEN d[a % 4] ELSE P[a]) = IF a \in Dest(n, c) THEN ISA!Value(n, m, a - D) ELSE m[a]
    OBVIOUS
  <2>1. CASE a \in w
    BY <1>6, <2>1
  <2>2. CASE a \notin w
    <3>1. a \in DOMAIN P
      BY <1>7, <2>2
    <3> QED BY <1>6, <1>8, <2>2, <3>1
  <2> QED BY <2>1, <2>2
<1>10. [a \in DOMAIN P \cup w |-> IF a \in w THEN d[a % 4] ELSE P[a]]
        = [a \in DOMAIN m \cup Dest(n, c) |-> IF a \in Dest(n, c) THEN ISA!Value(n, m, a - D) ELSE m[a]]
  BY <1>7, <1>9, Zenon
<1> QED BY <1>10, Zenon DEF Partial, P, Update

(* A byte of it that no instruction has written to yet.                      *)
LEMMA PartialElsewhere ==
  ASSUME NEW n, NEW m, NEW b \in Nat, NEW a, a \notin Dest(n, b)
  PROVE  ISA!Read(Partial(n, m, b), a) = ISA!Read(m, a)
BY DEF ISA!Read, Partial

----------------------------------------------------------------------------
(* Words of the sources and of the result.                                   *)

Word(m, r, j) == [k \in WordLanes |-> ISA!Read(m, ISA!RegByte(r, 4 * j + k))]
ResultWord(n, m, j) == [k \in WordLanes |-> ISA!Value(n, m, 4 * j + k)]

(* What the memory answers to a read, and what it holds after a write.       *)
Fetched(addr) == [k \in WordLanes |-> ISA!Read(mem, addr + k)]
Stored(addr, be, d) == Update(mem, {addr + k : k \in be}, d)

(* Word j of a register group, as the counter of its port gives it.          *)
CounterAt(p, j) == addr_q[p] = (RegWords * (regs[p] % 8) + j) % BankWords

LEMMA BankOf ==
  ASSUME NEW r \in 0 .. 31
  PROVE  BankWords * (r \div 8) + RegWords * (r % 8) = RegWords * r
<1>1. RegWords \in Nat /\ BankWords = 8 * RegWords
  BY RegWordsAssumption DEF BankWords
<1>2. PICK d \in Nat, m \in Nat : d = r \div 8 /\ m = r % 8 /\ r = 8 * d + m
  <2>1. r \div 8 \in Nat /\ r % 8 \in Nat /\ r = 8 * (r \div 8) + (r % 8)
    OBVIOUS
  <2> QED BY <2>1
<1>3. RegWords * (8 * d + m) = 8 * RegWords * d + RegWords * m
  BY <1>1
<1> QED BY <1>1, <1>2, <1>3

LEMMA WordAddress ==
  ASSUME NEW access, port(access) \in Ports, regs[port(access)] \in 0 .. 31, NEW j \in Nat,
         CounterAt(port(access), j),
         RegWords * (regs[port(access)] % 8) + j < BankWords
  PROVE  mem_if_addr(regs, access) = RegBytes * regs[port(access)] + 4 * j
<1> DEFINE r == regs[port(access)]
           x == RegWords * (r % 8)
<1>1. RegWords \in Nat /\ BankWords \in Nat \ {0}
  BY RegWordsAssumption DEF BankWords
<1>2. x \in Nat
  <2>1. r % 8 \in Nat
    OBVIOUS
  <2> HIDE DEF r
  <2> QED BY <1>1, <2>1
<1>3. x + j < BankWords /\ addr_q[port(access)] = (x + j) % BankWords
  BY DEF CounterAt
<1>4. BankWords * (r \div 8) + x = RegWords * r
  BY BankOf
<1>5. r \in Nat /\ BankWords * (r \div 8) \in Nat
  <2>1. r \in Nat /\ r \div 8 \in Nat
    OBVIOUS
  <2> HIDE DEF r
  <2> QED BY <1>1, <2>1
<1>6. RegBytes * r = 4 * (RegWords * r) /\ RegWords * r \in Nat
  BY <1>5, Registers
<1>7. mem_if_addr(regs, access) = 4 * (BankWords * (r \div 8) + addr_q[port(access)])
  BY DEF mem_if_addr
<1> HIDE DEF r, x
<1>8. addr_q[port(access)] = x + j
  BY <1>1, <1>2, <1>3
<1>9. BankWords * (r \div 8) + addr_q[port(access)] = RegWords * r + j
  <2> DEFINE y == BankWords * (r \div 8)
             z == RegWords * r
  <2>1. y \in Nat /\ z \in Nat /\ y + x = z
    BY <1>4, <1>5, <1>6
  <2> HIDE DEF y, z
  <2>2. y + (x + j) = z + j
    BY <1>2, <2>1
  <2> QED BY <1>8, <2>2 DEF y, z
<1>10. mem_if_addr(regs, access) = 4 * (RegWords * r) + 4 * j
  BY <1>6, <1>7, <1>9
<1> QED BY <1>6, <1>10 DEF r

(* A source word that is not written before it is read.                      *)
LEMMA FetchesWord ==
  ASSUME NEW n, n.vd \in 0 .. 31, From(n) \in Nat, n.bytes \in Nat, NEW m,
         NEW b \in Nat, b <= 4 * Words(n), NEW j \in 0 .. Words(n) - 1,
         NEW r \in 0 .. 31, (r = n.vd /\ b <= 4 * j) \/ Apart(n, r),
         mem = Partial(n, m, b)
  PROVE  Fetched(RegBytes * r + 4 * j) = Word(m, r, j)
<1> DEFINE W == Words(n)
           x == RegWords * r
           y == RegWords * n.vd
<1>1. W \in Nat
  BY DEF Words
<1>2. RegBytes * r = 4 * x /\ x \in Nat /\ RegBytes * n.vd = 4 * y /\ y \in Nat
  <2>1. r \in Nat /\ n.vd \in Nat
    OBVIOUS
  <2> QED BY <2>1, Registers
<1>3. (x = y /\ b <= 4 * j) \/ x - y >= W \/ y - x >= W
  <2>1. RegWords * (r - n.vd) = x - y /\ RegWords * (n.vd - r) = y - x
    BY RegWordsAssumption
  <2> QED BY <2>1 DEF Apart
<1>4. j \in Nat /\ j < W /\ b \in Nat /\ b <= 4 * W
  BY <1>1
<1>5. \A a : a \in Dest(n, b) => 4 * y <= a /\ a < 4 * y + b /\ a \in Int
  <2>1. \A a : a \in Dest(n, b) => a \in Int /\ RegBytes * n.vd + From(n) <= a /\ a < RegBytes * n.vd + b
    BY DestBytes
  <2> DEFINE f == From(n)
  <2>2. f \in Nat /\ \A a : a \in Dest(n, b) => a \in Int /\ 4 * y + f <= a /\ a < 4 * y + b
    BY <1>2, <2>1
  <2> HIDE DEF f, y
  <2> QED BY <1>2, <2>2
<1>6. \A k \in WordLanes : k \in Int /\ 0 <= k /\ k < 4
  BY DEF WordLanes
<1>8. \A k \in WordLanes : ISA!RegByte(r, 4 * j + k) = RegBytes * r + 4 * j + k
  <2>1. r \in Nat
    OBVIOUS
  <2>2. \A k \in Int : ISA!RegByte(r, k) = RegBytes * r + k
    BY <2>1, Registers
  <2> QED BY <1>2, <1>4, <1>6, <2>2
<1> HIDE DEF x, y, W
<1>9. \A k \in WordLanes : 4 * x + 4 * j + k \notin Dest(n, b)
  <2> SUFFICES ASSUME NEW k \in WordLanes, 4 * x + 4 * j + k \in Dest(n, b) PROVE FALSE
    OBVIOUS
  <2> DEFINE a == 4 * x + 4 * j + k
  <2>1. 4 * y <= a /\ a < 4 * y + b
    BY <1>5
  <2>2. k \in Int /\ 0 <= k /\ k < 4
    BY <1>6
  <2>3. y <= x + j /\ 4 * (x + j) < 4 * y + b
    BY <1>2, <1>4, <2>1, <2>2
  <2> HIDE DEF a
  <2> QED BY <1>1, <1>2, <1>3, <1>4, <2>3
<1>10. \A k \in WordLanes : ISA!Read(mem, RegBytes * r + 4 * j + k) = ISA!Read(m, RegBytes * r + 4 * j + k)
  BY <1>2, <1>4, <1>9, PartialElsewhere
<1> QED BY <1>8, <1>10 DEF Fetched, Word

(* Whole words and bytes.                                                    *)
LEMMA WordCounts ==
  ASSUME NEW n, n.bytes \in Nat
  PROVE  /\ Words(n) \in Nat /\ n.bytes <= 4 * Words(n) /\ 4 * Words(n) < n.bytes + 4
         /\ n.bytes % 4 \in 0 .. 3
         /\ n.bytes % 4 = 0 => n.bytes = 4 * Words(n) /\ n.bytes \div 4 = Words(n)
         /\ n.bytes % 4 # 0 => n.bytes = 4 * Words(n) - 4 + (n.bytes % 4) /\ n.bytes \div 4 = Words(n) - 1
<1> DEFINE b == n.bytes
           q == b \div 4
           t == b % 4
           W == (b + 3) \div 4
<1>1. b \in Nat
  OBVIOUS
<1> HIDE DEF b
<1>2. q \in Nat /\ t \in 0 .. 3 /\ b = 4 * q + t
  BY <1>1
<1>3. W \in Nat /\ b <= 4 * W /\ 4 * W < b + 4
  BY <1>1
<1> HIDE DEF q, t, W
<1>4. t = 0 => q = W
  BY <1>1, <1>2, <1>3
<1>5. t # 0 => q = W - 1
  BY <1>1, <1>2, <1>3
<1> QED BY <1>1, <1>2, <1>3, <1>4, <1>5 DEF Words, b, q, t, W

(* The lanes of word w that the last write of an instruction carries.        *)
WordBytes(n, w) ==
  IF w = Words(n) - 1 /\ n.bytes % 4 # 0 THEN 0 .. (n.bytes % 4) - 1 ELSE WordLanes

LEMMA UptoIs ==
  ASSUME NEW n, n.bytes \in Nat, NEW w \in 0 .. Words(n) - 1
  PROVE  \E e \in 1 .. 4 : /\ WordBytes(n, w) = 0 .. e - 1
                           /\ Upto(n, w) = 4 * w /\ Upto(n, w + 1) = 4 * w + e
<1> DEFINE W == Words(n)
           t == n.bytes % 4
<1>1. /\ W \in Nat /\ t \in 0 .. 3
      /\ t = 0 => n.bytes = 4 * W
      /\ t # 0 => n.bytes = 4 * W - 4 + t
  BY WordCounts
<1>2. w \in Int /\ 0 <= w /\ w < W
  BY <1>1
<1>3. Upto(n, w) = 4 * w /\ Upto(n, w + 1) = IF w + 1 = W THEN n.bytes ELSE 4 * (w + 1)
  BY <1>2 DEF Upto
<1> DEFINE be == WordBytes(n, w)
<1>4. be = IF w = W - 1 /\ t # 0 THEN 0 .. t - 1 ELSE WordLanes
  BY DEF WordBytes
<1> HIDE DEF W, t, be
<1>5. ASSUME w = W - 1 /\ t # 0
      PROVE  \E e \in 1 .. 4 : be = 0 .. e - 1 /\ Upto(n, w) = 4 * w /\ Upto(n, w + 1) = 4 * w + e
  <2>1. t \in 1 .. 4 /\ be = 0 .. t - 1 /\ Upto(n, w + 1) = 4 * w + t
    <3>1. w + 1 = W /\ 4 * W - 4 + t = 4 * w + t
      BY <1>1, <1>2, <1>5
    <3> QED BY <1>1, <1>3, <1>4, <1>5, <3>1
  <2> QED BY <1>3, <2>1
<1>6. ASSUME ~(w = W - 1 /\ t # 0)
      PROVE  \E e \in 1 .. 4 : be = 0 .. e - 1 /\ Upto(n, w) = 4 * w /\ Upto(n, w + 1) = 4 * w + e
  <2>1. be = 0 .. 4 - 1
    <3>1. 4 - 1 = 3
      OBVIOUS
    <3> QED BY <1>4, <1>6, <3>1, Zenon DEF WordLanes
  <2>2. Upto(n, w + 1) = 4 * w + 4
    BY <1>1, <1>2, <1>3, <1>6
  <2> QED BY <1>3, <2>1, <2>2
<1> QED BY <1>5, <1>6 DEF be

(* Another word of the result, whole or, at the end, in part.                *)
LEMMA StoresWord ==
  ASSUME NEW n, n.vd \in Nat, n.bytes \in Nat, From(n) = 0, NEW m, NEW w \in 0 .. Words(n) - 1,
         mem = Partial(n, m, Upto(n, w))
  PROVE  Stored(RegBytes * n.vd + 4 * w, WordBytes(n, w), ResultWord(n, m, w)) = Partial(n, m, Upto(n, w + 1))
<1> DEFINE be == WordBytes(n, w)
<1>1. PICK e \in 1 .. 4 : be = 0 .. e - 1 /\ Upto(n, w) = 4 * w /\ Upto(n, w + 1) = 4 * w + e
  BY UptoIs
<1>2. RegBytes * n.vd \in Nat /\ \E y \in Nat : RegBytes * n.vd = 4 * y
  BY Registers
<1>3. w \in Nat
  BY WordCounts
<1> DEFINE D == RegBytes * n.vd
           b == Upto(n, w)
           c == Upto(n, w + 1)
           s == {D + 4 * w + k : k \in be}
           d == ResultWord(n, m, w)
<1>4. \A a : a \in s <=> \E k \in be : a = D + 4 * w + k
  OBVIOUS
<1>5. D \in Nat /\ e \in 1 .. 4 /\ be = 0 .. e - 1 /\ b = 4 * w /\ c = 4 * w + e
  BY <1>1, <1>2
<1>6. b \in Nat /\ c \in Nat /\ b <= c
  BY <1>3, <1>5
<1>12. PICK y \in Nat : D = 4 * y
  BY <1>2
<1> HIDE DEF b, c, D, be, s, d
<1>7. \A a : a \in s <=> a \in Int /\ D + b <= a /\ a < D + c
  <2>1. \A a : a \in s => a \in Int /\ D + b <= a /\ a < D + c
    BY <1>3, <1>4, <1>5
  <2>2. ASSUME NEW a \in Int, D + b <= a, a < D + c PROVE a \in s
    <3>1. a - (D + 4 * w) \in be /\ a = D + 4 * w + (a - (D + 4 * w))
      BY <1>3, <1>5, <2>2
    <3> QED BY <1>4, <3>1
  <2> QED BY <2>1, <2>2
<1>8. ASSUME NEW a \in s
      PROVE  d[a % 4] = ISA!Value(n, m, a - D)
  <2>1. PICK k \in be : a = D + 4 * w + k
    BY <1>4, <1>8
  <2>2. k \in 0 .. 3
    BY <1>5, <2>1
  <2>3. a % 4 = k
    <3>1. a = 4 * (y + w) + k
      BY <1>3, <1>12, <2>1, <2>2
    <3> QED BY <1>3, <2>2, <3>1
  <2>4. a - D = 4 * w + k
    BY <1>3, <1>5, <2>1, <2>2
  <2> QED BY <2>2, <2>3, <2>4 DEF ResultWord, WordLanes, d
<1>9. Update(Partial(n, m, b), s, d) = Partial(n, m, c)
  <2>1. D = RegBytes * n.vd
    BY DEF D
  <2>2. \A a : a \in s <=> a \in Int /\ D + b <= a /\ D + 0 <= a /\ a < D + c
    BY <1>5, <1>6, <1>7
  <2>3. From(n) \in Nat /\ \A a : a \in s <=> a \in Int /\ D + b <= a /\ D + From(n) <= a /\ a < D + c
    BY <2>2
  <2> QED BY <1>6, <1>8, <2>1, <2>3, PartialNext
<1>10. mem = Partial(n, m, b)
  BY DEF b
<1>11. Stored(D + 4 * w, be, d) = Update(mem, s, d)
  BY DEF Stored, s
<1> QED BY <1>9, <1>10, <1>11 DEF D, c, d, be

----------------------------------------------------------------------------
(* A clock edge with a lane instruction.                                     *)

Active == vector_op /\ ~memory_op /\ vrf_state \in {"START"} \cup LaneStates /\ delay_state # "read"

Working == Active /\ insn.name \in LaneNames

AluWord == [k \in WordLanes |-> alu_byte(rs3_q, k)]

(* What a write carries.                                                     *)
Out == IF delay_state = "write" THEN rd_q ELSE AluWord

LEMMA LaneOps ==
  ASSUME insn.name \in LaneNames
  PROVE  /\ ~memory_op /\ ~slide_op /\ insn.name # "vslideup"
         /\ Decoded.memory_op = FALSE /\ Decoded.slide_op = FALSE /\ Decoded.is_slide_up = FALSE
         /\ Decoded.sel = sel_operation /\ Decoded.mult_ops = mult_ops
         /\ mult_ops <=> insn.name \in {"vadd_vv", "vmacc_vv", "vmacc_vx"}
         /\ "rd" \in sel_operation
         /\ "rs1" \in sel_operation <=> insn.name \in {"vadd_vv", "vmacc_vv", "vmv_v_v"}
         /\ "rs2" \in sel_operation <=> insn.name # "vmv_v_v"
         /\ "rs3" \in sel_operation <=> insn.name \in {"vmacc_vv", "vmacc_vx"}
<1>1. /\ ~memory_op /\ ~slide_op /\ insn.name # "vslideup"
      /\ mult_ops <=> insn.name \in {"vadd_vv", "vmacc_vv", "vmacc_vx"}
  BY DEF LaneNames, memory_op, slide_op, mult_ops, ISA!Loads, ISA!Stores
<1>2. /\ Decoded.memory_op = memory_op /\ Decoded.slide_op = slide_op /\ Decoded.is_slide_up = (insn.name = "vslideup")
      /\ Decoded.sel = sel_operation /\ Decoded.mult_ops = mult_ops
  BY DEF Decoded
<1>3. /\ insn.name = "vadd_vv" => sel_operation = {"rs1", "rs2", "rd"}
      /\ insn.name = "vadd_vx" => sel_operation = {"rs2", "rd"}
      /\ insn.name = "vmacc_vv" => sel_operation = {"rs1", "rs2", "rs3", "rd"}
      /\ insn.name = "vmacc_vx" => sel_operation = {"rs2", "rs3", "rd"}
      /\ insn.name = "vmv_v_v" => sel_operation = {"rs1", "rd"}
  BY DEF sel_operation, ISA!Loads, ISA!Stores
<1>4. insn.name \in {"vadd_vv", "vadd_vx", "vmacc_vv", "vmacc_vx", "vmv_v_v"}
  BY DEF LaneNames
<1>5. /\ "rd" \in sel_operation
      /\ "rs1" \in sel_operation <=> insn.name \in {"vadd_vv", "vmacc_vv", "vmv_v_v"}
      /\ "rs2" \in sel_operation <=> insn.name # "vmv_v_v"
      /\ "rs3" \in sel_operation <=> insn.name \in {"vmacc_vv", "vmacc_vx"}
  BY <1>3, <1>4
<1>6. /\ Decoded.memory_op = FALSE /\ Decoded.slide_op = FALSE /\ Decoded.is_slide_up = FALSE
  <2>1. memory_op = FALSE /\ slide_op = FALSE /\ (insn.name = "vslideup") = FALSE
    BY <1>1 DEF memory_op, slide_op
  <2> QED BY <1>2, <2>1
<1> QED BY <1>1, <1>2, <1>5, <1>6

LEMMA UnitWires ==
  ASSUME PortInv, NEW gnt \in BOOLEAN, NEW rvalid \in Answers, NEW i, NEW l, NEW r,
         Wired(gnt, rvalid, i, l, r), Active
  PROVE  /\ i.op = Decoded /\ ~lsu_req_o(i) /\ ~Serving
         /\ i.gnt <=> gnt
         /\ i.rvalid <=> bus # <<>>
         /\ i.rvalid <=> rvalid
         /\ bus # <<>> /\ ~Head(bus).we => i.rdata = Head(bus).data
         /\ data_access(i) = data_access(Op) /\ (final(i) <=> final(Op))
         /\ gnt => data_access(Op) # "none"
         /\ i.has_mem
         /\ i.wdata = AluWord /\ data_wdata_o(i) = Out
         /\ data_be_o(i) = data_be_o(Op)
<1>1. vector_op /\ ~memory_op /\ vrf_state \in {"START"} \cup LaneStates /\ delay_state # "read"
  BY DEF Active
<1>2. i.op = Decoded
  BY <1>1, SwitchWires
<1>3. ~i.op.memory_op /\ ~memory_op
  BY <1>1, <1>2 DEF Decoded
<1>4. ~store_ready(i) /\ ~load_ready(i) /\ ~lsu_answered(i) /\ ~Serving /\ ~mux_sel(i)
  BY <1>1 DEF store_ready, load_ready, lsu_answered, Serving, LaneStates, mux_sel
<1>5. ~lsu_req_o(i)
  BY <1>1, <1>3, <1>4 DEF lsu_req_o, LaneStates
<1>6. (i.gnt <=> gnt) /\ (gnt => data_req_o(i))
  BY <1>4, <1>5, VrfTurn
<1>7. i.has_mem
  <2>1. ls_fsm_cs = "IDLE"
    BY <1>4 DEF PortInv, Routing
  <2> QED BY <1>1, <1>5, <2>1, SwitchWires
<1>8. ~scenario.late
  BY <1>1, <1>3 DEF PortInv, Sequencing, memory_op
<1>9. (i.rvalid <=> rvalid) /\ (rvalid <=> bus # <<>>)
  BY <1>4, <1>8, AnswerComes
<1>10. i.rdata = rdata(rvalid) /\ i.wdata = vrf_wdata_wb(i, rvalid)
  BY Wires DEF Wired
<1>11. bus # <<>> /\ ~Head(bus).we => i.rdata = Head(bus).data
  BY <1>9, <1>10 DEF rdata
<1>12. data_access(i) = data_access(Op) /\ (final(i) <=> final(Op)) /\ data_be_o(i) = data_be_o(Op)
  BY <1>1, <1>2, OpWires DEF LaneStates
<1>13. rdata_c_o(i) = rs3_q
  BY <1>1, <1>4 DEF rdata_c_o, store_operand
<1>14. i.wdata = AluWord
  BY <1>1, <1>3, <1>10, <1>13 DEF vrf_wdata_wb, AluWord
<1>15. data_wdata_o(i) = Out
  BY <1>3, <1>14 DEF data_wdata_o, Out
<1> QED BY <1>2, <1>4, <1>5, <1>6, <1>7, <1>9, <1>11, <1>12, <1>14, <1>15 DEF data_req_o

(* What it does to the bus and to memory.                                    *)
LEMMA UnitMemory ==
  ASSUME PortInv, NEW gnt \in BOOLEAN, NEW rvalid \in Answers, NEW i, NEW l, NEW r,
         Wired(gnt, rvalid, i, l, r), Active
  PROVE  /\ ~gnt => bus' = <<>>
         /\ gnt => bus' # <<>> /\ (Head(bus').we <=> data_access(Op) = "write")
         /\ gnt /\ data_access(Op) # "write" =>
              Head(bus').data = Fetched(mem_if_addr(regs, data_access(Op)))
         /\ mem' = IF gnt /\ data_access(Op) = "write"
                     THEN Stored(mem_if_addr(regs, "write"), data_be_o(Op), Out) ELSE mem
<1> DEFINE acc == data_access(Op)
           adr == mem_if_addr(regs, acc)
<1>1. /\ ~lsu_req_o(i) /\ ~Serving /\ i.has_mem /\ data_access(i) = acc
      /\ data_wdata_o(i) = Out /\ data_be_o(i) = data_be_o(Op)
      /\ i.rvalid <=> bus # <<>>
      /\ i.rvalid <=> rvalid
      /\ gnt => acc # "none"
  BY UnitWires
<1>2. r = Request(i, l) /\ Memory(r, gnt, rvalid) /\ (gnt => r # NoRequest)
  BY DEF Wired
<1>3. rvalid => Tail(bus) = <<>>
  <2>1. bus = <<>> \/ One("VRF")
    BY <1>1 DEF PortInv, Routing
  <2> QED BY <1>1, <2>1, ShortBuses DEF One
<1>4. (IF rvalid THEN Tail(bus) ELSE bus) = <<>>
  BY <1>1, <1>3
<1> HIDE DEF acc, adr
<1>5. ~gnt => bus' = <<>> /\ mem' = mem
  BY <1>2, <1>4 DEF Memory
<1>6. ASSUME gnt
      PROVE  /\ bus' # <<>> /\ (Head(bus').we <=> acc = "write")
             /\ acc # "write" => Head(bus').data = Fetched(adr)
             /\ mem' = IF acc = "write" THEN Stored(adr, data_be_o(Op), Out) ELSE mem
  <2>1. r = PortRequest("VRF", adr, acc = "write", data_be_o(Op), Out)
    BY <1>1, <1>2, <1>6 DEF Request, data_req_o, data_we_o, adr, acc
  <2>2. /\ r.addr = adr /\ r.we = (acc = "write")
        /\ acc = "write" => r.be = data_be_o(Op) /\ r.wdata = Out
    BY <2>1 DEF PortRequest
  <2> DEFINE x == [unit |-> r.unit, we |-> r.we,
                   data |-> IF r.we THEN Zero ELSE [k \in WordLanes |-> ISA!Read(mem, r.addr + k)]]
  <2>3. bus' = Append(<<>>, x)
    BY <1>2, <1>4, <1>6 DEF Memory
  <2>4. bus' = <<x>>
    BY <2>3, ShortBuses
  <2>5. bus' # <<>> /\ Head(bus') = x
    BY <2>4, ShortBuses
  <2>6. x.we = (acc = "write") /\ (acc # "write" => x.data = [k \in WordLanes |-> ISA!Read(mem, adr + k)])
    BY <2>2
  <2> HIDE DEF x
  <2>7. acc # "write" => Head(bus').data = Fetched(adr)
    BY <2>5, <2>6 DEF Fetched
  <2>8. mem' = IF ~r.we THEN mem ELSE Update(mem, {r.addr + k : k \in r.be}, r.wdata)
    BY <1>2, <1>6 DEF Memory, Update
  <2>9. mem' = IF acc = "write" THEN Stored(adr, data_be_o(Op), Out) ELSE mem
    BY <2>2, <2>8 DEF Stored
  <2> QED BY <2>5, <2>6, <2>7, <2>9
<1>7. acc = "write" => adr = mem_if_addr(regs, "write")
  BY DEF adr
<1> QED BY <1>5, <1>6, <1>7 DEF adr, acc

----------------------------------------------------------------------------
(* The loop over the words.  READ and INT_READ1 take the first operand and   *)
(* write the word before; INT_READ2 and INT_READ3 take the others; WRITE and *)
(* INT_WRITE count the words.                                                *)
Reading == {"READ", "INT_READ1"}
Writing == {"WRITE", "INT_WRITE"}
Middle == {"INT_READ2", "INT_READ3"}

TwoSources == insn.name \in {"vadd_vv", "vmacc_vv"}
ThreeReads == insn.name = "vmacc_vv"

Loop == IF ~mult_ops THEN {"READ", "WRITE"}
        ELSE {"INT_READ1", "INT_READ2", "INT_WRITE"} \cup IF ThreeReads THEN {"INT_READ3"} ELSE {}

(* The port and the register of the first operand and of the second.         *)
P1 == IF insn.name \in {"vadd_vv", "vmacc_vv", "vmv_v_v"} THEN "rs1" ELSE "rs2"
P2 == IF TwoSources THEN "rs2" ELSE "rd"
Q1 == IF TwoSources THEN rs1_q ELSE rs2_q
Q2 == IF TwoSources THEN rs2_q ELSE rs3_q

LEMMA LaneAccess ==
  ASSUME insn.name \in LaneNames
  PROVE  /\ vrf_state = "START" => data_access(Op) = P1
         /\ vrf_state \in Reading => data_access(Op) = IF first_iteration_q THEN "none" ELSE "write"
         /\ vrf_state = "INT_READ2" /\ ThreeReads => data_access(Op) = "rd"
         /\ vrf_state = "INT_READ2" /\ ~ThreeReads => data_access(Op) = IF last_iteration_q THEN "none" ELSE P1
         /\ vrf_state = "INT_READ3" => data_access(Op) = IF last_iteration_q THEN "none" ELSE P1
         /\ vrf_state = "INT_WRITE" /\ mult_ops => data_access(Op) = IF last_iteration_q THEN "none" ELSE P2
         /\ vrf_state = "WRITE" => data_access(Op) = IF last_iteration_q \/ final(Op) THEN "none" ELSE P1
<1> DEFINE sel == Op.op.sel
<1>1. /\ Op.op.memory_op = FALSE /\ sel = sel_operation /\ Op.op.mult_ops = mult_ops
  BY LaneOps DEF Op
<1>2. /\ "rd" \in sel
      /\ "rs1" \in sel <=> insn.name \in {"vadd_vv", "vmacc_vv", "vmv_v_v"}
      /\ "rs2" \in sel <=> insn.name # "vmv_v_v"
      /\ "rs3" \in sel <=> insn.name \in {"vmacc_vv", "vmacc_vx"}
      /\ mult_ops <=> insn.name \in {"vadd_vv", "vmacc_vv", "vmacc_vx"}
  BY <1>1, LaneOps
<1>3. insn.name \in {"vadd_vv", "vadd_vx", "vmacc_vv", "vmacc_vx", "vmv_v_v"}
  BY DEF LaneNames
<1> HIDE DEF sel
<1>4. /\ P1 = IF "rs1" \in sel THEN "rs1" ELSE "rs2"
      /\ sel \cap {"rs1", "rs2"} # {}
      /\ {"rs1", "rs3"} \subseteq sel <=> ThreeReads
      /\ mult_ops => "rs2" \in sel /\ P2 = IF "rs1" \in sel THEN "rs2" ELSE "rd"
  BY <1>2, <1>3 DEF P1, P2, ThreeReads, TwoSources
<1>5. /\ vrf_state = "START" => data_access(Op) = P1
      /\ vrf_state \in Reading => data_access(Op) = IF first_iteration_q THEN "none" ELSE "write"
  BY <1>1, <1>4 DEF data_access, Reading, load_ready, lsu_answered, sel
<1>6. vrf_state = "INT_READ2" /\ ThreeReads => data_access(Op) = "rd"
  BY <1>4 DEF data_access, load_ready, lsu_answered, sel
<1>7. vrf_state = "INT_READ2" /\ ~ThreeReads => data_access(Op) = IF last_iteration_q THEN "none" ELSE P1
  BY <1>2, <1>4 DEF data_access, load_ready, lsu_answered, sel
<1>8. vrf_state = "INT_READ3" => data_access(Op) = IF last_iteration_q THEN "none" ELSE P1
  BY <1>2, <1>4 DEF data_access, load_ready, lsu_answered, sel
<1>9. vrf_state = "INT_WRITE" /\ mult_ops => data_access(Op) = IF last_iteration_q THEN "none" ELSE P2
  BY <1>4 DEF data_access, load_ready, lsu_answered, sel
<1>10. vrf_state = "WRITE" => data_access(Op) = IF last_iteration_q \/ final(Op) THEN "none" ELSE P1
  BY <1>4 DEF data_access, load_ready, lsu_answered, sel
<1> QED BY <1>5, <1>6, <1>7, <1>8, <1>9, <1>10

LEMMA LaneMoves ==
  ASSUME PortInv, NEW gnt \in BOOLEAN, NEW rvalid \in Answers, NEW i, NEW l, NEW r,
         Wired(gnt, rvalid, i, l, r), Working, vrf_state \in {"START"} \cup Loop
  PROVE  /\ vrf_state = "START" =>
              /\ vrf_state' = IF ~gnt THEN "START" ELSE IF mult_ops THEN "INT_READ1" ELSE "READ"
              /\ first_iteration_q' = TRUE
              /\ UNCHANGED <<num_iterations_q, last_iteration_q>>
         /\ vrf_state \in Reading =>
              /\ vrf_state' = IF ~first_iteration_q /\ ~gnt THEN vrf_state
                              ELSE IF mult_ops THEN "INT_WRITE" ELSE "WRITE"
              /\ first_iteration_q' = FALSE
              /\ UNCHANGED <<num_iterations_q, last_iteration_q>>
         /\ vrf_state \in Middle =>
              /\ vrf_state' = IF vrf_state = "INT_READ2" /\ ThreeReads
                                THEN IF gnt THEN "INT_READ3" ELSE vrf_state
                                ELSE IF last_iteration_q \/ gnt THEN "INT_READ1" ELSE vrf_state
              /\ UNCHANGED <<num_iterations_q, last_iteration_q, first_iteration_q>>
         /\ vrf_state = "INT_WRITE" /\ ~last_iteration_q =>
              /\ vrf_state' = IF gnt THEN "INT_READ2" ELSE vrf_state
              /\ CountDown(Op, gnt) /\ UNCHANGED first_iteration_q
         /\ vrf_state = "WRITE" /\ ~last_iteration_q =>
              /\ vrf_state' = IF final(Op) \/ gnt THEN "READ" ELSE vrf_state
              /\ CountDown(Op, final(Op) \/ gnt) /\ UNCHANGED first_iteration_q
         /\ UNCHANGED <<offset_q, curr_demux_sel>>
<1>1. i.op = Decoded /\ (i.gnt <=> gnt) /\ data_access(i) = data_access(Op) /\ (final(i) <=> final(Op))
  BY UnitWires DEF Working
<1>2. Fsm(i)
  BY DEF Wired, VrfCycle
<1>3. vector_op /\ insn.name \in LaneNames
  BY DEF Working, Active
<1>4. /\ i.op.memory_op = FALSE /\ i.op.slide_op = FALSE /\ i.op.sel = sel_operation
      /\ i.op.mult_ops = mult_ops
  BY <1>1, <1>3, LaneOps
<1>5. /\ "rd" \in i.op.sel
      /\ i.op.sel \cap {"rs1", "rs2"} # {}
      /\ {"rs1", "rs3"} \subseteq i.op.sel <=> ThreeReads
      /\ mult_ops => "rs2" \in i.op.sel
  BY <1>3, <1>4, LaneOps DEF ThreeReads, LaneNames
<1>6. CASE vrf_state = "START"
  <2>1. VrfStart(i)
    BY <1>2, <1>6, FsmStates
  <2>2. data_access(i) \in {"rs1", "rs2"}
    BY <1>1, <1>3, <1>6, LaneAccess DEF P1
  <2>3. vrf_state' = IF ~gnt THEN "START" ELSE IF mult_ops THEN "INT_READ1" ELSE "READ"
    BY <1>1, <1>4, <1>6, <2>1, <2>2 DEF VrfStart, OnGrant, slide_down
  <2> QED BY <1>6, <2>1, <2>3 DEF VrfStart, unchangedIterations, unchangedDemux, Reading, Middle
<1>7. CASE vrf_state \in Reading
  <2>1. mult_ops <=> vrf_state = "INT_READ1"
    BY <1>7 DEF Loop, Reading
  <2>2. VrfIntRead1(i) \/ VrfRead(i)
    BY <1>2, <1>7, FsmStates DEF Reading
  <2>3. vrf_state' = IF ~first_iteration_q /\ ~gnt THEN vrf_state
                     ELSE IF mult_ops THEN "INT_WRITE" ELSE "WRITE"
    BY <1>1, <2>1, <2>2 DEF VrfIntRead1, VrfRead, OnGrant
  <2>4. first_iteration_q' = FALSE /\ UNCHANGED <<num_iterations_q, last_iteration_q, offset_q, curr_demux_sel>>
    BY <2>2 DEF VrfIntRead1, VrfRead, unchangedIterations, unchangedDemux, unchangedSetup
  <2> QED BY <1>7, <2>3, <2>4 DEF Reading, Middle
<1>8. CASE vrf_state \in Middle
  <2>1. VrfIntRead2(i) \/ VrfIntRead3(i)
    BY <1>2, <1>8, FsmStates DEF Middle
  <2>2. vrf_state' = IF vrf_state = "INT_READ2" /\ ThreeReads
                                THEN IF gnt THEN "INT_READ3" ELSE vrf_state
                                ELSE IF last_iteration_q \/ gnt THEN "INT_READ1" ELSE vrf_state
    BY <1>1, <1>5, <2>1 DEF VrfIntRead2, VrfIntRead3, OnGrant
  <2>3. UNCHANGED <<num_iterations_q, last_iteration_q, first_iteration_q, offset_q, curr_demux_sel>>
    BY <2>1 DEF VrfIntRead2, VrfIntRead3, unchangedIterations, unchangedDemux, unchangedSetup, unchangedFirst
  <2> QED BY <1>8, <2>2, <2>3 DEF Reading, Middle
<1>9. CASE vrf_state = "INT_WRITE"
  <2>1. VrfIntWrite(i) /\ mult_ops
    BY <1>2, <1>9, FsmStates DEF Loop
  <2>2. CountDown(i, i.gnt) => CountDown(Op, gnt)
    BY <1>1 DEF CountDown
  <2>3. ~last_iteration_q => /\ vrf_state' = IF gnt THEN "INT_READ2" ELSE vrf_state
                             /\ CountDown(Op, gnt)
    BY <1>1, <1>5, <2>1, <2>2 DEF VrfIntWrite, OnGrant
  <2>4. UNCHANGED <<first_iteration_q, offset_q, curr_demux_sel>>
    BY <2>1 DEF VrfIntWrite, unchangedDemux, unchangedSetup, unchangedFirst
  <2> QED BY <1>9, <2>3, <2>4 DEF Reading, Middle
<1>10. CASE vrf_state = "WRITE"
  <2>1. VrfWrite(i)
    BY <1>2, <1>10, FsmStates
  <2>2. /\ CountDown(i, i.gnt) /\ ~final(i) => CountDown(Op, final(Op) \/ gnt)
        /\ CountDown(i, TRUE) /\ final(i) => CountDown(Op, final(Op) \/ gnt)
    BY <1>1 DEF CountDown
  <2>3. ~last_iteration_q => /\ vrf_state' = IF final(Op) \/ gnt THEN "READ" ELSE vrf_state
                             /\ CountDown(Op, final(Op) \/ gnt)
    BY <1>1, <1>5, <2>1, <2>2 DEF VrfWrite, OnGrant
  <2>4. UNCHANGED <<first_iteration_q, offset_q, curr_demux_sel>>
    BY <2>1 DEF VrfWrite, unchangedDemux, unchangedSetup, unchangedFirst
  <2> QED BY <1>10, <2>3, <2>4 DEF Reading, Middle
<1> QED BY <1>6, <1>7, <1>8, <1>9, <1>10 DEF Loop, Reading, Middle

(* What it does to the operands.                                             *)
LEMMA LaneOperands ==
  ASSUME PortInv, NEW gnt \in BOOLEAN, NEW rvalid \in Answers, NEW i, NEW l, NEW r,
         Wired(gnt, rvalid, i, l, r), Working, vrf_state \in {"START"} \cup Loop, curr_demux_sel = 0,
         insn' = insn
  PROVE  /\ Q1' = IF vrf_state \in Reading /\ ~last_iteration_q /\ bus # <<>> THEN i.rdata ELSE Q1
         /\ mult_ops => Q2' = IF vrf_state = "INT_READ2" /\ bus # <<>> THEN i.rdata ELSE Q2
         /\ ThreeReads => rs3_q' = IF vrf_state = "INT_READ3" /\ bus # <<>> THEN i.rdata ELSE rs3_q
         /\ delay_state' = IF vrf_state \in Reading /\ ~first_iteration_q /\ ~gnt THEN "write" ELSE "none"
         /\ vrf_state \in Reading /\ ~first_iteration_q /\ ~gnt => rd_q' = Out
<1> DEFINE Latched ==
             /\ Q1' = IF vrf_state \in Reading /\ ~last_iteration_q /\ bus # <<>> THEN i.rdata ELSE Q1
             /\ mult_ops => Q2' = IF vrf_state = "INT_READ2" /\ bus # <<>> THEN i.rdata ELSE Q2
             /\ ThreeReads => rs3_q' = IF vrf_state = "INT_READ3" /\ bus # <<>> THEN i.rdata ELSE rs3_q
<1>1. /\ i.op = Decoded /\ (i.gnt <=> gnt) /\ data_access(i) = data_access(Op)
      /\ i.rvalid <=> bus # <<>>
      /\ i.wdata = AluWord
  BY UnitWires DEF Working
<1>2. vector_op /\ insn.name \in LaneNames /\ vrf_state \in {"START"} \cup LaneStates /\ delay_state # "read"
  BY DEF Working, Active
<1>3. /\ i.op.memory_op = FALSE /\ i.op.slide_op = FALSE /\ i.op.sel = sel_operation
  BY <1>1, <1>2, LaneOps
<1>4. /\ "rs1" \in i.op.sel <=> insn.name \in {"vadd_vv", "vmacc_vv", "vmv_v_v"}
      /\ mult_ops <=> insn.name \in {"vadd_vv", "vmacc_vv", "vmacc_vx"}
      /\ insn.name \in {"vadd_vv", "vadd_vx", "vmacc_vv", "vmacc_vx", "vmv_v_v"}
  BY <1>2, <1>3, LaneOps DEF LaneNames
<1>5. Operands(i, Zero) /\ DelayFsm(i)
  BY DEF Wired, VrfCycle
<1>6. /\ rs1_q' = IF rs1_en(i) THEN i.rdata ELSE rs1_q
      /\ rs2_q' = IF rs2_en(i) THEN i.rdata ELSE rs2_q
      /\ rs3_q' = IF rs3_en(i) THEN i.rdata ELSE rs3_q
      /\ rd_q' = IF rd_en(i) \/ (delayed(i) /\ ~i.op.memory_op) THEN i.wdata ELSE rd_q
  BY <1>3, <1>5 DEF Operands
<1>7. TwoSources' = TwoSources
  BY DEF TwoSources
<1>8. ASSUME TwoSources PROVE Latched
  <2>1. "rs1" \in i.op.sel /\ mult_ops /\ (ThreeReads <=> insn.name = "vmacc_vv")
        /\ insn.name \in {"vadd_vv", "vmacc_vv"}
    BY <1>4, <1>8 DEF TwoSources, ThreeReads
  <2>2. Q1 = rs1_q /\ Q2 = rs2_q /\ Q1' = rs1_q' /\ Q2' = rs2_q'
    BY <1>7, <1>8 DEF Q1, Q2
  <2>3. vrf_state \in {"START", "INT_READ1", "INT_READ2", "INT_READ3", "INT_WRITE"}
    BY <2>1 DEF Loop
  <2>4. rs1_en(i) <=> bus # <<>> /\ vrf_state \in Reading /\ ~last_iteration_q
    BY <1>1, <2>1, <2>3 DEF rs1_en, Reading
  <2>5. rs2_en(i) <=> bus # <<>> /\ vrf_state = "INT_READ2"
    BY <1>1, <2>1, <2>3 DEF rs2_en
  <2>6. rs3_en(i) <=> bus # <<>> /\ vrf_state = "INT_READ3"
    BY <1>1, <2>1, <2>3 DEF rs3_en
  <2> QED BY <1>6, <2>2, <2>4, <2>5, <2>6
<1>9. ASSUME ~TwoSources, ~mult_ops PROVE Latched
  <2>1. Q1 = rs2_q /\ Q1' = rs2_q' /\ ~ThreeReads
    BY <1>4, <1>7, <1>9 DEF Q1, ThreeReads
  <2>2. vrf_state \in {"START", "READ", "WRITE"}
    BY <1>9 DEF Loop
  <2>3. rs2_en(i) <=> bus # <<>> /\ vrf_state \in Reading /\ ~last_iteration_q
    BY <1>1, <2>2 DEF rs2_en, Reading
  <2> QED BY <1>6, <1>9, <2>1, <2>3
<1>10. ASSUME ~TwoSources, mult_ops PROVE Latched
  <2>1. Q1 = rs2_q /\ Q1' = rs2_q' /\ Q2 = rs3_q /\ Q2' = rs3_q'
    BY <1>7, <1>10 DEF Q1, Q2
  <2>2. "rs1" \notin i.op.sel /\ ~ThreeReads
    BY <1>4, <1>10 DEF TwoSources, ThreeReads
  <2>3. vrf_state \in {"START", "INT_READ1", "INT_READ2", "INT_WRITE"}
    BY <1>10, <2>2 DEF Loop
  <2>4. rs2_en(i) <=> bus # <<>> /\ vrf_state \in Reading /\ ~last_iteration_q
    BY <1>1, <2>2, <2>3 DEF rs2_en, Reading
  <2>5. rs3_en(i) <=> bus # <<>> /\ vrf_state = "INT_READ2"
    BY <1>1, <2>2, <2>3 DEF rs3_en
  <2> QED BY <1>6, <2>1, <2>2, <2>4, <2>5
<1>11. write_delayed(i) <=> vrf_state \in Reading /\ ~first_iteration_q /\ ~gnt
  <2>1. vrf_state \in Reading => (data_access(i) = "write" <=> ~first_iteration_q)
    BY <1>1, <1>2, LaneAccess
  <2>2. vrf_state # "LOAD"
    BY <1>2 DEF LaneStates
  <2> QED BY <1>1, <2>1, <2>2 DEF write_delayed, data_we_o, Reading
<1>12. ~read_delayed(i) /\ ~rd_en(i)
  BY <1>2 DEF read_delayed, store_ready, rd_en, LaneStates
<1>13. delay_state' = IF write_delayed(i) THEN "write" ELSE "none"
  <2>1. delay_state \in {"none", "write"}
    BY <1>2 DEF PortInv, InvType, VrfRegs
  <2> QED BY <1>5, <1>12, <2>1 DEF DelayFsm, delayed
<1>14. write_delayed(i) => rd_q' = Out
  <2>1. delay_state \in {"none", "write"}
    BY <1>2 DEF PortInv, InvType, VrfRegs
  <2> QED BY <1>1, <1>3, <1>6, <1>12, <2>1 DEF delayed, Out
<1>15. Latched
  BY <1>8, <1>9, <1>10
<1> QED BY <1>11, <1>13, <1>14, <1>15

----------------------------------------------------------------------------
(* Where a lane instruction is, with w words of its result written.          *)

(* The word being worked on is the last, or more are counted.                *)
Place(w) ==
  /\ vrf_state \in Loop /\ w \in 0 .. Words(insn)
  /\ offset_q = insn.bytes % 4 /\ curr_demux_sel = 0
  /\ first_iteration_q => vrf_state \in Reading /\ w = 0
  /\ IF last_iteration_q
       THEN ~first_iteration_q /\ w = IF vrf_state \in Writing THEN Words(insn) ELSE Words(insn) - 1
       ELSE IF vrf_state \in Writing \/ first_iteration_q
              THEN w < Words(insn) /\ num_iterations_q = insn.bytes \div 4 - w
              ELSE w + 1 < Words(insn) /\ num_iterations_q = insn.bytes \div 4 - w - 1

(* Words asked for of the first source and of the second.                    *)
Asked1(w) == IF vrf_state \in Writing /\ last_iteration_q THEN w
             ELSE IF vrf_state \in Reading /\ ~first_iteration_q /\ ~last_iteration_q THEN w + 2
             ELSE w + 1
Asked2(w) == IF vrf_state \in Middle \/ (vrf_state \in Reading /\ ~first_iteration_q) THEN w + 1 ELSE w

Counts(w) == /\ CounterAt(P1, Asked1(w)) /\ CounterAt("rd", w)
             /\ TwoSources => CounterAt("rs2", Asked2(w))

Source1(j) == Word(before, regs[P1], j)
Source2(j) == Word(before, regs[P2], j)
Source3(j) == Word(before, insn.vd, j)

(* An operand that is on the bus, or already in its register.                *)
Arrives(q, v) == IF bus = <<>> THEN q = v ELSE ~Head(bus).we /\ Head(bus).data = v

OnBus(v) == bus # <<>> /\ ~Head(bus).we /\ Head(bus).data = v

HasOperands(w) == /\ Q1 = Source1(w)
                  /\ mult_ops => Q2 = Source2(w)
                  /\ ThreeReads => rs3_q = Source3(w)

(* The operands of the word, and the first of the next, which takes its      *)
(* place while the result waits in rd_q.                                     *)
LaneData(w) ==
  /\ delay_state = "none" \/ (delay_state = "write" /\ vrf_state \in Reading /\ ~first_iteration_q)
  /\ vrf_state \in Reading /\ first_iteration_q => OnBus(Source1(w))
  /\ vrf_state \in Writing /\ ~last_iteration_q => Q1 = Source1(w)
  /\ vrf_state \in Middle => Q1 = Source1(w)
  /\ vrf_state = "INT_READ2" => Arrives(Q2, Source2(w))
  /\ vrf_state = "INT_READ3" => Q2 = Source2(w) /\ Arrives(rs3_q, Source3(w))
  /\ vrf_state \in Reading /\ ~first_iteration_q =>
       IF delay_state = "write"
         THEN rd_q = ResultWord(insn, before, w) /\ (~last_iteration_q => bus = <<>> /\ Q1 = Source1(w + 1))
         ELSE HasOperands(w) /\ (~last_iteration_q => OnBus(Source1(w + 1)))

LaneAt(w) == Place(w) /\ Counts(w) /\ LaneData(w) /\ mem = Partial(insn, before, Upto(insn, w))

(* The instruction that waits for its first word.                            *)
LaneBegun ==
  /\ mem = before /\ delay_state = "none" /\ curr_demux_sel = 0 /\ ~last_iteration_q
  /\ insn.bytes # 0
  /\ num_iterations_q = insn.bytes \div 4 /\ offset_q = insn.bytes % 4
  /\ \A p \in Ports : CounterAt(p, 0)

----------------------------------------------------------------------------
LEMMA LaneFields ==
  ASSUME InvType, vector_op, Lane(insn)
  PROVE  /\ insn.name \in LaneNames /\ From(insn) = 0 /\ Ends(insn) = insn.bytes /\ insn.offset \in Nat
         /\ insn.bytes \in Nat /\ insn.bytes \div 4 \in 0 .. MaxIterations - 1
         /\ insn.vd \in 0 .. 31 /\ insn.vd \in Nat
         /\ \A p \in Ports : regs[p] \in 0 .. 31
         /\ regs["rd"] = insn.vd /\ InItsBank(insn, insn.vd)
         /\ P1 \in {"rs1", "rs2"} /\ P2 \in {"rs2", "rd"}
         /\ InItsBank(insn, regs[P1]) /\ (regs[P1] = insn.vd \/ Apart(insn, regs[P1]))
         /\ mult_ops => InItsBank(insn, regs[P2]) /\ (regs[P2] = insn.vd \/ Apart(insn, regs[P2]))
<1>1. /\ insn.bytes \in Nat /\ insn.vd \in 0 .. 31 /\ insn.vs1 \in 0 .. 31 /\ insn.vs2 \in 0 .. 31
      /\ insn.offset \in Nat
  BY InsnFields
<1>2. insn.bytes \div 4 \in Nat
  BY <1>1
<1>3. insn.bytes \div 4 < MaxIterations /\ insn.name \in LaneNames /\ InItsBank(insn, insn.vd)
      /\ \A r \in Sources(insn) : InItsBank(insn, r) /\ (r = insn.vd \/ Apart(insn, r))
  BY DEF Lane
<1>4. insn.name \in {"vadd_vv", "vadd_vx", "vmacc_vv", "vmacc_vx", "vmv_v_v"}
  BY <1>3 DEF LaneNames
<1>5. regs["rs1"] = insn.vs1 /\ regs["rs2"] = insn.vs2 /\ regs["rd"] = insn.vd
  BY DEF regs
<1>6. \A p \in Ports : regs[p] \in 0 .. 31
  BY <1>1, <1>5 DEF Ports
<1>7. regs[P1] \in Sources(insn) /\ P1 \in {"rs1", "rs2"}
  BY <1>4, <1>5 DEF P1, Sources
<1>8. /\ P2 \in {"rs2", "rd"}
      /\ mult_ops => regs[P2] \in Sources(insn) \cup {insn.vd}
  BY <1>4, <1>5 DEF P2, Sources, TwoSources, mult_ops
<1>9. insn.vd \in Nat
  BY <1>1
<1>10. insn.bytes \div 4 \in 0 .. MaxIterations - 1
  BY <1>2, <1>3, MaxIterationsAssumption
<1>11. InItsBank(insn, regs[P1]) /\ (regs[P1] = insn.vd \/ Apart(insn, regs[P1]))
  BY <1>3, <1>7
<1>12. mult_ops => InItsBank(insn, regs[P2]) /\ (regs[P2] = insn.vd \/ Apart(insn, regs[P2]))
  BY <1>3, <1>8
<1>13. From(insn) = 0 /\ Ends(insn) = insn.bytes
  BY <1>4 DEF From, Ends
<1> QED BY <1>1, <1>3, <1>5, <1>6, <1>7, <1>8, <1>9, <1>10, <1>11, <1>12, <1>13

(* The last word is known by the counter.                                    *)
LEMMA FinalIs ==
  ASSUME InvType, vector_op, Lane(insn), NEW w \in Nat, offset_q = insn.bytes % 4,
         num_iterations_q = insn.bytes \div 4 - w, w < Words(insn)
  PROVE  /\ final(Op) <=> w = Words(insn) - 1
         /\ ~final(Op) => (num_iterations_q - 1) % MaxIterations = insn.bytes \div 4 - w - 1
<1>1. /\ insn.bytes \in Nat /\ insn.bytes \div 4 \in 0 .. MaxIterations - 1
      /\ insn.name \in LaneNames
  BY LaneFields
<1>2. Op.op.slide_op = FALSE
  BY <1>1, LaneOps DEF Op
<1>3. no_offset(Op) <=> offset_q = 0
  BY <1>2 DEF no_offset, slide_down
<1>4. final(Op) <=> num_iterations_q = IF offset_q = 0 THEN 1 ELSE 0
  BY <1>3 DEF final
<1> DEFINE q == insn.bytes \div 4
           t == insn.bytes % 4
           W == Words(insn)
<1>5. /\ W \in Nat /\ q \in 0 .. MaxIterations - 1 /\ w < W
      /\ t = 0 => q = W
      /\ t # 0 => q = W - 1
      /\ num_iterations_q = q - w /\ offset_q = t
  BY <1>1, WordCounts
<1> HIDE DEF q, t, W
<1>6. final(Op) <=> w = W - 1
  BY <1>4, <1>5
<1>7. ~final(Op) => num_iterations_q - 1 \in 0 .. MaxIterations - 1
  BY <1>5, <1>6, MaxIterationsAssumption
<1>8. ~final(Op) => (num_iterations_q - 1) % MaxIterations = num_iterations_q - 1
  BY <1>7, MaxIterationsAssumption
<1> QED BY <1>5, <1>6, <1>8 DEF W, q

(* The word a port asks for is that of the source before the instruction.    *)
LEMMA LaneReads ==
  ASSUME InvType, vector_op, Lane(insn), NEW w \in 0 .. Words(insn), NEW j \in w .. Words(insn) - 1,
         mem = Partial(insn, before, Upto(insn, w)),
         NEW p \in Ports, CounterAt(p, j), p = P1 \/ (p = P2 /\ mult_ops) \/ p = "rd"
  PROVE  Fetched(mem_if_addr(regs, p)) = Word(before, regs[p], j)
<1>1. /\ insn.bytes \in Nat /\ insn.vd \in 0 .. 31
      /\ regs[p] \in 0 .. 31
      /\ InItsBank(insn, regs[p]) /\ (regs[p] = insn.vd \/ Apart(insn, regs[p]))
  BY LaneFields
<1>11. Words(insn) \in Nat /\ From(insn) \in Nat
  BY <1>1, LaneFields, WordCounts
<1>12. Upto(insn, w) = 4 * w /\ 4 * w \in Nat /\ 4 * w <= 4 * Words(insn) /\ 4 * w <= 4 * j /\ j \in 0 .. Words(insn) - 1
  BY <1>11 DEF Upto
<1>2. port(p) = p
  BY DEF port, Ports
<1>3. RegWords * (regs[p] % 8) + j < BankWords
  <2> DEFINE x == RegWords * (regs[p] % 8)
  <2>1. x + Words(insn) <= BankWords
    BY <1>1 DEF InItsBank
  <2>2. x \in Nat /\ BankWords \in Nat /\ Words(insn) \in Nat
    <3>1. regs[p] % 8 \in Nat
      BY <1>1
    <3>2. Words(insn) \in Nat
      BY <1>1, WordCounts
    <3> QED BY <3>1, <3>2, RegWordsAssumption DEF BankWords
  <2>3. j \in Int /\ j < Words(insn)
    BY <2>2
  <2> HIDE DEF x
  <2>4. x + j < BankWords
    BY <2>1, <2>2, <2>3
  <2> QED BY <2>4 DEF x
<1>4. j \in Nat
  OBVIOUS
<1>5. mem_if_addr(regs, p) = RegBytes * regs[p] + 4 * j
  BY <1>1, <1>2, <1>3, <1>4, WordAddress
<1> DEFINE v == regs[p]
<1>6. v \in 0 .. 31 /\ (v = insn.vd \/ Apart(insn, v))
  BY <1>1
<1> HIDE DEF v
<1>7. Fetched(RegBytes * v + 4 * j) = Word(before, v, j)
  BY <1>1, <1>6, <1>11, <1>12, FetchesWord
<1> QED BY <1>5, <1>7 DEF v

(* The result takes the place of the next word of the destination.           *)
LEMMA LaneWrites ==
  ASSUME InvType, vector_op, Lane(insn), NEW w \in 0 .. Words(insn) - 1, Place(w), vrf_state \in Reading,
         ~first_iteration_q,
         mem = Partial(insn, before, Upto(insn, w)), CounterAt("rd", w), Out = ResultWord(insn, before, w)
  PROVE  Stored(mem_if_addr(regs, "write"), data_be_o(Op), Out) = Partial(insn, before, Upto(insn, w + 1))
<1>1. /\ insn.bytes \in Nat /\ insn.vd \in 0 .. 31 /\ insn.vd \in Nat /\ insn.name \in LaneNames /\ From(insn) = 0
      /\ regs["rd"] = insn.vd /\ InItsBank(insn, insn.vd)
  BY LaneFields
<1>2. port("write") = "rd" /\ "rd" \in Ports
  BY DEF port, Ports
<1>3. Words(insn) \in Nat
  BY <1>1, WordCounts
<1>4. RegWords * (insn.vd % 8) + w < BankWords
  <2> DEFINE x == RegWords * (insn.vd % 8)
  <2>1. x + Words(insn) <= BankWords
    BY <1>1 DEF InItsBank
  <2>2. x \in Nat /\ BankWords \in Nat
    <3>1. insn.vd % 8 \in Nat
      BY <1>1
    <3> QED BY <3>1, RegWordsAssumption DEF BankWords
  <2>3. w \in Int /\ w < Words(insn)
    BY <1>3
  <2> HIDE DEF x
  <2>4. x + w < BankWords
    BY <1>3, <2>1, <2>2, <2>3
  <2> QED BY <2>4 DEF x
<1>5. w \in Nat
  BY <1>3
<1>6. mem_if_addr(regs, "write") = RegBytes * insn.vd + 4 * w
  BY <1>1, <1>2, <1>4, <1>5, WordAddress
<1>7. data_be_o(Op) = WordBytes(insn, w)
  <2>1. Op.op.slide_op = FALSE /\ Op.op.is_slide_up = FALSE
    BY <1>1, LaneOps DEF Op
  <2>2. ~sel_slide_be(Op) /\ tail_bytes(Op) = offset_q
    BY <2>1 DEF sel_slide_be, tail_bytes, slide_down
  <2>3. data_be_o(Op) = WordLanes \cap (IF last_iteration_q THEN offset_be(Op) ELSE WordLanes)
    BY <2>2 DEF data_be_o
  <2>4. offset_be(Op) = IF insn.bytes % 4 = 0 THEN WordLanes ELSE 0 .. (insn.bytes % 4) - 1
    BY <2>2 DEF offset_be, Place
  <2>5. insn.bytes % 4 \in 0 .. 3
    BY <1>1, WordCounts
  <2>6. WordLanes \cap offset_be(Op) = offset_be(Op)
    <3> DEFINE t == insn.bytes % 4
    <3>1. t \in 0 .. 3
      BY <2>5
    <3> HIDE DEF t
    <3>2. \A k \in 0 .. t - 1 : k \in WordLanes
      BY <3>1 DEF WordLanes
    <3>3. WordLanes \cap (0 .. t - 1) = 0 .. t - 1
      BY <3>2
    <3> QED BY <2>4, <3>3 DEF t
  <2>7. last_iteration_q <=> w = Words(insn) - 1
    <3>1. Writing \cap Reading = {}
      BY DEF Writing, Reading
    <3>2. /\ last_iteration_q => w = Words(insn) - 1
          /\ ~last_iteration_q => w + 1 < Words(insn)
      BY <3>1 DEF Place
    <3> QED BY <1>3, <1>5, <3>2
  <2> QED BY <2>3, <2>4, <2>6, <2>7 DEF WordBytes
<1>8. Stored(RegBytes * insn.vd + 4 * w, WordBytes(insn, w), ResultWord(insn, before, w))
        = Partial(insn, before, Upto(insn, w + 1))
  BY <1>1, StoresWord
<1> QED BY <1>6, <1>7, <1>8

(* The lanes compute the result.                                             *)
LEMMA LaneResult ==
  ASSUME insn.name \in LaneNames, vector_op, NEW w, HasOperands(w)
  PROVE  AluWord = ResultWord(insn, before, w)
<1>1. insn.name \in {"vadd_vv", "vadd_vx", "vmacc_vv", "vmacc_vx", "vmv_v_v"}
  BY DEF LaneNames
<1>2. /\ regs["rs1"] = insn.vs1 /\ regs["rs2"] = insn.vs2 /\ regs["rd"] = insn.vd
  BY DEF regs
<1> DEFINE V(r, k) == ISA!Read(before, ISA!RegByte(r, 4 * w + k))
<1>3. \A k \in WordLanes : /\ Q1[k] = V(regs[P1], k)
                           /\ mult_ops => Q2[k] = V(regs[P2], k)
                           /\ ThreeReads => rs3_q[k] = V(insn.vd, k)
  BY DEF HasOperands, Source1, Source2, Source3, Word
<1>4. /\ "rs1" \in sel_operation <=> insn.name \in {"vadd_vv", "vmacc_vv", "vmv_v_v"}
      /\ "rs3" \in sel_operation <=> insn.name \in {"vmacc_vv", "vmacc_vx"}
  BY LaneOps
<1>5. \A k : ISA!Value(insn, before, 4 * w + k) =
        CASE insn.name = "vadd_vv" -> ISA!Result(V(insn.vs1, k), V(insn.vs2, k), ISA!Scalar)
          [] insn.name = "vadd_vx" -> ISA!Result(ISA!Scalar, V(insn.vs2, k), ISA!Scalar)
          [] insn.name = "vmacc_vv" -> ISA!Result(V(insn.vs1, k), V(insn.vs2, k), V(insn.vd, k))
          [] insn.name = "vmacc_vx" -> ISA!Result(ISA!Scalar, V(insn.vs2, k), V(insn.vd, k))
          [] insn.name = "vmv_v_v" -> V(insn.vs1, k)
  BY <1>1 DEF ISA!Value, ISA!Loads, ISA!Stores
<1>6. \A k : alu_byte(rs3_q, k) =
        IF insn.name = "vmv_v_v" THEN rs2_q[k]
        ELSE ISA!Result(IF "rs1" \in sel_operation THEN rs1_q[k] ELSE ISA!Scalar, rs2_q[k],
                        IF "rs3" \in sel_operation THEN rs3_q[k] ELSE ISA!Scalar)
  BY <1>1 DEF alu_byte
<1> HIDE DEF V
<1>7. ASSUME NEW k \in WordLanes
      PROVE  alu_byte(rs3_q, k) = ISA!Value(insn, before, 4 * w + k)
  <2>1. CASE insn.name = "vadd_vv"
    BY <1>2, <1>3, <1>4, <1>5, <1>6, <2>1 DEF P1, P2, Q1, Q2, TwoSources, mult_ops
  <2>2. CASE insn.name = "vadd_vx"
    BY <1>2, <1>3, <1>4, <1>5, <1>6, <2>2 DEF P1, Q1, TwoSources
  <2>3. CASE insn.name = "vmacc_vv"
    BY <1>2, <1>3, <1>4, <1>5, <1>6, <2>3 DEF P1, P2, Q1, Q2, TwoSources, mult_ops, ThreeReads
  <2>4. CASE insn.name = "vmacc_vx"
    BY <1>2, <1>3, <1>4, <1>5, <1>6, <2>4 DEF P1, P2, Q1, Q2, TwoSources, mult_ops
  <2>5. CASE insn.name = "vmv_v_v"
    BY <1>2, <1>3, <1>5, <1>6, <2>5 DEF P1, Q1, TwoSources
  <2> QED BY <1>1, <2>1, <2>2, <2>3, <2>4, <2>5
<1> QED BY <1>7 DEF AluWord, ResultWord

----------------------------------------------------------------------------
(* One clock edge.                                                           *)

(* The counter of the port that is granted moves on, except that of the      *)
(* destination when it is read.                                              *)
LEMMA UnitCounters ==
  ASSUME PortInv, NEW gnt \in BOOLEAN, NEW rvalid \in Answers, NEW i, NEW l, NEW r,
         Wired(gnt, rvalid, i, l, r), Active
  PROVE  addr_q' = IF gnt /\ data_access(Op) # "rd"
                     THEN [addr_q EXCEPT ![port(data_access(Op))] = (@ + 1) % BankWords] ELSE addr_q
<1>1. /\ i.op = Decoded /\ (i.gnt <=> gnt) /\ data_access(i) = data_access(Op)
      /\ gnt => data_access(Op) # "none"
  BY UnitWires
<1>2. i.op.memory_op = FALSE
  BY <1>1 DEF Active, Decoded
<1>3. ~agu_load_o(i)
  BY DEF agu_load_o, Active, LaneStates
<1>4. agu_incr_o(i) <=> gnt /\ data_access(Op) # "rd"
  BY <1>1, <1>2 DEF agu_incr_o, accepted, data_req_o
<1>5. Counters(i)
  BY DEF Wired
<1> QED BY <1>1, <1>3, <1>4, <1>5 DEF Counters, AguIncr

LEMMA UnitCounts ==
  ASSUME PortInv, NEW gnt \in BOOLEAN, NEW rvalid \in Answers, NEW i, NEW l, NEW r,
         Wired(gnt, rvalid, i, l, r), Active,
         NEW p \in Ports, NEW j \in Nat, CounterAt(p, j), InItsBank(insn, regs[p]),
         NEW k, k = IF gnt /\ data_access(Op) # "rd" /\ p = port(data_access(Op)) THEN j + 1 ELSE j,
         k = j + 1 => j < Words(insn)
  PROVE  addr_q'[p] = (RegWords * (regs[p] % 8) + k) % BankWords
<1> DEFINE x == RegWords * (regs[p] % 8)
<1>1. InvType /\ addr_q \in [Ports -> 0 .. BankWords - 1]
  BY DEF PortInv, InvType, TypeOK
<1>2. regs[p] \in 0 .. 31 /\ insn.bytes \in Nat
  BY <1>1, InsnFields DEF Active, regs, Ports
<1>3. x \in Nat /\ BankWords \in Nat \ {0}
  <2>1. regs[p] % 8 \in Nat
    BY <1>2
  <2> QED BY <2>1, RegWordsAssumption DEF BankWords
<1>4. Words(insn) \in Nat /\ x + Words(insn) <= BankWords
  BY <1>2, WordCounts DEF InItsBank
<1>5. addr_q[p] = (x + j) % BankWords
  BY DEF CounterAt
<1>6. addr_q' = IF gnt /\ data_access(Op) # "rd"
                  THEN [addr_q EXCEPT ![port(data_access(Op))] = (@ + 1) % BankWords] ELSE addr_q
  BY UnitCounters
<1>7. addr_q'[p] = IF gnt /\ data_access(Op) # "rd" /\ p = port(data_access(Op))
                     THEN (addr_q[p] + 1) % BankWords ELSE addr_q[p]
  BY <1>1, <1>6
<1> HIDE DEF x
<1>8. CASE gnt /\ data_access(Op) # "rd" /\ p = port(data_access(Op))
  <2>1. k = j + 1 /\ x + j < BankWords
    BY <1>3, <1>4, <1>8
  <2>2. addr_q[p] = x + j
    BY <1>3, <1>5, <2>1
  <2>3. (x + j) + 1 = x + k
    BY <1>3, <2>1
  <2> QED BY <1>7, <1>8, <2>2, <2>3 DEF x
<1>9. CASE ~(gnt /\ data_access(Op) # "rd" /\ p = port(data_access(Op)))
  <2>1. k = j
    BY <1>9
  <2> QED BY <1>5, <1>7, <1>9, <2>1 DEF x
<1> QED BY <1>8, <1>9

(* What does not change with the instruction.                                *)
LEMMA SameLane ==
  ASSUME insn' = insn, before' = before
  PROVE  /\ P1' = P1 /\ P2' = P2 /\ Loop' = Loop /\ regs' = regs /\ Op' = Op
         /\ TwoSources' <=> TwoSources
         /\ ThreeReads' <=> ThreeReads
         /\ mult_ops' <=> mult_ops
         /\ vector_op' <=> vector_op
         /\ \A w : Source1(w)' = Source1(w) /\ Source2(w)' = Source2(w) /\ Source3(w)' = Source3(w)
<1>1. regs' = regs /\ Op' = Op /\ (vector_op' <=> vector_op)
  BY SameInstruction
<1>2. (TwoSources' <=> TwoSources) /\ (ThreeReads' <=> ThreeReads) /\ (mult_ops' <=> mult_ops)
  BY DEF TwoSources, ThreeReads, mult_ops
<1>3. P1' = P1
  BY DEF P1
<1>4. P2' = P2
  BY <1>2 DEF P2
<1>5. Loop' = Loop
  BY <1>2 DEF Loop
<1>6. \A w : Source1(w)' = Source1(w) /\ Source2(w)' = Source2(w) /\ Source3(w)' = Source3(w)
  BY <1>1, <1>3, <1>4 DEF Source1, Source2, Source3, Word
<1> QED BY <1>1, <1>2, <1>3, <1>4, <1>5, <1>6

(* A word asked for is on the bus in the next cycle.                         *)
LEMMA LaneAsks ==
  ASSUME PortInv, NEW gnt \in BOOLEAN, NEW rvalid \in Answers, NEW i, NEW l, NEW r,
         Wired(gnt, rvalid, i, l, r), Working, Lane(insn), gnt,
         NEW w \in 0 .. Words(insn), NEW j \in w .. Words(insn) - 1,
         mem = Partial(insn, before, Upto(insn, w)),
         NEW p \in Ports, data_access(Op) = p, CounterAt(p, j), p = P1 \/ (p = P2 /\ mult_ops) \/ p = "rd"
  PROVE  /\ bus' # <<>> /\ ~Head(bus').we /\ Head(bus').data = Word(before, regs[p], j)
         /\ mem' = mem
<1>1. p # "write"
  BY DEF Ports
<1>2. /\ bus' # <<>> /\ ~Head(bus').we /\ mem' = mem
      /\ Head(bus').data = Fetched(mem_if_addr(regs, p))
  BY <1>1, UnitMemory DEF Working
<1>3. InvType /\ vector_op
  BY DEF PortInv, Working, Active
<1>4. Fetched(mem_if_addr(regs, p)) = Word(before, regs[p], j)
  BY <1>3, LaneReads
<1> QED BY <1>2, <1>4

(* The instruction stays until its last word is written.                     *)
LEMMA UnitStays ==
  ASSUME PortInv, NEW gnt \in BOOLEAN, NEW rvalid \in Answers, NEW i, NEW l, NEW r,
         Wired(gnt, rvalid, i, l, r), Active
  PROVE  IF vrf_state \in Writing /\ last_iteration_q THEN vector_op /\ ~first /\ before' = mem'
         ELSE insn' = insn /\ first' = FALSE /\ before' = before
<1>1. vector_op /\ ~first /\ vrf_state \in {"START"} \cup LaneStates
  BY DEF Active, PortInv, Sequencing, LaneStates
<1>2. vector_done_o(i) <=> vrf_state \in Writing /\ last_iteration_q
  BY <1>1 DEF vector_done_o, lsu_answered, Writing, LaneStates
<1>3. Stage(i)
  BY DEF Wired
<1> QED BY <1>1, <1>2, <1>3 DEF Stage

LEMMA LaneStarts ==
  ASSUME PortInv, NEW gnt \in BOOLEAN, NEW rvalid \in Answers, NEW i, NEW l, NEW r,
         Wired(gnt, rvalid, i, l, r), vector_op, Lane(insn), Plain(mem), vrf_state = "START", LaneBegun
  PROVE  insn' = insn /\ before' = before /\ IF gnt THEN LaneAt(0)' ELSE LaneBegun' /\ vrf_state' = "START"
<1>1. /\ InvType /\ insn.name \in LaneNames /\ insn.bytes \in Nat /\ insn.bytes # 0 /\ From(insn) = 0
      /\ insn.vd \in Nat /\ P1 \in {"rs1", "rs2"}
      /\ InItsBank(insn, regs[P1]) /\ InItsBank(insn, regs["rd"])
      /\ mult_ops => InItsBank(insn, regs[P2])
  BY LaneFields DEF PortInv, LaneBegun
<1>2. Working /\ Active
  BY <1>1, LaneOps DEF Working, Active, LaneBegun
<1>3. insn' = insn /\ before' = before
  BY <1>2, UnitStays DEF Writing
<1>4. /\ P1' = P1 /\ P2' = P2 /\ Loop' = Loop /\ regs' = regs
      /\ TwoSources' <=> TwoSources
      /\ ThreeReads' <=> ThreeReads
      /\ mult_ops' <=> mult_ops
      /\ \A w : Source1(w)' = Source1(w) /\ Source2(w)' = Source2(w) /\ Source3(w)' = Source3(w)
  BY <1>3, SameLane
<1>5. /\ data_access(Op) = P1 /\ port(P1) = P1
      /\ P1 # "rd" /\ (TwoSources => P1 = "rs1")
  BY <1>1, LaneAccess DEF port, P1, TwoSources
<1>6. /\ vrf_state' = IF ~gnt THEN "START" ELSE IF mult_ops THEN "INT_READ1" ELSE "READ"
      /\ first_iteration_q' = TRUE
      /\ UNCHANGED <<num_iterations_q, last_iteration_q, offset_q, curr_demux_sel>>
  BY <1>2, LaneMoves
<1>7. delay_state' = "none"
  BY <1>2, <1>3, LaneOperands DEF LaneBegun, Reading
<1>8. Words(insn) \in Nat /\ 0 < Words(insn) /\ Upto(insn, 0) = 0
  BY <1>1, WordCounts DEF Upto
<1>9. mem = before /\ mem = Partial(insn, before, Upto(insn, 0))
  BY <1>1, <1>8, PartialNone DEF LaneBegun
<1>10. \A p \in Ports : CounterAt(p, 0)
  BY DEF LaneBegun
<1>11. CASE gnt
  <2>1. OnBus(Source1(0))' /\ mem' = mem
    <3>1. P1 \in Ports /\ 0 \in 0 .. Words(insn) /\ 0 \in 0 .. Words(insn) - 1
      BY <1>1, <1>8 DEF Ports
    <3>2. CounterAt(P1, 0)
      BY <1>10, <3>1
    <3>3. bus' # <<>> /\ ~Head(bus').we /\ Head(bus').data = Word(before, regs[P1], 0) /\ mem' = mem
      BY <1>2, <1>5, <1>9, <1>11, <3>1, <3>2, LaneAsks
    <3>4. Source1(0)' = Source1(0)
      BY <1>4
    <3> QED BY <3>3, <3>4 DEF OnBus, Source1
  <2>2. vrf_state' \in Reading /\ vrf_state' \in Loop
    BY <1>6, <1>11 DEF Reading, Loop
  <2>3. vrf_state' \notin Writing /\ vrf_state' \notin Middle
    BY <2>2 DEF Reading, Writing, Middle
  <2>4. Place(0)'
    BY <1>3, <1>4, <1>6, <1>8, <2>2, <2>3 DEF Place, LaneBegun
  <2>5. Counts(0)'
    <3>1. addr_q'[P1] = (RegWords * (regs[P1] % 8) + 1) % BankWords
      <4>1. P1 \in Ports /\ CounterAt(P1, 0) /\ InItsBank(insn, regs[P1])
        BY <1>1, <1>10 DEF Ports
      <4>2. 1 = IF gnt /\ data_access(Op) # "rd" /\ P1 = port(data_access(Op)) THEN 0 + 1 ELSE 0
        BY <1>5, <1>11
      <4> QED BY <1>2, <1>8, <4>1, <4>2, UnitCounts
    <3>2. addr_q'["rd"] = (RegWords * (regs["rd"] % 8) + 0) % BankWords
      <4>1. "rd" \in Ports /\ CounterAt("rd", 0) /\ InItsBank(insn, regs["rd"])
        BY <1>1, <1>10 DEF Ports
      <4>2. 0 = IF gnt /\ data_access(Op) # "rd" /\ "rd" = port(data_access(Op)) THEN 0 + 1 ELSE 0
        BY <1>5
      <4> QED BY <1>2, <1>8, <4>1, <4>2, UnitCounts
    <3>3. TwoSources => addr_q'["rs2"] = (RegWords * (regs["rs2"] % 8) + 0) % BankWords
      <4> SUFFICES ASSUME TwoSources PROVE addr_q'["rs2"] = (RegWords * (regs["rs2"] % 8) + 0) % BankWords
        OBVIOUS
      <4>1. "rs2" \in Ports /\ CounterAt("rs2", 0) /\ InItsBank(insn, regs["rs2"])
        BY <1>1, <1>10 DEF Ports, TwoSources, P2, mult_ops
      <4>2. 0 = IF gnt /\ data_access(Op) # "rd" /\ "rs2" = port(data_access(Op)) THEN 0 + 1 ELSE 0
        BY <1>5
      <4> QED BY <1>2, <1>8, <4>1, <4>2, UnitCounts
    <3>4. Asked1(0)' = 1 /\ Asked2(0)' = 0
      BY <1>6, <2>2, <2>3 DEF Asked1, Asked2
    <3> QED BY <1>4, <3>1, <3>2, <3>3, <3>4 DEF Counts, CounterAt
  <2>6. LaneData(0)'
    BY <1>6, <1>7, <2>1, <2>2, <2>3 DEF LaneData, Middle
  <2> QED BY <1>3, <1>9, <1>11, <2>1, <2>4, <2>5, <2>6 DEF LaneAt
<1>12. CASE ~gnt
  <2>1. mem' = mem
    BY <1>2, <1>12, UnitMemory
  <2>2. addr_q' = addr_q
    BY <1>2, <1>12, UnitCounters
  <2>3. \A p \in Ports : CounterAt(p, 0)'
    BY <1>4, <1>10, <2>2 DEF CounterAt
  <2> QED BY <1>3, <1>6, <1>7, <1>12, <2>1, <2>3 DEF LaneBegun
<1> QED BY <1>3, <1>11, <1>12

LEMMA LaneFacts ==
  ASSUME PortInv, vector_op, Lane(insn), NEW w, LaneAt(w)
  PROVE  /\ Working /\ Active /\ InvType /\ insn.name \in LaneNames /\ vrf_state \in Loop /\ curr_demux_sel = 0
         /\ w \in Nat /\ w \in 0 .. Words(insn) /\ Words(insn) \in Nat
         /\ insn.bytes \in Nat /\ insn.bytes \div 4 \in Nat
         /\ ~(vrf_state \in Writing /\ last_iteration_q) => w \in 0 .. Words(insn) - 1 /\ w < Words(insn)
         /\ vrf_state \in Reading => vrf_state \notin Writing /\ vrf_state \notin Middle
         /\ vrf_state \in Writing => vrf_state \notin Middle /\ ~first_iteration_q
         /\ vrf_state \in Middle => ~first_iteration_q /\ mult_ops
         /\ delay_state \in {"none", "write"}
<1>1. InvType
  BY DEF PortInv
<1>2. insn.name \in LaneNames /\ insn.bytes \in Nat /\ insn.bytes \div 4 \in Nat /\ Words(insn) \in Nat
  BY <1>1, LaneFields, WordCounts
<1>3. vrf_state \in Loop /\ w \in 0 .. Words(insn) /\ curr_demux_sel = 0 /\ delay_state \in {"none", "write"}
  BY DEF LaneAt, Place, LaneData
<1>4. vrf_state \in LaneStates
  BY <1>3 DEF Loop, LaneStates
<1>5. /\ vrf_state \in Reading => vrf_state \notin Writing /\ vrf_state \notin Middle
      /\ vrf_state \in Writing => vrf_state \notin Middle /\ vrf_state \notin Reading
      /\ vrf_state \in Middle => vrf_state \notin Reading /\ mult_ops
  BY <1>3 DEF Reading, Writing, Middle, Loop
<1>6. first_iteration_q => vrf_state \in Reading
  BY DEF LaneAt, Place
<1>7. ~(vrf_state \in Writing /\ last_iteration_q) => w < Words(insn)
  BY <1>2, <1>3 DEF LaneAt, Place
<1>8. Working /\ Active
  BY <1>2, <1>3, <1>4, LaneOps DEF Working, Active
<1> QED BY <1>1, <1>2, <1>3, <1>5, <1>6, <1>7, <1>8

(* The counters follow the words asked for and written.                      *)
LEMMA CountsMove ==
  ASSUME PortInv, NEW gnt \in BOOLEAN, NEW rvalid \in Answers, NEW i, NEW l, NEW r,
         Wired(gnt, rvalid, i, l, r), Working, Lane(insn), insn' = insn, before' = before,
         NEW w \in Nat, NEW v \in Nat, Counts(w), NEW acc, acc = data_access(Op),
         Asked1(v)' = (IF gnt /\ acc = P1 THEN Asked1(w) + 1 ELSE Asked1(w)),
         Asked1(w) \in Nat, gnt /\ acc = P1 => Asked1(w) < Words(insn),
         v = (IF gnt /\ acc = "write" THEN w + 1 ELSE w), gnt /\ acc = "write" => w < Words(insn),
         TwoSources => /\ Asked2(v)' = (IF gnt /\ acc = "rs2" THEN Asked2(w) + 1 ELSE Asked2(w))
                       /\ Asked2(w) \in Nat /\ (gnt /\ acc = "rs2" => Asked2(w) < Words(insn)),
         acc \in {"none", "write"} \cup Ports
  PROVE  Counts(v)'
<1>1. /\ Active /\ InvType /\ P1 \in {"rs1", "rs2"} /\ P1 \in Ports /\ "rd" \in Ports /\ "rs2" \in Ports
      /\ InItsBank(insn, regs[P1]) /\ InItsBank(insn, regs["rd"])
      /\ mult_ops => InItsBank(insn, regs[P2])
  BY LaneFields DEF PortInv, Working, Active, Ports
<1>2. /\ P1' = P1 /\ regs' = regs
      /\ TwoSources' <=> TwoSources
  BY SameLane
<1>3. /\ port(acc) = P1 <=> acc = P1
      /\ acc # "rd" => (port(acc) = "rd" <=> acc = "write")
      /\ port(acc) = "rs2" <=> acc = "rs2"
      /\ P1 # "rd"
  BY <1>1 DEF port, Ports
<1>4. CounterAt(P1, Asked1(w)) /\ CounterAt("rd", w) /\ (TwoSources => CounterAt("rs2", Asked2(w)))
  BY DEF Counts
<1>5. addr_q'[P1] = (RegWords * (regs[P1] % 8) + Asked1(v)') % BankWords
  <2>1. Asked1(v)' = IF gnt /\ data_access(Op) # "rd" /\ P1 = port(data_access(Op)) THEN Asked1(w) + 1 ELSE Asked1(w)
    BY <1>3
  <2>2. Asked1(v)' = Asked1(w) + 1 => Asked1(w) < Words(insn)
    OBVIOUS
  <2> QED BY <1>1, <1>4, <2>1, <2>2, UnitCounts
<1>6. addr_q'["rd"] = (RegWords * (regs["rd"] % 8) + v) % BankWords
  <2>1. v = IF gnt /\ data_access(Op) # "rd" /\ "rd" = port(data_access(Op)) THEN w + 1 ELSE w
    BY <1>3
  <2>2. v = w + 1 => w < Words(insn)
    OBVIOUS
  <2> QED BY <1>1, <1>4, <2>1, <2>2, UnitCounts
<1>7. ASSUME TwoSources PROVE addr_q'["rs2"] = (RegWords * (regs["rs2"] % 8) + Asked2(v)') % BankWords
  <2>1. Asked2(v)' = IF gnt /\ data_access(Op) # "rd" /\ "rs2" = port(data_access(Op)) THEN Asked2(w) + 1 ELSE Asked2(w)
    BY <1>3, <1>7
  <2>2. Asked2(v)' = Asked2(w) + 1 => Asked2(w) < Words(insn)
    BY <1>7
  <2>3. InItsBank(insn, regs["rs2"])
    BY <1>1, <1>7 DEF TwoSources, P2, mult_ops
  <2> QED BY <1>1, <1>4, <1>7, <2>1, <2>2, <2>3, UnitCounts
<1> QED BY <1>2, <1>5, <1>6, <1>7 DEF Counts, CounterAt

(* The first operand arrives.                                                *)
LEMMA LaneFirst ==
  ASSUME PortInv, NEW gnt \in BOOLEAN, NEW rvalid \in Answers, NEW i, NEW l, NEW r,
         Wired(gnt, rvalid, i, l, r), vector_op, Lane(insn), NEW w, LaneAt(w),
         vrf_state \in Reading, first_iteration_q
  PROVE  insn' = insn /\ before' = before /\ LaneAt(w)'
<1>1. /\ Working /\ Active /\ InvType /\ insn.name \in LaneNames /\ vrf_state \in Loop /\ curr_demux_sel = 0
      /\ w \in Nat /\ w \in 0 .. Words(insn) /\ Words(insn) \in Nat
      /\ vrf_state \notin Writing /\ vrf_state \notin Middle
  BY LaneFacts
<1>2. insn' = insn /\ before' = before
  BY <1>1, UnitStays
<1>3. /\ P1' = P1 /\ P2' = P2 /\ Loop' = Loop /\ regs' = regs
      /\ TwoSources' <=> TwoSources
      /\ ThreeReads' <=> ThreeReads
      /\ mult_ops' <=> mult_ops
      /\ \A j : Source1(j)' = Source1(j) /\ Source2(j)' = Source2(j) /\ Source3(j)' = Source3(j)
  BY <1>2, SameLane
<1>4. data_access(Op) = "none" /\ ~gnt
  BY <1>1, LaneAccess, UnitWires
<1>5. /\ vrf_state' = IF mult_ops THEN "INT_WRITE" ELSE "WRITE"
      /\ first_iteration_q' = FALSE
      /\ UNCHANGED <<num_iterations_q, last_iteration_q, offset_q, curr_demux_sel>>
  BY <1>1, LaneMoves
<1>6. OnBus(Source1(w)) /\ ~last_iteration_q /\ w < Words(insn)
  BY <1>1 DEF LaneAt, LaneData, Place
<1>7. Q1' = Source1(w) /\ delay_state' = "none"
  <2>1. i.rdata = Source1(w) /\ bus # <<>>
    BY <1>1, <1>6, UnitWires DEF OnBus
  <2> QED BY <1>1, <1>2, <1>6, <2>1, LaneOperands
<1>8. mem' = mem
  BY <1>1, <1>4, UnitMemory
<1>9. vrf_state' \in Writing /\ vrf_state' \in Loop /\ vrf_state' \notin Reading /\ vrf_state' \notin Middle
  BY <1>5 DEF Writing, Reading, Middle, Loop
<1>10. Place(w)'
  BY <1>1, <1>2, <1>3, <1>5, <1>6, <1>9 DEF LaneAt, Place
<1>11. Counts(w)'
  <2>1. Asked1(w)' = w + 1 /\ Asked1(w) = w + 1
    BY <1>1, <1>5, <1>6, <1>9 DEF Asked1
  <2>2. Asked2(w)' = w /\ Asked2(w) = w
    BY <1>1, <1>5, <1>9 DEF Asked2
  <2> DEFINE acc == data_access(Op)
  <2>3. /\ Asked1(w)' = (IF gnt /\ acc = P1 THEN Asked1(w) + 1 ELSE Asked1(w))
        /\ Asked1(w) \in Nat /\ (gnt /\ acc = P1 => Asked1(w) < Words(insn))
        /\ w = (IF gnt /\ acc = "write" THEN w + 1 ELSE w) /\ (gnt /\ acc = "write" => w < Words(insn))
        /\ TwoSources => /\ Asked2(w)' = (IF gnt /\ acc = "rs2" THEN Asked2(w) + 1 ELSE Asked2(w))
                         /\ Asked2(w) \in Nat /\ (gnt /\ acc = "rs2" => Asked2(w) < Words(insn))
        /\ acc \in {"none", "write"} \cup Ports
    BY <1>1, <1>4, <2>1, <2>2
  <2> QED BY <1>1, <1>2, <2>3, CountsMove DEF LaneAt
<1>12. LaneData(w)'
  BY <1>3, <1>5, <1>7, <1>9 DEF LaneData, Middle
<1> QED BY <1>2, <1>8, <1>10, <1>11, <1>12 DEF LaneAt

(* The word before is written while the first operand of the next arrives.   *)
LEMMA LaneWriteBack ==
  ASSUME PortInv, NEW gnt \in BOOLEAN, NEW rvalid \in Answers, NEW i, NEW l, NEW r,
         Wired(gnt, rvalid, i, l, r), vector_op, Lane(insn), NEW w, LaneAt(w),
         vrf_state \in Reading, ~first_iteration_q
  PROVE  insn' = insn /\ before' = before /\ IF gnt THEN LaneAt(w + 1)' ELSE LaneAt(w)'
<1>1. /\ Working /\ Active /\ InvType /\ insn.name \in LaneNames /\ vrf_state \in Loop /\ curr_demux_sel = 0
      /\ w \in Nat /\ w \in 0 .. Words(insn) - 1 /\ w < Words(insn) /\ Words(insn) \in Nat
      /\ insn.bytes \div 4 \in Nat
      /\ vrf_state \notin Writing /\ vrf_state \notin Middle
      /\ delay_state \in {"none", "write"}
  BY LaneFacts
<1>2. insn' = insn /\ before' = before
  BY <1>1, UnitStays
<1>3. /\ P1' = P1 /\ P2' = P2 /\ Loop' = Loop /\ regs' = regs
      /\ TwoSources' <=> TwoSources
      /\ ThreeReads' <=> ThreeReads
      /\ mult_ops' <=> mult_ops
      /\ \A j : Source1(j)' = Source1(j) /\ Source2(j)' = Source2(j) /\ Source3(j)' = Source3(j)
  BY <1>2, SameLane
<1>4. data_access(Op) = "write" /\ "write" # P1
  BY <1>1, LaneAccess DEF P1
<1>5. /\ vrf_state' = IF ~gnt THEN vrf_state ELSE IF mult_ops THEN "INT_WRITE" ELSE "WRITE"
      /\ first_iteration_q' = FALSE
      /\ UNCHANGED <<num_iterations_q, last_iteration_q, offset_q, curr_demux_sel>>
  BY <1>1, LaneMoves
<1>6. /\ delay_state = "write" => rd_q = ResultWord(insn, before, w)
      /\ delay_state = "none" => HasOperands(w)
      /\ ~last_iteration_q => IF bus = <<>> THEN Q1 = Source1(w + 1) ELSE OnBus(Source1(w + 1))
  BY <1>1 DEF LaneAt, LaneData, OnBus
<1>7. Out = ResultWord(insn, before, w)
  BY <1>1, <1>6, LaneResult DEF Out
<1>8. /\ ~last_iteration_q => Q1' = Source1(w + 1)
      /\ delay_state' = IF gnt THEN "none" ELSE "write"
      /\ ~gnt => rd_q' = Out
  <2>1. ~last_iteration_q /\ bus # <<>> => i.rdata = Source1(w + 1)
    BY <1>1, <1>6, UnitWires DEF OnBus
  <2> QED BY <1>1, <1>2, <1>6, <2>1, LaneOperands
<1>9. mem = Partial(insn, before, Upto(insn, w)) /\ Place(w) /\ Counts(w)
  BY DEF LaneAt
<1> DEFINE acc == data_access(Op)
           v == IF gnt THEN w + 1 ELSE w
<1>10. /\ last_iteration_q => w = Words(insn) - 1
       /\ ~last_iteration_q => w + 1 < Words(insn) /\ num_iterations_q = insn.bytes \div 4 - w - 1
       /\ offset_q = insn.bytes % 4
  BY <1>1, <1>9 DEF Place
<1>11. Asked1(w) = IF last_iteration_q THEN w + 1 ELSE w + 2
  BY <1>1 DEF Asked1
<1>12. CASE gnt
  <2>1. vrf_state' \in Writing /\ vrf_state' \in Loop /\ vrf_state' \notin Reading /\ vrf_state' \notin Middle
    BY <1>5, <1>12 DEF Writing, Reading, Middle, Loop
  <2>2. Place(w + 1)'
    <3>1. w + 1 \in 0 .. Words(insn)
      BY <1>1
    <3>2. /\ last_iteration_q => w + 1 = Words(insn)
          /\ ~last_iteration_q => w + 1 < Words(insn) /\ num_iterations_q = insn.bytes \div 4 - (w + 1)
      BY <1>1, <1>10
    <3> QED BY <1>2, <1>3, <1>5, <1>9, <2>1, <3>1, <3>2 DEF Place
  <2>3. Counts(w + 1)'
    <3>1. Asked1(w + 1)' = IF last_iteration_q THEN w + 1 ELSE w + 2
      <4>1. Asked1(w + 1)' = IF last_iteration_q' THEN w + 1 ELSE (w + 1) + 1
        BY <2>1 DEF Asked1
      <4> QED BY <1>1, <1>5, <4>1
    <3>2. Asked2(w + 1)' = w + 1 /\ Asked2(w) = w + 1
      BY <1>1, <2>1 DEF Asked2
    <3>3. /\ Asked1(w + 1)' = (IF gnt /\ acc = P1 THEN Asked1(w) + 1 ELSE Asked1(w))
          /\ Asked1(w) \in Nat /\ (gnt /\ acc = P1 => Asked1(w) < Words(insn))
          /\ w + 1 = (IF gnt /\ acc = "write" THEN w + 1 ELSE w) /\ (gnt /\ acc = "write" => w < Words(insn))
          /\ TwoSources => /\ Asked2(w + 1)' = (IF gnt /\ acc = "rs2" THEN Asked2(w) + 1 ELSE Asked2(w))
                           /\ Asked2(w) \in Nat /\ (gnt /\ acc = "rs2" => Asked2(w) < Words(insn))
          /\ acc \in {"none", "write"} \cup Ports
      BY <1>1, <1>4, <1>11, <1>12, <3>1, <3>2
    <3>4. w + 1 \in Nat
      BY <1>1
    <3> QED BY <1>1, <1>2, <1>9, <3>3, <3>4, CountsMove
  <2>4. LaneData(w + 1)'
    BY <1>3, <1>5, <1>8, <1>12, <2>1 DEF LaneData, Middle
  <2>5. mem' = Partial(insn, before, Upto(insn, w + 1))
    <3>1. CounterAt("rd", w)
      BY <1>9 DEF Counts
    <3>2. mem' = Stored(mem_if_addr(regs, "write"), data_be_o(Op), Out)
      BY <1>1, <1>4, <1>12, UnitMemory
    <3> QED BY <1>1, <1>7, <1>9, <3>1, <3>2, LaneWrites
  <2> QED BY <1>2, <1>12, <2>2, <2>3, <2>4, <2>5 DEF LaneAt
<1>13. CASE ~gnt
  <2>1. vrf_state' = vrf_state /\ bus' = <<>> /\ mem' = mem
    BY <1>1, <1>5, <1>13, UnitMemory
  <2>2. Place(w)'
    BY <1>2, <1>3, <1>5, <1>9, <2>1 DEF Place
  <2>3. Counts(w)'
    <3>1. Asked1(w)' = Asked1(w) /\ Asked2(w)' = Asked2(w)
      BY <1>5, <2>1 DEF Asked1, Asked2
    <3>2. Asked1(w) \in Nat /\ Asked2(w) \in Nat
      BY <1>1, <1>11 DEF Asked2
    <3>3. /\ Asked1(w)' = (IF gnt /\ acc = P1 THEN Asked1(w) + 1 ELSE Asked1(w))
          /\ Asked1(w) \in Nat /\ (gnt /\ acc = P1 => Asked1(w) < Words(insn))
          /\ w = (IF gnt /\ acc = "write" THEN w + 1 ELSE w) /\ (gnt /\ acc = "write" => w < Words(insn))
          /\ TwoSources => /\ Asked2(w)' = (IF gnt /\ acc = "rs2" THEN Asked2(w) + 1 ELSE Asked2(w))
                           /\ Asked2(w) \in Nat /\ (gnt /\ acc = "rs2" => Asked2(w) < Words(insn))
          /\ acc \in {"none", "write"} \cup Ports
      BY <1>4, <1>13, <3>1, <3>2
    <3> QED BY <1>1, <1>2, <1>9, <3>3, CountsMove
  <2>4. LaneData(w)'
    BY <1>1, <1>2, <1>3, <1>5, <1>7, <1>8, <1>13, <2>1 DEF LaneData, Middle
  <2> QED BY <1>2, <1>9, <1>13, <2>1, <2>2, <2>3, <2>4 DEF LaneAt
<1> QED BY <1>2, <1>12, <1>13

(* The second and third operands arrive.                                     *)
LEMMA LaneGathers ==
  ASSUME PortInv, NEW gnt \in BOOLEAN, NEW rvalid \in Answers, NEW i, NEW l, NEW r,
         Wired(gnt, rvalid, i, l, r), vector_op, Lane(insn), NEW w, LaneAt(w),
         vrf_state \in Middle
  PROVE  insn' = insn /\ before' = before /\ LaneAt(w)'
<1>1. /\ Working /\ Active /\ InvType /\ insn.name \in LaneNames /\ vrf_state \in Loop /\ curr_demux_sel = 0
      /\ w \in Nat /\ w \in 0 .. Words(insn) /\ w \in 0 .. Words(insn) - 1 /\ w < Words(insn) /\ Words(insn) \in Nat
      /\ vrf_state \notin Writing /\ vrf_state \notin Reading /\ ~first_iteration_q /\ mult_ops
  BY LaneFacts
<1>2. insn' = insn /\ before' = before
  BY <1>1, UnitStays
<1>3. /\ P1' = P1 /\ P2' = P2 /\ Loop' = Loop /\ regs' = regs
      /\ TwoSources' <=> TwoSources
      /\ ThreeReads' <=> ThreeReads
      /\ mult_ops' <=> mult_ops
      /\ \A j : Source1(j)' = Source1(j) /\ Source2(j)' = Source2(j) /\ Source3(j)' = Source3(j)
  BY <1>2, SameLane
<1> DEFINE acc == data_access(Op)
           third == vrf_state = "INT_READ2" /\ ThreeReads
<1>4. /\ acc = IF third THEN "rd" ELSE IF last_iteration_q THEN "none" ELSE P1
      /\ vrf_state = "INT_READ3" => ThreeReads
  <2>1. vrf_state \in {"INT_READ2", "INT_READ3"} /\ (vrf_state = "INT_READ3" => ThreeReads)
    BY <1>1 DEF Middle, Loop
  <2> QED BY <1>1, <2>1, LaneAccess
<1>5. P1 \in {"rs1", "rs2"} /\ P1 \in Ports /\ "rd" \in Ports /\ regs["rd"] = insn.vd
  BY <1>1, LaneFields DEF Working, Active, Ports
<1>6. /\ vrf_state' = IF third THEN IF gnt THEN "INT_READ3" ELSE vrf_state
                      ELSE IF last_iteration_q \/ gnt THEN "INT_READ1" ELSE vrf_state
      /\ UNCHANGED <<num_iterations_q, last_iteration_q, first_iteration_q, offset_q, curr_demux_sel>>
  BY <1>1, LaneMoves
<1>7. /\ Q1 = Source1(w)
      /\ vrf_state = "INT_READ2" => Arrives(Q2, Source2(w))
      /\ vrf_state = "INT_READ3" => Q2 = Source2(w) /\ Arrives(rs3_q, Source3(w))
  BY DEF LaneAt, LaneData
<1>8. /\ Q1' = Source1(w) /\ Q2' = Source2(w) /\ delay_state' = "none"
      /\ vrf_state = "INT_READ3" => rs3_q' = Source3(w)
  <2>1. /\ vrf_state = "INT_READ2" /\ bus # <<>> => i.rdata = Source2(w)
        /\ vrf_state = "INT_READ3" /\ bus # <<>> => i.rdata = Source3(w)
    BY <1>1, <1>7, UnitWires DEF Arrives
  <2>2. /\ Q1' = Q1 /\ delay_state' = "none"
        /\ Q2' = IF vrf_state = "INT_READ2" /\ bus # <<>> THEN i.rdata ELSE Q2
        /\ ThreeReads => rs3_q' = IF vrf_state = "INT_READ3" /\ bus # <<>> THEN i.rdata ELSE rs3_q
    BY <1>1, <1>2, LaneOperands
  <2>3. vrf_state \in {"INT_READ2", "INT_READ3"}
    BY DEF Middle
  <2> QED BY <1>4, <1>7, <2>1, <2>2, <2>3 DEF Arrives
<1>9. mem = Partial(insn, before, Upto(insn, w)) /\ Place(w) /\ Counts(w)
  BY DEF LaneAt
<1>10. /\ last_iteration_q => w = Words(insn) - 1
       /\ ~last_iteration_q => w + 1 < Words(insn)
  BY <1>1, <1>9 DEF Place
<1>11. Asked1(w) = w + 1 /\ Asked2(w) = w + 1
  BY <1>1 DEF Asked1, Asked2
<1>12. mem' = mem /\ (~gnt => bus' = <<>>)
  <2>1. acc # "write"
    BY <1>4, <1>5
  <2> QED BY <1>1, <2>1, UnitMemory
<1>13. gnt /\ third => OnBus(Source3(w))'
  <2> SUFFICES ASSUME gnt, third PROVE OnBus(Source3(w))'
    OBVIOUS
  <2>1. CounterAt("rd", w) /\ acc = "rd" /\ w \in w .. Words(insn) - 1
    BY <1>1, <1>4, <1>9 DEF Counts
  <2>2. bus' # <<>> /\ ~Head(bus').we /\ Head(bus').data = Word(before, regs["rd"], w)
    BY <1>1, <1>5, <1>9, <2>1, LaneAsks
  <2> QED BY <1>3, <1>5, <2>2 DEF OnBus, Source3
<1>14. gnt /\ ~third => OnBus(Source1(w + 1))' /\ ~last_iteration_q
  <2> SUFFICES ASSUME gnt, ~third PROVE OnBus(Source1(w + 1))' /\ ~last_iteration_q
    OBVIOUS
  <2>1. acc # "none"
    BY <1>1, UnitWires
  <2>2. acc = P1 /\ ~last_iteration_q
    BY <1>4, <2>1
  <2>3. CounterAt(P1, w + 1) /\ w + 1 \in w .. Words(insn) - 1
    BY <1>1, <1>9, <1>10, <1>11, <2>2 DEF Counts
  <2>4. bus' # <<>> /\ ~Head(bus').we /\ Head(bus').data = Word(before, regs[P1], w + 1)
    BY <1>1, <1>5, <1>9, <2>2, <2>3, LaneAsks
  <2>5. Source1(w + 1)' = Source1(w + 1)
    BY <1>3
  <2> QED BY <2>2, <2>4, <2>5 DEF OnBus, Source1
<1> HIDE DEF acc, third
<1>15. CASE third \/ (~gnt /\ ~last_iteration_q)
  <2>1. vrf_state' \in Middle /\ vrf_state' \in Loop /\ vrf_state' \notin Reading /\ vrf_state' \notin Writing
    BY <1>1, <1>6, <1>15 DEF Middle, Loop, Reading, Writing, third
  <2>2. vrf_state' = "INT_READ3" => vrf_state = "INT_READ3" \/ (third /\ gnt)
    BY <1>6
  <2>3. Place(w)'
    BY <1>1, <1>2, <1>3, <1>6, <1>9, <2>1 DEF Place
  <2>4. Counts(w)'
    <3>1. Asked1(w)' = w + 1 /\ Asked2(w)' = w + 1
      BY <2>1 DEF Asked1, Asked2
    <3>2. ~(gnt /\ acc = P1) /\ ~(gnt /\ acc = "write") /\ ~(gnt /\ acc = "rs2")
      BY <1>4, <1>5, <1>15 DEF third
    <3>3. /\ Asked1(w)' = (IF gnt /\ acc = P1 THEN Asked1(w) + 1 ELSE Asked1(w))
          /\ Asked1(w) \in Nat /\ (gnt /\ acc = P1 => Asked1(w) < Words(insn))
          /\ w = (IF gnt /\ acc = "write" THEN w + 1 ELSE w) /\ (gnt /\ acc = "write" => w < Words(insn))
          /\ TwoSources => /\ Asked2(w)' = (IF gnt /\ acc = "rs2" THEN Asked2(w) + 1 ELSE Asked2(w))
                           /\ Asked2(w) \in Nat /\ (gnt /\ acc = "rs2" => Asked2(w) < Words(insn))
          /\ acc \in {"none", "write"} \cup Ports /\ acc = data_access(Op)
      BY <1>1, <1>4, <1>5, <1>11, <3>1, <3>2 DEF acc
    <3> QED BY <1>1, <1>2, <1>9, <3>3, CountsMove
  <2>5. LaneData(w)'
    <3>1. vrf_state' = "INT_READ3" => Arrives(rs3_q, Source3(w))'
      <4>1. CASE vrf_state = "INT_READ3"
        <5>1. ~third /\ ~gnt
          BY <1>15, <4>1 DEF third
        <5> QED BY <1>3, <1>8, <1>12, <4>1, <5>1 DEF Arrives
      <4>2. CASE third /\ gnt
        BY <1>13, <4>2 DEF Arrives, OnBus
      <4> QED BY <2>2, <4>1, <4>2
    <3>2. vrf_state' = "INT_READ2" => Arrives(Q2, Source2(w))'
      <4>1. vrf_state' = "INT_READ2" => ~gnt
        BY <1>6, <1>15
      <4> QED BY <1>3, <1>8, <1>12, <4>1 DEF Arrives
    <3> QED BY <1>3, <1>8, <2>1, <3>1, <3>2 DEF LaneData
  <2> QED BY <1>2, <1>9, <1>12, <2>3, <2>4, <2>5 DEF LaneAt
<1>16. CASE ~third /\ (gnt \/ last_iteration_q)
  <2>1. vrf_state' = "INT_READ1"
    BY <1>6, <1>16
  <2>2. vrf_state' \in Reading /\ vrf_state' \in Loop /\ vrf_state' \notin Middle /\ vrf_state' \notin Writing
    BY <1>1, <1>3, <2>1 DEF Middle, Loop, Reading, Writing
  <2>3. Place(w)'
    BY <1>1, <1>2, <1>3, <1>6, <1>9, <2>2 DEF Place
  <2>4. Counts(w)'
    <3>1. Asked1(w)' = (IF last_iteration_q THEN w + 1 ELSE w + 2) /\ Asked2(w)' = w + 1
      BY <1>1, <1>6, <2>2 DEF Asked1, Asked2
    <3>2. (gnt /\ acc = P1 <=> ~last_iteration_q) /\ ~(gnt /\ acc = "write")
      BY <1>4, <1>5, <1>14, <1>16
    <3>3. TwoSources => acc # "rs2"
      BY <1>4, <1>5 DEF TwoSources, P1
    <3>4. /\ Asked1(w)' = (IF gnt /\ acc = P1 THEN Asked1(w) + 1 ELSE Asked1(w))
          /\ Asked1(w) \in Nat /\ (gnt /\ acc = P1 => Asked1(w) < Words(insn))
          /\ w = (IF gnt /\ acc = "write" THEN w + 1 ELSE w) /\ (gnt /\ acc = "write" => w < Words(insn))
          /\ TwoSources => /\ Asked2(w)' = (IF gnt /\ acc = "rs2" THEN Asked2(w) + 1 ELSE Asked2(w))
                           /\ Asked2(w) \in Nat /\ (gnt /\ acc = "rs2" => Asked2(w) < Words(insn))
          /\ acc \in {"none", "write"} \cup Ports /\ acc = data_access(Op)
      BY <1>1, <1>4, <1>5, <1>10, <1>11, <3>1, <3>2, <3>3 DEF acc
    <3> QED BY <1>1, <1>2, <1>9, <3>4, CountsMove
  <2>5. LaneData(w)'
    <3>1. ThreeReads => rs3_q' = Source3(w)
      BY <1>8, <1>16 DEF third, Middle
    <3>2. HasOperands(w)'
      BY <1>3, <1>8, <3>1 DEF HasOperands
    <3>3. ~last_iteration_q' => OnBus(Source1(w + 1))'
      BY <1>6, <1>14, <1>16
    <3> QED BY <1>1, <1>6, <1>8, <2>2, <3>2, <3>3 DEF LaneData, Middle
  <2> QED BY <1>2, <1>9, <1>12, <2>3, <2>4, <2>5 DEF LaneAt
<1> QED BY <1>2, <1>15, <1>16

(* The words are counted; the second operand is asked for, or the first of   *)
(* the next word.                                                             *)
LEMMA LaneCountsDown ==
  ASSUME PortInv, NEW gnt \in BOOLEAN, NEW rvalid \in Answers, NEW i, NEW l, NEW r,
         Wired(gnt, rvalid, i, l, r), vector_op, Lane(insn), NEW w, LaneAt(w),
         vrf_state \in Writing, ~last_iteration_q
  PROVE  insn' = insn /\ before' = before /\ LaneAt(w)'
<1>1. /\ Working /\ Active /\ InvType /\ insn.name \in LaneNames /\ vrf_state \in Loop /\ curr_demux_sel = 0
      /\ w \in Nat /\ w \in 0 .. Words(insn) /\ w \in 0 .. Words(insn) - 1 /\ w < Words(insn) /\ Words(insn) \in Nat
      /\ vrf_state \notin Middle /\ vrf_state \notin Reading /\ ~first_iteration_q
  BY LaneFacts
<1>2. insn' = insn /\ before' = before
  BY <1>1, UnitStays
<1>3. /\ P1' = P1 /\ P2' = P2 /\ Loop' = Loop /\ regs' = regs
      /\ TwoSources' <=> TwoSources
      /\ ThreeReads' <=> ThreeReads
      /\ mult_ops' <=> mult_ops
      /\ \A j : Source1(j)' = Source1(j) /\ Source2(j)' = Source2(j) /\ Source3(j)' = Source3(j)
  BY <1>2, SameLane
<1> DEFINE acc == data_access(Op)
           taken == gnt \/ (vrf_state = "WRITE" /\ final(Op))
<1>4. /\ (vrf_state = "WRITE" /\ ~mult_ops) \/ (vrf_state = "INT_WRITE" /\ mult_ops)
      /\ acc = IF mult_ops THEN P2 ELSE IF final(Op) THEN "none" ELSE P1
  <2>1. (vrf_state = "WRITE" /\ ~mult_ops) \/ (vrf_state = "INT_WRITE" /\ mult_ops)
    BY <1>1 DEF Loop, Writing
  <2> QED BY <1>1, <2>1, LaneAccess
<1>5. /\ P1 \in {"rs1", "rs2"} /\ P1 \in Ports /\ P2 \in {"rs2", "rd"} /\ P2 \in Ports
      /\ TwoSources => P1 = "rs1" /\ P2 = "rs2" /\ mult_ops
      /\ ~TwoSources => P2 = "rd"
  BY <1>1, LaneFields DEF Working, Active, Ports, TwoSources, P1, P2, mult_ops
<1>6. /\ vrf_state' = IF ~taken THEN vrf_state ELSE IF mult_ops THEN "INT_READ2" ELSE "READ"
      /\ CountDown(Op, taken)
      /\ UNCHANGED <<first_iteration_q, offset_q, curr_demux_sel>>
  <2>1. CASE vrf_state = "WRITE"
    <3>1. /\ vrf_state' = IF final(Op) \/ gnt THEN "READ" ELSE vrf_state
          /\ CountDown(Op, final(Op) \/ gnt)
          /\ UNCHANGED <<first_iteration_q, offset_q, curr_demux_sel>>
      BY <1>1, <2>1, LaneMoves
    <3>2. CountDown(Op, taken)
      BY <2>1, <3>1 DEF CountDown
    <3> QED BY <1>4, <2>1, <3>1, <3>2
  <2>2. CASE vrf_state = "INT_WRITE"
    <3>1. /\ vrf_state' = IF gnt THEN "INT_READ2" ELSE vrf_state
          /\ CountDown(Op, gnt)
          /\ UNCHANGED <<first_iteration_q, offset_q, curr_demux_sel>>
      BY <1>1, <2>2, LaneMoves
    <3>2. CountDown(Op, taken)
      BY <2>2, <3>1 DEF CountDown
    <3> QED BY <1>4, <2>2, <3>1, <3>2
  <2> QED BY <1>4, <2>1, <2>2
<1>7. Q1 = Source1(w)
  BY DEF LaneAt, LaneData
<1>8. Q1' = Source1(w) /\ delay_state' = "none"
  BY <1>1, <1>2, <1>7, LaneOperands
<1>9. mem = Partial(insn, before, Upto(insn, w)) /\ Place(w) /\ Counts(w)
  BY DEF LaneAt
<1>10. num_iterations_q = insn.bytes \div 4 - w /\ offset_q = insn.bytes % 4
  BY <1>9 DEF Place
<1>11. /\ final(Op) <=> w = Words(insn) - 1
       /\ ~final(Op) => (num_iterations_q - 1) % MaxIterations = insn.bytes \div 4 - w - 1
  BY <1>1, <1>10, FinalIs DEF Working, Active
<1>12. /\ last_iteration_q' <=> taken /\ final(Op)
       /\ num_iterations_q' = IF taken /\ ~final(Op) THEN (num_iterations_q - 1) % MaxIterations ELSE num_iterations_q
  BY <1>6 DEF CountDown
<1>13. Asked1(w) = w + 1 /\ Asked2(w) = w
  BY <1>1 DEF Asked1, Asked2
<1>14. mem' = mem /\ (~gnt => bus' = <<>>)
  <2>1. acc # "write"
    BY <1>4, <1>5
  <2> QED BY <1>1, <2>1, UnitMemory
<1>15. gnt /\ mult_ops => OnBus(Source2(w))'
  <2> SUFFICES ASSUME gnt, mult_ops PROVE OnBus(Source2(w))'
    OBVIOUS
  <2>1. CounterAt(P2, w) /\ acc = P2 /\ w \in w .. Words(insn) - 1
    BY <1>1, <1>4, <1>5, <1>9, <1>13 DEF Counts
  <2>2. bus' # <<>> /\ ~Head(bus').we /\ Head(bus').data = Word(before, regs[P2], w)
    BY <1>1, <1>5, <1>9, <2>1, LaneAsks
  <2>3. Source2(w)' = Source2(w)
    BY <1>3
  <2> QED BY <2>2, <2>3 DEF OnBus, Source2
<1>16. gnt /\ ~mult_ops => OnBus(Source1(w + 1))' /\ ~final(Op)
  <2> SUFFICES ASSUME gnt, ~mult_ops PROVE OnBus(Source1(w + 1))' /\ ~final(Op)
    OBVIOUS
  <2>1. acc # "none"
    BY <1>1, UnitWires
  <2>2. acc = P1 /\ ~final(Op)
    BY <1>4, <2>1
  <2>3. CounterAt(P1, w + 1) /\ w + 1 \in w .. Words(insn) - 1
    BY <1>1, <1>9, <1>11, <1>13, <2>2 DEF Counts
  <2>4. bus' # <<>> /\ ~Head(bus').we /\ Head(bus').data = Word(before, regs[P1], w + 1)
    BY <1>1, <1>5, <1>9, <2>2, <2>3, LaneAsks
  <2>5. Source1(w + 1)' = Source1(w + 1)
    BY <1>3
  <2> QED BY <2>2, <2>4, <2>5 DEF OnBus, Source1
<1>17. acc \in {"none", "write"} \cup Ports /\ acc # "write" /\ acc = data_access(Op)
  BY <1>4, <1>5
<1> HIDE DEF acc, taken
<1>18. Counts(w)'
  <2>1. Asked1(w)' = IF gnt /\ ~mult_ops THEN w + 2 ELSE w + 1
    <3>1. CASE ~taken
      <4>1. vrf_state' \in Writing /\ ~last_iteration_q' /\ vrf_state' \notin Reading /\ ~gnt
        BY <1>1, <1>6, <1>12, <3>1 DEF taken
      <4> QED BY <4>1 DEF Asked1
    <3>2. CASE taken /\ mult_ops
      <4>1. vrf_state' \notin Writing /\ vrf_state' \notin Reading
        BY <1>6, <3>2 DEF Writing, Reading
      <4> QED BY <3>2, <4>1 DEF Asked1
    <3>3. CASE taken /\ ~mult_ops
      <4>1. vrf_state' \notin Writing /\ vrf_state' \in Reading /\ ~first_iteration_q'
        BY <1>1, <1>6, <3>3 DEF Writing, Reading
      <4>2. last_iteration_q' <=> ~gnt
        BY <1>12, <1>16, <3>3 DEF taken
      <4> QED BY <3>3, <4>1, <4>2 DEF Asked1
    <3> QED BY <3>1, <3>2, <3>3
  <2>2. TwoSources => Asked2(w)' = IF gnt THEN w + 1 ELSE w
    <3>1. TwoSources => taken = gnt
      BY <1>4, <1>5 DEF taken
    <3>2. TwoSources /\ gnt => vrf_state' \in Middle
      BY <1>5, <1>6, <3>1 DEF Middle
    <3>3. TwoSources /\ ~gnt => vrf_state' \notin Middle /\ vrf_state' \notin Reading
      BY <1>1, <1>6, <3>1
    <3> QED BY <3>2, <3>3 DEF Asked2
  <2>3. (gnt /\ acc = P1 <=> gnt /\ ~mult_ops) \/ ~gnt
    <3>1. mult_ops => acc # P1
      BY <1>4, <1>5 DEF P1, TwoSources, mult_ops, acc
    <3>2. gnt /\ ~mult_ops => acc = P1
      BY <1>4, <1>16 DEF acc
    <3> QED BY <3>1, <3>2
  <2>4. TwoSources => acc = "rs2"
    BY <1>4, <1>5 DEF acc
  <2>5. gnt /\ acc = P1 => w + 1 < Words(insn)
    BY <1>1, <1>11, <1>16, <2>3
  <2>6. /\ Asked1(w)' = (IF gnt /\ acc = P1 THEN Asked1(w) + 1 ELSE Asked1(w))
        /\ Asked1(w) \in Nat /\ (gnt /\ acc = P1 => Asked1(w) < Words(insn))
        /\ w = (IF gnt /\ acc = "write" THEN w + 1 ELSE w) /\ (gnt /\ acc = "write" => w < Words(insn))
        /\ TwoSources => /\ Asked2(w)' = (IF gnt /\ acc = "rs2" THEN Asked2(w) + 1 ELSE Asked2(w))
                         /\ Asked2(w) \in Nat /\ (gnt /\ acc = "rs2" => Asked2(w) < Words(insn))
    BY <1>1, <1>13, <1>17, <2>1, <2>2, <2>3, <2>4, <2>5
  <2> QED BY <1>1, <1>2, <1>9, <1>17, <2>6, CountsMove
<1>19. CASE ~taken
  <2>1. vrf_state' = vrf_state /\ ~last_iteration_q' /\ num_iterations_q' = num_iterations_q
    BY <1>6, <1>12, <1>19
  <2>2. Place(w)'
    BY <1>1, <1>2, <1>3, <1>6, <1>9, <2>1 DEF Place
  <2>3. LaneData(w)'
    BY <1>1, <1>3, <1>8, <2>1 DEF LaneData, Middle
  <2> QED BY <1>2, <1>9, <1>14, <1>18, <2>2, <2>3 DEF LaneAt
<1>20. CASE taken
  <2>1. /\ last_iteration_q' => w = Words(insn) - 1
        /\ ~last_iteration_q' => w + 1 < Words(insn) /\ num_iterations_q' = insn.bytes \div 4 - w - 1
    BY <1>1, <1>11, <1>12, <1>20
  <2>2. Place(w)'
    <3>1. vrf_state' \in Loop /\ vrf_state' \notin Writing /\ ~first_iteration_q'
      BY <1>1, <1>6, <1>20 DEF Loop, Writing
    <3> QED BY <1>1, <1>2, <1>3, <1>6, <1>10, <2>1, <3>1 DEF Place
  <2>3. CASE mult_ops
    <3>1. vrf_state' = "INT_READ2" /\ gnt
      BY <1>4, <1>6, <1>20, <2>3 DEF taken
    <3>2. Arrives(Q2, Source2(w))'
      BY <1>15, <2>3, <3>1 DEF Arrives, OnBus
    <3>3. LaneData(w)'
      BY <1>3, <1>8, <3>1, <3>2 DEF LaneData, Reading, Writing, Middle
    <3> QED BY <1>2, <1>9, <1>14, <1>18, <2>2, <3>3 DEF LaneAt
  <2>4. CASE ~mult_ops
    <3>1. vrf_state' = "READ" /\ ~first_iteration_q'
      BY <1>1, <1>6, <1>20, <2>4
    <3>2. ~last_iteration_q' => OnBus(Source1(w + 1))'
      BY <1>12, <1>16, <1>20, <2>4 DEF taken
    <3>3. HasOperands(w)'
      <4>1. ~ThreeReads
        BY <2>4 DEF ThreeReads, mult_ops
      <4> QED BY <1>3, <1>8, <2>4, <4>1 DEF HasOperands
    <3>4. LaneData(w)'
      BY <1>8, <3>1, <3>2, <3>3 DEF LaneData, Reading, Writing, Middle
    <3> QED BY <1>2, <1>9, <1>14, <1>18, <2>2, <3>4 DEF LaneAt
  <2> QED BY <2>3, <2>4
<1> QED BY <1>2, <1>19, <1>20

(* The last word is written: the instruction has had its effect.             *)
LEMMA LaneEnds ==
  ASSUME PortInv, NEW gnt \in BOOLEAN, NEW rvalid \in Answers, NEW i, NEW l, NEW r,
         Wired(gnt, rvalid, i, l, r), vector_op, Lane(insn), NEW w, LaneAt(w),
         vrf_state \in Writing, last_iteration_q
  PROVE  ~first /\ before' = mem' /\ before' = ISA!Effect(insn, before)
<1>1. /\ Working /\ Active /\ InvType /\ insn.name \in LaneNames /\ vrf_state \in Loop
      /\ insn.bytes \in Nat
  BY LaneFacts
<1>2. ~first /\ before' = mem'
  BY <1>1, UnitStays
<1>3. data_access(Op) = "none"
  <2>1. vrf_state = "INT_WRITE" => mult_ops
    BY <1>1 DEF Loop
  <2> QED BY <1>1, <2>1, LaneAccess DEF Writing
<1>4. mem' = mem
  BY <1>1, <1>3, UnitMemory
<1>5. mem = Partial(insn, before, insn.bytes)
  BY DEF LaneAt, Place, Upto
<1>6. insn.vd \in Nat /\ insn.offset \in Nat /\ Ends(insn) = insn.bytes
  BY <1>1, LaneFields
<1>7. ISA!Effect(insn, before) = Partial(insn, before, insn.bytes)
  BY <1>1, <1>6, PartialAll
<1> QED BY <1>2, <1>4, <1>5, <1>7

----------------------------------------------------------------------------
(* Any program: memory changes with a lane instruction word by word, and     *)
(* between instructions it is what the abstract machine has.                 *)
Progress ==
  /\ Plain(mem)
  /\ insn = None \/ first => mem = before
  /\ vector_op /\ ~first /\ Lane(insn) =>
       /\ vrf_state = "IDLE" => mem = before /\ insn.bytes = 0
       /\ vrf_state = "START" => LaneBegun
       /\ vrf_state \notin {"IDLE", "START"} => \E w \in 0 .. Words(insn) : LaneAt(w)

LaneInv == HeldInv /\ Progress

LEMMA MemoryIsPlain ==
  ASSUME Plain(mem), NEW r, NEW gnt, NEW rvalid, Memory(r, gnt, rvalid)
  PROVE  Plain(mem')
<1>1. \/ mem' = mem
      \/ mem' = [a \in DOMAIN mem \cup {r.addr + k : k \in r.be} |->
                   IF a \in {r.addr + k : k \in r.be} THEN r.wdata[a % 4] ELSE mem[a]]
  BY DEF Memory
<1> QED BY <1>1 DEF Plain

(* Between instructions nothing is asked of memory.                          *)
LEMMA IdleMemory ==
  ASSUME PortInv, NEW gnt \in BOOLEAN, NEW rvalid \in Answers, NEW i, NEW l, NEW r,
         Wired(gnt, rvalid, i, l, r), vrf_state = "IDLE"
  PROVE  mem' = mem
<1>1. ~Serving /\ ~lsu_req_o(i)
  BY DEF Serving, lsu_req_o, store_ready
<1>2. data_access(i) = "none"
  BY DEF data_access, load_ready, lsu_answered
<1>3. ~gnt
  BY <1>1, <1>2, VrfTurn DEF data_req_o
<1>4. Memory(r, gnt, rvalid)
  BY DEF Wired
<1> QED BY <1>3, <1>4 DEF Memory

(* The instruction sets out: its counters stand at its first registers.      *)
LEMMA LaneSetsOut ==
  ASSUME HeldInv, NEW gnt \in BOOLEAN, NEW rvalid \in Answers, NEW i, NEW l, NEW r,
         Wired(gnt, rvalid, i, l, r), vector_op, Lane(insn), vrf_state = "IDLE", insn.bytes # 0,
         insn' = insn, before' = before, mem = before, delay_state' = "none"
  PROVE  vrf_state' = "START" /\ LaneBegun'
<1>1. InvType /\ PortInv
  BY DEF HeldInv, PortInv
<1>2. /\ insn.name \in LaneNames /\ insn.bytes \in Nat /\ insn.bytes \div 4 \in 0 .. MaxIterations - 1
      /\ \A p \in Ports : regs[p] \in 0 .. 31
  BY <1>1, LaneFields
<1>3. i.op = Decoded /\ i.req /\ i.bytes = insn.bytes /\ Counters(i) /\ Fsm(i)
  BY <1>1, Wires, SwitchWires DEF Wired, VrfCycle
<1>4. i.op.slide_op = FALSE /\ ~slide_op
  BY <1>2, <1>3, LaneOps
<1>5. agu_load_o(i)
  BY <1>3 DEF agu_load_o
<1>6. VrfIdle(i)
  BY <1>3, FsmStates
<1>7. /\ vrf_state' = "START" /\ ~last_iteration_q' /\ curr_demux_sel' = 0
      /\ num_iterations_q' = iterations(i) /\ offset_q' = insn.bytes % 4
  BY <1>3, <1>5, <1>6 DEF VrfIdle, demux_in_idle
<1>8. iterations(i) = insn.bytes \div 4
  <2> DEFINE q == insn.bytes \div 4
  <2>1. iterations(i) = (q - 0) % MaxIterations
    BY <1>3, <1>4 DEF iterations
  <2>2. q \in 0 .. MaxIterations - 1
    BY <1>2
  <2> HIDE DEF q
  <2>3. (q - 0) % MaxIterations = q
    BY <2>2, MaxIterationsAssumption
  <2> QED BY <2>1, <2>3 DEF q
<1>9. mem' = before'
  BY <1>1, IdleMemory
<1>10. \A p \in Ports : addr_q'[p] = RegWords * (regs[p] % 8)
  BY <1>3, <1>4, <1>5 DEF Counters, AguLoad
<1>11. regs' = regs
  BY SameInstruction
<1>12. \A p \in Ports : CounterAt(p, 0)'
  <2> SUFFICES ASSUME NEW p \in Ports PROVE CounterAt(p, 0)'
    OBVIOUS
  <2> DEFINE m == regs[p] % 8
  <2>1. m \in 0 .. 7
    BY <1>2
  <2>2. addr_q'[p] = RegWords * m /\ (CounterAt(p, 0)' <=> addr_q'[p] = (RegWords * m + 0) % BankWords)
    BY <1>10, <1>11 DEF CounterAt
  <2> HIDE DEF m
  <2>3. RegWords * m \in Nat /\ RegWords * m < BankWords /\ BankWords \in Nat \ {0}
    <3>1. RegWords \in Nat /\ RegWords > 0 /\ BankWords = 8 * RegWords
      BY RegWordsAssumption DEF BankWords
    <3>2. RegWords * m <= RegWords * 7
      BY <2>1, <3>1
    <3> QED BY <2>1, <3>1, <3>2
  <2> DEFINE x == RegWords * m
  <2>4. x \in Nat /\ x < BankWords /\ BankWords \in Nat \ {0}
    BY <2>3
  <2> HIDE DEF x
  <2>5. (x + 0) % BankWords = x
    BY <2>4
  <2> QED BY <2>2, <2>5 DEF x
<1> QED BY <1>7, <1>8, <1>9, <1>12 DEF LaneBegun

(* A step of a lane instruction that is under way.                           *)
LEMMA LaneStep ==
  ASSUME PortInv, NEW gnt \in BOOLEAN, NEW rvalid \in Answers, NEW i, NEW l, NEW r,
         Wired(gnt, rvalid, i, l, r), vector_op, Lane(insn), NEW w, LaneAt(w)
  PROVE  IF vrf_state \in Writing /\ last_iteration_q
           THEN ~first /\ before' = mem' /\ before' = ISA!Effect(insn, before)
           ELSE insn' = insn /\ before' = before /\ \E v : LaneAt(v)'
<1>1. vrf_state \in Reading \cup Middle \cup Writing
  BY LaneFacts DEF Loop, Reading, Middle, Writing
<1>2. Reading \cap Writing = {} /\ Middle \cap Writing = {}
  BY DEF Reading, Middle, Writing
<1>3. CASE vrf_state \in Reading /\ first_iteration_q
  BY <1>2, <1>3, LaneFirst
<1>4. CASE vrf_state \in Reading /\ ~first_iteration_q
  BY <1>2, <1>4, LaneWriteBack
<1>5. CASE vrf_state \in Middle
  BY <1>2, <1>5, LaneGathers
<1>6. CASE vrf_state \in Writing /\ ~last_iteration_q
  BY <1>6, LaneCountsDown
<1>7. CASE vrf_state \in Writing /\ last_iteration_q
  BY <1>7, LaneEnds
<1> QED BY <1>1, <1>3, <1>4, <1>5, <1>6, <1>7

AbstractStep == ISA!Begin \/ ISA!Complete \/ UNCHANGED <<before, insn>>

(* What the stage does with the instruction.                                 *)
LEMMA StageSteps ==
  ASSUME InvType, NEW i, Stage(i)
  PROVE  /\ insn' \in Instructions \cup {None}
         /\ insn = None => before' = before
         /\ vector_op /\ ~first /\ vector_done_o(i) => before' = mem'
         /\ insn = None \/ (vector_op /\ ~first /\ vector_done_o(i)) => insn' = None \/ first'
         /\ vector_op /\ ~(~first /\ vector_done_o(i)) => insn' = insn /\ first' = FALSE /\ before' = before
<1>1. scenario \in Scenarios /\ (insn = None \/ insn \in Instructions)
  BY DEF InvType, TypeOK
<1>2. \A k \in DOMAIN scenario.program : scenario.program[k] \in Instructions
  BY <1>1 DEF Instructions
<1>3. insn' \in Instructions \cup {None}
  BY <1>1, <1>2 DEF Stage, vector_op
<1> QED BY <1>3 DEF Stage, vector_op

LEMMA StepLane ==
  ASSUME LaneInv, OnlyStoresAreLate, MemoryWaitsOnce,
         NEW gnt \in BOOLEAN, NEW rvalid \in Answers, Cycle(gnt, rvalid)
  PROVE  LaneInv' /\ (insn = None \/ Lane(insn) => AbstractStep)
<1>1. PICK i, l, r : Wired(gnt, rvalid, i, l, r)
  BY Edge DEF Wired
<1>2. HeldInv /\ PortInv /\ InvType /\ Progress
  BY DEF LaneInv, HeldInv, PortInv
<1>3. HeldInv'
  BY <1>2, StepHeld
<1>4. Plain(mem)'
  <2>1. Memory(r, gnt, rvalid) /\ Plain(mem)
    BY <1>1, <1>2 DEF Wired, Progress
  <2>2. Plain(mem')
    BY <2>1, MemoryIsPlain
  <2> QED BY <2>2 DEF Plain
<1> DEFINE done == vector_op /\ ~first /\ vector_done_o(i)
<1>5. /\ insn' \in Instructions \cup {None}
      /\ insn = None => before' = before
      /\ done => before' = mem'
      /\ insn = None \/ done => insn' = None \/ first'
      /\ vector_op /\ ~done => insn' = insn /\ first' = FALSE /\ before' = before
  <2>1. Stage(i)
    BY <1>1 DEF Wired
  <2> QED BY <1>2, <2>1, StageSteps
<1>6. vrf_state # "IDLE" => vector_op /\ ~first
  BY <1>2 DEF PortInv, Sequencing
<1> HIDE DEF done
<1>7. ASSUME insn' = None \/ first', mem' = before'
      PROVE  Progress'
  BY <1>4, <1>7 DEF Progress, vector_op
<1>8. ASSUME vector_op, ~done, ~Lane(insn)
      PROVE  Progress'
  <2>1. insn' = insn /\ first' = FALSE
    BY <1>5, <1>8
  <2>2. ~Lane(insn)' /\ vector_op'
    BY <1>8, <2>1 DEF Lane, vector_op, InItsBank, Apart, Sources, Words
  <2> QED BY <1>4, <2>1, <2>2 DEF Progress, vector_op
<1>9. ASSUME vector_op, ~done, Lane(insn),
             /\ vrf_state' = "IDLE" => mem' = before' /\ insn.bytes = 0
             /\ vrf_state' = "START" => LaneBegun'
             /\ vrf_state' \notin {"IDLE", "START"} => \E w : LaneAt(w)'
      PROVE  Progress'
  <2>1. insn' = insn /\ first' = FALSE /\ before' = before /\ vector_op'
    BY <1>5, <1>9 DEF vector_op
  <2>2. \A w : LaneAt(w)' => w \in 0 .. Words(insn')
    BY DEF LaneAt, Place
  <2> QED BY <1>4, <1>9, <2>1, <2>2 DEF Progress, vector_op
<1>10. i.req = vector_op /\ i.bytes = IF vector_op THEN insn.bytes ELSE 0
  <2>1. i = VrfInput(gnt, rvalid)
    BY <1>1 DEF Wired
  <2> QED BY <2>1, Wires
<1>11. CASE insn = None
  <2>1. vrf_state = "IDLE" /\ mem = before
    BY <1>2, <1>6, <1>11 DEF vector_op, Progress
  <2>2. mem' = before' /\ before' = before
    BY <1>1, <1>2, <1>5, <1>11, <2>1, IdleMemory
  <2>3. Progress'
    BY <1>5, <1>7, <1>11, <2>2
  <2>4. AbstractStep
    BY <1>5, <1>11, <2>2 DEF AbstractStep, ISA!Begin, None
  <2> QED BY <1>3, <2>3, <2>4 DEF LaneInv
<1>12. CASE vector_op /\ ~Lane(insn)
  <2>1. done => Progress'
    BY <1>5, <1>7
  <2>2. Progress'
    BY <1>8, <1>12, <2>1
  <2> QED BY <1>3, <1>12, <2>2 DEF LaneInv, vector_op
<1>13. CASE vector_op /\ Lane(insn) /\ vrf_state = "IDLE"
  <2>1. mem = before /\ (~first => insn.bytes = 0)
    BY <1>2, <1>13 DEF Progress
  <2>2. mem' = mem
    BY <1>1, <1>2, <1>13, IdleMemory
  <2>3. done <=> ~first /\ insn.bytes = 0
    <3>1. i.req /\ i.bytes = insn.bytes
      BY <1>13, <1>10
    <3> QED BY <1>13, <3>1 DEF done, vector_done_o, lsu_answered
  <2>4. CASE done
    <3>1. before' = before /\ mem' = before'
      BY <1>5, <2>1, <2>2, <2>4
    <3>2. ISA!Effect(insn, before) = before
      <4>1. /\ insn.name \in LaneNames /\ insn.vd \in Nat /\ insn.bytes = 0 /\ insn.bytes \in Nat /\ Plain(before)
            /\ insn.offset \in Nat /\ From(insn) = 0 /\ Ends(insn) = 0
        BY <1>2, <1>13, <2>1, <2>3, <2>4, LaneFields DEF Progress
      <4> QED BY <4>1, PartialAll, PartialNone
    <3>3. AbstractStep
      BY <1>5, <1>13, <3>1, <3>2 DEF AbstractStep, ISA!Complete, None, vector_op
    <3>4. Progress'
      BY <1>5, <1>7, <2>4, <3>1
    <3> QED BY <1>3, <3>3, <3>4 DEF LaneInv
  <2>5. CASE ~done
    <3>1. insn' = insn /\ before' = before
      BY <1>5, <1>13, <2>5
    <3>2. AbstractStep
      BY <3>1 DEF AbstractStep
    <3>3. CASE insn.bytes = 0
      <4>1. vrf_state' = "IDLE"
        <5>1. Fsm(i) /\ i.bytes = insn.bytes
          <6>1. Fsm(i)
            BY <1>1 DEF Wired, VrfCycle
          <6> QED BY <1>13, <1>10, <6>1
        <5>2. VrfIdle(i) /\ ~agu_load_o(i)
          BY <1>13, <3>3, <5>1, FsmStates DEF agu_load_o
        <5> QED BY <1>13, <5>2 DEF VrfIdle
      <4>2. Progress'
        BY <1>9, <1>13, <2>1, <2>2, <2>5, <3>1, <3>3, <4>1
      <4> QED BY <1>3, <3>2, <4>2 DEF LaneInv
    <3>4. CASE insn.bytes # 0
      <4>1. delay_state' = "none"
        <5>1. delay_state = "none"
          BY <1>2, <1>13 DEF HeldInv, Delayed, InvType, VrfRegs
        <5>2. DelayFsm(i)
          BY <1>1 DEF Wired, VrfCycle
        <5> QED BY <1>13, <5>1, <5>2 DEF DelayFsm, delayed, write_delayed, read_delayed, store_ready
      <4>2. vrf_state' = "START" /\ LaneBegun'
        BY <1>1, <1>2, <1>13, <2>1, <3>1, <3>4, <4>1, LaneSetsOut
      <4>3. Progress'
        BY <1>9, <1>13, <2>5, <4>2
      <4> QED BY <1>3, <3>2, <4>3 DEF LaneInv
    <3> QED BY <3>3, <3>4
  <2> QED BY <2>4, <2>5
<1>14. CASE vector_op /\ Lane(insn) /\ vrf_state = "START"
  <2>1. LaneBegun /\ Plain(mem)
    BY <1>2, <1>6, <1>14 DEF Progress
  <2>2. insn' = insn /\ before' = before /\ IF gnt THEN LaneAt(0)' ELSE LaneBegun' /\ vrf_state' = "START"
    BY <1>1, <1>2, <1>14, <2>1, LaneStarts
  <2>3. ~done
    BY <1>14 DEF done, vector_done_o, lsu_answered
  <2>4. LaneAt(0)' => vrf_state' \notin {"IDLE", "START"}
    BY DEF LaneAt, Place, Loop
  <2>5. Progress'
    BY <1>9, <1>14, <2>2, <2>3, <2>4
  <2>6. AbstractStep
    BY <2>2 DEF AbstractStep
  <2> QED BY <1>3, <2>5, <2>6 DEF LaneInv
<1>15. CASE vector_op /\ Lane(insn) /\ vrf_state \notin {"IDLE", "START"}
  <2>1. PICK w \in 0 .. Words(insn) : LaneAt(w)
    BY <1>2, <1>6, <1>15 DEF Progress
  <2>2. IF vrf_state \in Writing /\ last_iteration_q
           THEN ~first /\ before' = mem' /\ before' = ISA!Effect(insn, before)
           ELSE insn' = insn /\ before' = before /\ \E v : LaneAt(v)'
    BY <1>1, <1>2, <1>15, <2>1, LaneStep
  <2>3. done <=> vrf_state \in Writing /\ last_iteration_q
    <3>1. vrf_state \in Loop
      BY <2>1 DEF LaneAt, Place
    <3> QED BY <1>6, <1>15, <3>1 DEF done, vector_done_o, lsu_answered, Loop, Writing
  <2>4. CASE done
    <3>1. AbstractStep
      BY <1>5, <1>15, <2>2, <2>3, <2>4 DEF AbstractStep, ISA!Complete, None, vector_op
    <3>2. Progress'
      BY <1>5, <1>7, <2>4
    <3> QED BY <1>3, <3>1, <3>2 DEF LaneInv
  <2>5. CASE ~done
    <3>1. insn' = insn /\ before' = before /\ \E v : LaneAt(v)'
      BY <2>2, <2>3, <2>5
    <3>2. \A v : LaneAt(v)' => vrf_state' \notin {"IDLE", "START"}
      BY DEF LaneAt, Place, Loop
    <3>3. Progress'
      BY <1>9, <1>15, <2>5, <3>1, <3>2
    <3> QED BY <1>3, <3>1, <3>3 DEF LaneInv, AbstractStep
  <2> QED BY <2>4, <2>5
<1> QED BY <1>11, <1>12, <1>13, <1>14, <1>15 DEF vector_op

LEMMA InitLane == Init => LaneInv
<1> SUFFICES ASSUME Init PROVE LaneInv
  OBVIOUS
<1>1. HeldInv
  BY InitHeld
<1>2. mem = <<>> /\ before = <<>> /\ insn = None
  BY DEF Init
<1>3. Plain(<<>>)
  <2>1. <<>> \in Seq(Nat)
    OBVIOUS
  <2>2. <<>> \in [1 .. Len(<<>>) -> Nat]
    BY <2>1
  <2> QED BY <2>2 DEF Plain
<1> QED BY <1>1, <1>2, <1>3 DEF LaneInv, Progress, vector_op

LEMMA StutterLane ==
  ASSUME LaneInv, UNCHANGED vars
  PROVE  LaneInv'
<1>1. HeldInv'
  BY StutterHeld DEF LaneInv
<1>2. /\ UNCHANGED <<vrf_state, num_iterations_q, offset_q, first_iteration_q, last_iteration_q, curr_demux_sel>>
      /\ UNCHANGED <<rs1_q, rs2_q, rs3_q, rd_q, delay_state, addr_q, bus, mem, before, insn, first>>
  BY DEF vars, vrfVars
<1>3. /\ P1' = P1 /\ P2' = P2 /\ Loop' = Loop /\ regs' = regs
      /\ TwoSources' <=> TwoSources
      /\ ThreeReads' <=> ThreeReads
      /\ mult_ops' <=> mult_ops
      /\ vector_op' <=> vector_op
      /\ \A j : Source1(j)' = Source1(j) /\ Source2(j)' = Source2(j) /\ Source3(j)' = Source3(j)
  BY <1>2, SameLane
<1>4. \A w : LaneAt(w) => LaneAt(w)'
  <2> SUFFICES ASSUME NEW w, LaneAt(w) PROVE LaneAt(w)'
    OBVIOUS
  <2>1. Place(w)'
    BY <1>2, <1>3 DEF LaneAt, Place
  <2>2. Counts(w)'
    <3>1. Asked1(w)' = Asked1(w) /\ Asked2(w)' = Asked2(w)
      BY <1>2 DEF Asked1, Asked2
    <3> QED BY <1>2, <1>3, <3>1 DEF LaneAt, Counts, CounterAt
  <2>3. LaneData(w)'
    <3>1. Q1' = Q1 /\ Q2' = Q2
      BY <1>2, <1>3 DEF Q1, Q2
    <3>2. HasOperands(w)' <=> HasOperands(w)
      BY <1>2, <1>3, <3>1 DEF HasOperands
    <3>3. /\ Arrives(Q2, Source2(w))' <=> Arrives(Q2, Source2(w))
          /\ Arrives(rs3_q, Source3(w))' <=> Arrives(rs3_q, Source3(w))
          /\ OnBus(Source1(w))' <=> OnBus(Source1(w))
          /\ OnBus(Source1(w + 1))' <=> OnBus(Source1(w + 1))
      BY <1>2, <1>3, <3>1 DEF Arrives, OnBus
    <3>4. Source1(w + 1)' = Source1(w + 1)
      BY <1>3
    <3> QED BY <1>2, <1>3, <3>1, <3>2, <3>3, <3>4 DEF LaneAt, LaneData
  <2> QED BY <1>2, <2>1, <2>2, <2>3 DEF LaneAt
<1>5. LaneBegun => LaneBegun'
  BY <1>2, <1>3 DEF LaneBegun, CounterAt
<1>6. Lane(insn)' <=> Lane(insn)
  BY <1>2 DEF Lane, InItsBank, Apart, Sources, Words
<1>7. Plain(mem)'
  BY <1>2 DEF LaneInv, Progress, Plain
<1>8. vector_op' /\ ~first' /\ Lane(insn)' =>
       /\ vrf_state' = "IDLE" => mem' = before' /\ insn'.bytes = 0
       /\ vrf_state' = "START" => LaneBegun'
       /\ vrf_state' \notin {"IDLE", "START"} => \E w \in 0 .. Words(insn') : LaneAt(w)'
  BY <1>2, <1>3, <1>4, <1>5, <1>6 DEF LaneInv, Progress
<1>9. Progress'
  BY <1>2, <1>7, <1>8 DEF LaneInv, Progress
<1> QED BY <1>1, <1>9 DEF LaneInv

THEOREM LaneInvariance == OnlyStoresAreLate /\ MemoryWaitsOnce => (Spec => []LaneInv)
<1> SUFFICES ASSUME OnlyStoresAreLate, MemoryWaitsOnce PROVE Spec => []LaneInv
  OBVIOUS
<1>1. LaneInv /\ [Next]_vars => LaneInv'
  BY StepLane, StutterLane DEF Next
<1> QED BY <1>1, InitLane, PTL DEF Spec

(* Whatever runs before and after it, an addition, a multiply-accumulate or  *)
(* a move of registers writes the whole of its destination, nothing beside   *)
(* it, with the values its sources had when it began: no word is taken or    *)
(* written by way of a counter, an operand register or the delay of a        *)
(* refused write that is not its own.                                        *)
THEOREM LanesTakeEffect ==
  OnlyStoresAreLate /\ MemoryWaitsOnce =>
    (Spec => [][insn = None \/ Lane(insn) => [ISA!Begin \/ ISA!Complete]_<<before, insn>>]_vars)
<1> SUFFICES ASSUME OnlyStoresAreLate, MemoryWaitsOnce
             PROVE  Spec => [][insn = None \/ Lane(insn) => [ISA!Begin \/ ISA!Complete]_<<before, insn>>]_vars
  OBVIOUS
<1>1. LaneInv /\ [Next]_vars =>
        [insn = None \/ Lane(insn) => [ISA!Begin \/ ISA!Complete]_<<before, insn>>]_vars
  BY StepLane DEF Next, AbstractStep
<1> QED BY <1>1, LaneInvariance, PTL DEF Spec
=============================================================================
