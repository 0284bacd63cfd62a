------------------------- MODULE LoadStoreUnitProofs -------------------------
(***************************************************************************)
(* Proofs about LoadStoreUnit, for every size of the memory, every set of  *)
(* loads and stores a program may execute and both bus behaviours.         *)
(***************************************************************************)
EXTENDS LoadStoreUnit, SequenceTheorems, TLAPS

USE LoadStoreUnitAssumption

-----------------------------------------------------------------------------
(* Addresses: the bytes of an access lie in one word or in two             *)

LEMMA AddType ==
  ASSUME NEW a \in Addr, NEW b \in Nat
  PROVE  Add(a, b) \in Addr
  BY DEF Add, Addr

LEMMA AddSmall ==
  ASSUME NEW a \in Addr, NEW i \in 0 .. 4
  PROVE  Add(a, i) = IF a + i < MemBytes THEN a + i ELSE (a + i) - MemBytes
  <1> DEFINE x == a + i
  <1>1. MemBytes >= 4
    OBVIOUS
  <1>2. x \in Nat /\ x < MemBytes + MemBytes
    BY <1>1 DEF Addr
  <1> HIDE DEF x
  <1>3. CASE x < MemBytes
    <2>1. x % MemBytes = x
      BY <1>2, <1>3, SMTT(30)
    <2> QED BY <2>1, <1>3 DEF Add, x
  <1>4. CASE ~(x < MemBytes)
    <2>1. x = MemBytes + (x - MemBytes) /\ x - MemBytes \in 0 .. MemBytes - 1
      BY <1>2, <1>4
    <2>2. x % MemBytes = x - MemBytes
      BY <2>1, SMTT(30)
    <2> QED BY <2>2, <1>4 DEF Add, x
  <1> QED BY <1>3, <1>4

LEMMA WordOffset ==
  ASSUME NEW x \in Nat
  PROVE  /\ x = 4 * WordOf(x) + Offset(x)
         /\ WordOf(x) \in Nat /\ Offset(x) \in Lane
  BY DEF WordOf, Offset, Lane

LEMMA WordOffsetUnique ==
  ASSUME NEW w \in Nat, NEW o \in Lane
  PROVE  WordOf(4 * w + o) = w /\ Offset(4 * w + o) = o
  BY DEF WordOf, Offset, Lane

(* The lane of byte i of an access at a, and the word it lies in.          *)
LaneOf(a, i) == IF Offset(a) + i < 4 THEN Offset(a) + i ELSE (Offset(a) + i) - 4

WordWith(a, i) == IF Offset(a) + i < 4 THEN WordOf(a) ELSE WordOf(Add(a, 4))

LEMMA BytePlace ==
  ASSUME NEW a \in Addr, NEW i \in Lane
  PROVE  /\ Offset(Add(a, 4)) = Offset(a)
         /\ Offset(a) \in Lane /\ LaneOf(a, i) \in Lane /\ WordWith(a, i) \in Nat
         /\ Add(a, i) \in Addr
         /\ Add(a, i) = 4 * WordWith(a, i) + LaneOf(a, i)
         /\ WordOf(Add(a, i)) = WordWith(a, i) /\ Offset(Add(a, i)) = LaneOf(a, i)
  <1> DEFINE o == Offset(a)
             w == WordOf(a)
             n == MemBytes \div 4
  <1>1. a \in Nat /\ a < MemBytes /\ a = 4 * w + o /\ w \in Nat /\ o \in 0 .. 3
    BY WordOffset DEF Addr, Lane
  <1>2. n \in Nat /\ MemBytes = 4 * n /\ n > 0
    OBVIOUS
  <1> HIDE DEF o, w, n
  <1> DEFINE k == IF w + 1 < n THEN w + 1 ELSE (w + 1) - n
  <1>3. k \in Nat /\ o \in Lane
    BY <1>1, <1>2 DEF Lane
  <1>4. Add(a, 4) = 4 * k + o
    BY <1>1, <1>2, AddSmall
  <1> HIDE DEF k
  <1>5. Offset(Add(a, 4)) = o /\ WordOf(Add(a, 4)) = k
    BY <1>3, <1>4, WordOffsetUnique
  <1> USE DEF k
  <1> DEFINE l == IF o + i < 4 THEN o + i ELSE (o + i) - 4
             v == IF o + i < 4 THEN w ELSE k
  <1>6. LaneOf(a, i) = l /\ WordWith(a, i) = v
    BY <1>5 DEF LaneOf, WordWith, o, w
  <1>7. i \in 0 .. 3 /\ Add(a, i) = IF a + i < MemBytes THEN a + i ELSE (a + i) - MemBytes
    <2>1. i \in 0 .. 3 /\ i \in 0 .. 4
      BY DEF Lane
    <2> QED BY <2>1, AddSmall
  <1>8. l \in 0 .. 3 /\ v \in Nat /\ Add(a, i) = 4 * v + l
    <2>1. CASE o + i < 4
      BY <2>1, <1>1, <1>2, <1>7
    <2>2. CASE ~(o + i < 4) /\ w + 1 < n
      BY <2>2, <1>1, <1>2, <1>7
    <2>3. CASE ~(o + i < 4) /\ ~(w + 1 < n)
      BY <2>3, <1>1, <1>2, <1>7
    <2> QED BY <2>1, <2>2, <2>3
  <1> HIDE DEF l, v
  <1>9. WordOf(Add(a, i)) = v /\ Offset(Add(a, i)) = l
    BY <1>8, WordOffsetUnique DEF Lane
  <1>10. Add(a, i) \in Addr
    BY <1>7, AddType
  <1> QED
    BY <1>1, <1>5, <1>6, <1>8, <1>9, <1>10 DEF o, Lane

(* The bytes of an access are at different addresses.                      *)
LEMMA BytesDiffer ==
  ASSUME NEW a \in Addr, NEW i \in Lane, NEW j \in Lane, Add(a, i) = Add(a, j)
  PROVE  i = j
  <1>1. LaneOf(a, i) = LaneOf(a, j) /\ Offset(a) \in Lane
    BY BytePlace
  <1> QED
    BY <1>1 DEF LaneOf, Lane

-----------------------------------------------------------------------------
(* What an access means                                                    *)

LEMMA AccessFacts ==
  ASSUME NEW a \in AccessType
  PROVE  /\ Start(a) \in Addr
         /\ a.type \in {"word", "half", "byte"}
         /\ Size(a) = IF a.type = "word" THEN 4 ELSE IF a.type = "half" THEN 2 ELSE 1
         /\ 0 .. Size(a) - 1 \subseteq Lane
         /\ a.base \in Addr /\ a.off \in Addr /\ a.useincr \in BOOLEAN /\ a.we \in BOOLEAN
         /\ a.ext \in {"zero", "ones", "sign"}
  <1>1. /\ a.base \in Addr /\ a.off \in Addr /\ a.useincr \in BOOLEAN /\ a.we \in BOOLEAN
        /\ a.type \in {"word", "half", "byte"} /\ a.ext \in {"zero", "ones", "sign"}
    BY DEF AccessType
  <1>2. Start(a) \in Addr
    <2>1. a.off \in Nat
      BY <1>1 DEF Addr
    <2> QED BY <1>1, <2>1, AddType DEF Start
  <1>3. 0 .. Size(a) - 1 \subseteq Lane
    BY <1>1 DEF Size, Lane
  <1> QED BY <1>1, <1>2, <1>3 DEF Size

LEMMA StoredAt ==
  ASSUME NEW a \in AccessType, NEW m
  PROVE  /\ \A i \in 0 .. Size(a) - 1 : Stored(m, a)[Add(Start(a), i)] = RegByte(i)
         /\ \A x \in Addr : (\A i \in 0 .. Size(a) - 1 : x # Add(Start(a), i))
                              => Stored(m, a)[x] = m[x]
         /\ Stored(m, a) = [x \in Addr |-> Stored(m, a)[x]]
  <1>1. ASSUME NEW i \in 0 .. Size(a) - 1
        PROVE  Stored(m, a)[Add(Start(a), i)] = RegByte(i)
    <2> DEFINE x == Add(Start(a), i)
               j == CHOOSE k \in 0 .. Size(a) - 1 : x = Add(Start(a), k)
    <2>1. x \in Addr /\ i \in Lane
      BY AccessFacts, BytePlace
    <2>2. j \in 0 .. Size(a) - 1 /\ x = Add(Start(a), j)
      OBVIOUS
    <2>3. j = i
      BY <2>1, <2>2, AccessFacts, BytesDiffer
    <2> QED BY <2>1, <2>3 DEF Stored
  <1>2. ASSUME NEW x \in Addr, \A i \in 0 .. Size(a) - 1 : x # Add(Start(a), i)
        PROVE  Stored(m, a)[x] = m[x]
    BY <1>2 DEF Stored
  <1>3. Stored(m, a) = [x \in Addr |-> Stored(m, a)[x]]
    BY DEF Stored
  <1> QED BY <1>1, <1>2, <1>3

(* A misaligned access needs a second transaction, four bytes on.          *)
IsSplit(a) == \/ a.type = "word" /\ Offset(Start(a)) # 0
              \/ a.type = "half" /\ Offset(Start(a)) = 3

FirstByte(a, i) == Offset(Start(a)) + i < 4

LEMMA SplitBytes ==
  ASSUME NEW a \in AccessType, ~IsSplit(a), NEW i \in 0 .. Size(a) - 1
  PROVE  FirstByte(a, i)
  <1>1. Offset(Start(a)) \in Lane
    <2>1. Start(a) \in Nat
      BY AccessFacts DEF Addr
    <2> QED BY <2>1, WordOffset
  <1> QED
    BY <1>1, AccessFacts DEF IsSplit, FirstByte, Lane

-----------------------------------------------------------------------------
(* The words an access reads, and the value assembled from them            *)

(* The bytes a memory holds: initial ones and those of stored registers.   *)
MemByte == 0 .. MemBytes + 3

WordAt(m, w) == [i \in Lane |-> m[4 * w + i]]

ExtendAs(ext, b) == IF ext = "zero" THEN Zero ELSE IF ext = "ones" THEN Ones ELSE SignOf(b)

Assembled(type, ext, o, q, r) ==
  IF type = "word"
  THEN [i \in Lane |-> IF o = 0 THEN r[i]
                       ELSE IF i + o \in Lane THEN q[i + o] ELSE r[(i + o) - 4]]
  ELSE IF type = "half"
  THEN LET low  == IF o = 3 THEN q[3] ELSE r[o]
           high == IF o = 3 THEN r[0] ELSE r[o + 1]
       IN  [i \in Lane |-> IF i = 0 THEN low ELSE IF i = 1 THEN high ELSE ExtendAs(ext, high)]
  ELSE [i \in Lane |-> IF i = 0 THEN r[o] ELSE ExtendAs(ext, r[o])]

LEMMA DataRDataExtIs ==
  DataRDataExt = Assembled(data_type_q, data_sign_ext_q, rdata_offset_q, rdata_q, RespData)
  BY DEF DataRDataExt, Assembled, ExtendAs, Extend

(* The alignment network puts the bytes of the access together.            *)
LEMMA LoadAssembled ==
  ASSUME NEW a \in AccessType, NEW m, NEW q,
         IsSplit(a) => q = WordAt(m, WordOf(Start(a))),
         NEW r, r = WordAt(m, IF IsSplit(a) THEN WordOf(Add(Start(a), 4))
                                            ELSE WordOf(Start(a)))
  PROVE  Assembled(a.type, a.ext, Offset(Start(a)), q, r) = LoadValue(m, a)
  <1> DEFINE s == Start(a)
             o == Offset(s)
  <1>1. s \in Addr /\ a.type \in {"word", "half", "byte"}
    BY AccessFacts
  <1>2. o \in 0 .. 3
    BY <1>1, WordOffset DEF Addr, Lane
  <1>3. ASSUME NEW i \in 0 .. 3
        PROVE  m[Add(s, i)] = m[4 * WordWith(s, i) + LaneOf(s, i)]
    BY <1>1, <1>3, BytePlace DEF Lane
  <1>4. ASSUME NEW i \in 0 .. 3, o + i < 4, ~IsSplit(a)
        PROVE  r[o + i] = m[Add(s, i)]
    <2>1. o + i \in Lane
      BY <1>2, <1>4 DEF Lane
    <2> QED BY <2>1, <1>3, <1>4 DEF WordAt, WordWith, LaneOf
  <1>5. ASSUME NEW i \in 0 .. 3, o + i < 4, IsSplit(a)
        PROVE  q[o + i] = m[Add(s, i)]
    <2>1. o + i \in Lane
      BY <1>2, <1>5 DEF Lane
    <2> QED BY <2>1, <1>3, <1>5 DEF WordAt, WordWith, LaneOf
  <1>6. ASSUME NEW i \in 0 .. 3, ~(o + i < 4), IsSplit(a)
        PROVE  r[(o + i) - 4] = m[Add(s, i)]
    <2>1. (o + i) - 4 \in Lane
      BY <1>2, <1>6 DEF Lane
    <2> QED BY <2>1, <1>3, <1>6 DEF WordAt, WordWith, LaneOf
  <1> DEFINE fill(b) == ExtendAs(a.ext, b)
             msb == m[Add(s, Size(a) - 1)]
  <1>7. LoadValue(m, a) = [i \in Lane |-> IF i < Size(a) THEN m[Add(s, i)] ELSE fill(msb)]
    BY DEF LoadValue, ExtendAs
  <1> DEFINE V == Assembled(a.type, a.ext, o, q, r)
  <1>8. ASSUME a.type = "word" PROVE V = LoadValue(m, a)
    <2>1. Size(a) = 4 /\ (IsSplit(a) <=> o # 0)
      BY <1>8 DEF Size, IsSplit
    <2>2. V = [i \in Lane |-> IF o = 0 THEN r[i]
                       ELSE IF i + o \in Lane THEN q[i + o] ELSE r[(i + o) - 4]]
      BY <1>8 DEF Assembled
    <2>3. ASSUME NEW i \in Lane
          PROVE  (IF o = 0 THEN r[i] ELSE IF i + o \in Lane THEN q[i + o] ELSE r[(i + o) - 4])
                   = m[Add(s, i)]
      <3>1. i \in 0 .. 3 /\ i + o = o + i
        BY <1>2 DEF Lane
      <3>2. CASE o = 0
        <4>1. o + i = i /\ o + i < 4
          BY <3>1, <3>2
        <4> QED BY <4>1, <3>1, <3>2, <1>4, <2>1
      <3>3. CASE o # 0 /\ o + i < 4
        <4>1. i + o \in Lane
          BY <3>1, <3>3, <1>2 DEF Lane
        <4> QED BY <4>1, <3>1, <3>3, <1>5, <2>1
      <3>4. CASE o # 0 /\ ~(o + i < 4)
        <4>1. i + o \notin Lane
          BY <3>1, <3>4, <1>2 DEF Lane
        <4> QED BY <4>1, <3>1, <3>4, <1>6, <2>1
      <3> QED BY <3>2, <3>3, <3>4
    <2>4. \A i \in Lane : i < Size(a)
      BY <2>1 DEF Lane
    <2> HIDE DEF V, o, s, msb, fill
    <2> QED BY <2>2, <2>3, <2>4, <1>7
  <1>9. ASSUME a.type = "half" PROVE V = LoadValue(m, a)
    <2>1. Size(a) = 2 /\ (IsSplit(a) <=> o = 3) /\ Size(a) - 1 = 1
      BY <1>9 DEF Size, IsSplit
    <2> DEFINE low  == IF o = 3 THEN q[3] ELSE r[o]
               high == IF o = 3 THEN r[0] ELSE r[o + 1]
    <2>2. V = [i \in Lane |-> IF i = 0 THEN low ELSE IF i = 1 THEN high ELSE fill(high)]
      BY <1>9 DEF Assembled
    <2>3. low = m[Add(s, 0)] /\ high = m[Add(s, 1)]
      <3>1. CASE o = 3
        <4>1. o + 0 = 3 /\ (o + 1) - 4 = 0 /\ o + 0 < 4 /\ ~(o + 1 < 4)
          BY <3>1
        <4> QED BY <4>1, <3>1, <2>1, <1>5, <1>6
      <3>2. CASE o # 3
        <4>1. o + 0 = o /\ o + 0 < 4 /\ o + 1 < 4
          BY <3>2, <1>2
        <4> QED BY <4>1, <3>2, <2>1, <1>4
      <3> QED BY <3>1, <3>2
    <2>4. msb = high
      BY <2>1, <2>3
    <2>5. \A i \in Lane : i < Size(a) <=> i = 0 \/ i = 1
      BY <2>1 DEF Lane
    <2> HIDE DEF V, o, s, msb, fill, low, high
    <2> QED BY <2>2, <2>3, <2>4, <2>5, <1>7
  <1>10. ASSUME a.type = "byte" PROVE V = LoadValue(m, a)
    <2>1. Size(a) = 1 /\ ~IsSplit(a) /\ Size(a) - 1 = 0
      BY <1>10 DEF Size, IsSplit
    <2>2. V = [i \in Lane |-> IF i = 0 THEN r[o] ELSE fill(r[o])]
      BY <1>10 DEF Assembled
    <2>3. r[o] = m[Add(s, 0)]
      <3>1. o + 0 = o /\ o + 0 < 4
        BY <1>2
      <3> QED BY <3>1, <2>1, <1>4
    <2>4. \A i \in Lane : i < Size(a) <=> i = 0
      BY <2>1 DEF Lane
    <2> HIDE DEF V, o, s, fill
    <2> QED BY <2>1, <2>2, <2>3, <2>4, <1>7
  <1> QED BY <1>1, <1>8, <1>9, <1>10

-----------------------------------------------------------------------------
(* The invariant                                                           *)

(* Memory and bus hold bytes that come from memory or from a register.     *)
TypeInv ==
  /\ TypeOK
  /\ mem \in [Addr -> MemByte] /\ amem \in [Addr -> MemByte]
  /\ bus \in Seq([Lane -> MemByte])

(* The address operands in EX are those of the access, in the second half  *)
(* of a misaligned one the address of the first and 4.  Only the first     *)
(* transaction writes the base register back.  The second outstanding      *)
(* transaction belongs to EX.                                              *)
Operands ==
  /\ DataReq => IF data_misaligned_ex
                THEN /\ alu_operand_a_ex = Start(acc) /\ alu_operand_b_ex = 4
                     /\ prepost_useincr_ex /\ IsSplit(acc)
                ELSE /\ alu_operand_a_ex = acc.base /\ alu_operand_b_ex = acc.off
                     /\ prepost_useincr_ex = acc.useincr
  /\ data_misaligned_ex => DataReq
  /\ regfile_alu_we_ex => DataReq /\ ~data_misaligned_ex
  /\ cnt_q = Len(bus)
  /\ cnt_q = 2 => DataReq

(* The bytes of the access in EX whose transaction has been granted.       *)
Performed(i) ==
  \/ data_misaligned_ex /\ FirstByte(acc, i)
  \/ cnt_q = 2 /\ (FirstByte(acc, i) <=> ~data_misaligned_ex)

StoreInv ==
  /\ StoresCorrect
  /\ DataReq /\ acc.we =>
       \A i \in 0 .. Size(acc) - 1 : Performed(i) => mem[Add(Start(acc), i)] = RegByte(i)

(* While a load is in EX, its granted halves are on the bus or in rdata_q; *)
(* what WB will return last is the value of program order.                 *)
LoadInv ==
  /\ regfile_we_lsu => cnt_q > 0
  /\ regfile_we_lsu /\ ~data_misaligned_ex => DataRDataExt = want_wb
  /\ data_misaligned_ex => (data_we_q <=> acc.we)
  /\ data_misaligned_ex /\ ~acc.we =>
       (IF cnt_q > 0 THEN bus[1] ELSE rdata_q) = WordAt(amem, WordOf(Start(acc)))
  /\ cnt_q = 2 /\ ~acc.we => bus[2] = WordAt(amem, TransAddr)

LSUInv == TypeInv /\ Operands /\ StoreInv /\ LoadInv /\ RequestStable

-----------------------------------------------------------------------------
(* The wires of a cycle                                                    *)

LEMMA TypeFacts ==
  ASSUME TypeInv
  PROVE  /\ ex \in {"bubble", "alu", "branch", "lsu"}
         /\ acc \in Accesses /\ acc \in AccessType
         /\ cnt_q \in {0, 1, 2}
         /\ data_misaligned_ex \in BOOLEAN /\ prepost_useincr_ex \in BOOLEAN
         /\ data_we_q \in BOOLEAN /\ regfile_we_lsu \in BOOLEAN
         /\ regfile_alu_we_ex \in BOOLEAN /\ PULP_OBI \in BOOLEAN
  BY DEF TypeInv, TypeOK, DEPTH

LEMMA InputFacts ==
  ASSUME NEW c \in Input
  PROVE  /\ c.id \in {"bubble", "alu", "branch", "lsu"}
         /\ c.acc \in Accesses /\ c.acc \in AccessType
         /\ c.busy \in BOOLEAN /\ c.gnt \in BOOLEAN /\ c.resp \in BOOLEAN
  <1>1. AnAccess \in Accesses
    BY DEF AnAccess
  <1> QED BY <1>1 DEF Input

(* EX and the LSU let a load or store go in the same cycle, in which at    *)
(* most the transaction just granted or the younger one stays outstanding. *)
LEMMA Ready ==
  ASSUME TypeInv, Operands, NEW c \in Input, Legal(c)
  PROVE  /\ c.resp => cnt_q > 0
         /\ Accepted(c) => DataReq /\ cnt_q < 2
         /\ Accepted(c) \in BOOLEAN
         /\ CtrlUpdate(c) <=> /\ DataReq
                              /\ \/ cnt_q = 0 /\ Accepted(c)
                                 \/ cnt_q = 1 /\ c.resp /\ Accepted(c)
                                 \/ cnt_q = 2 /\ c.resp
         /\ DataReq => (EXReady(c) <=> CtrlUpdate(c)) /\ (EXDone(c) <=> CtrlUpdate(c))
         /\ ~DataReq => ~CtrlUpdate(c) /\ ~Misaligned /\ ~data_misaligned_ex
         /\ EXDone(c) => LsuReadyWB(c)
         /\ LsuReadyWB(c) <=> cnt_q = 0 \/ c.resp
  <1>1. c.resp => cnt_q > 0
    <2>1. bus \in Seq([Lane -> MemByte]) /\ cnt_q = Len(bus)
      BY DEF TypeInv, Operands
    <2> QED BY <2>1, EmptySeq DEF Legal
  <1>2. Accepted(c) => DataReq /\ cnt_q < 2
    BY DEF Accepted, TransValid, DEPTH
  <1>3. Accepted(c) \in BOOLEAN
    BY InputFacts DEF Accepted, TransValid
  <1>4. c.busy => ex = "alu"
    BY DEF Legal
  <1>5. cnt_q \in {0, 1, 2} /\ (data_misaligned_ex => DataReq)
    BY TypeFacts DEF Operands
  <1> QED
    BY <1>1, <1>2, <1>3, <1>4, <1>5
       DEF CtrlUpdate, LsuReadyEX, LsuReadyWB, EXReady, EXDone, EXValid, DataReq, Misaligned

(* The address in EX is that of the half the access is in. *)
LEMMA AddressIs ==
  ASSUME TypeInv, Operands, DataReq
  PROVE  /\ DataAddr = IF data_misaligned_ex THEN Add(Start(acc), 4) ELSE Start(acc)
         /\ Offset(DataAddr) = Offset(Start(acc))
         /\ Offset(DataAddr) \in Lane /\ DataAddr \in Addr
         /\ Misaligned <=> ~data_misaligned_ex /\ IsSplit(acc)
         /\ TransAddr = WordOf(DataAddr)
  <1>1. acc \in AccessType /\ Start(acc) \in Addr
    BY TypeFacts, AccessFacts
  <1>2. DataAddr = IF data_misaligned_ex THEN Add(Start(acc), 4) ELSE Start(acc)
    BY DEF Operands, DataAddr, AluResult, Start
  <1>3. /\ Offset(Add(Start(acc), 4)) = Offset(Start(acc))
        /\ Offset(Start(acc)) \in Lane /\ Add(Start(acc), 4) \in Addr
    <2>1. 0 \in Lane
      BY DEF Lane
    <2> QED BY <1>1, <2>1, BytePlace, AddType
  <1>4. Misaligned <=> ~data_misaligned_ex /\ IsSplit(acc)
    BY <1>2 DEF Misaligned, IsSplit
  <1> QED BY <1>1, <1>2, <1>3, <1>4 DEF TransAddr

(* The outstanding transactions: an answer removes the oldest, a grant     *)
(* adds the word in memory.                                                *)
LEMMA BusEdge ==
  ASSUME TypeInv, Operands, NEW c \in Input, Cycle(c)
  PROVE  /\ bus' \in Seq([Lane -> MemByte])
         /\ Len(bus') = (cnt_q + (IF Accepted(c) THEN 1 ELSE 0)) - (IF c.resp THEN 1 ELSE 0)
         /\ cnt_q' = Len(bus')
         /\ c.resp => RespData = bus[1]
         /\ \A i \in 1 .. cnt_q : ~c.resp => bus'[i] = bus[i]
         /\ c.resp /\ cnt_q = 2 => bus'[1] = bus[2]
         /\ Accepted(c) => bus'[Len(bus')] = WordAt(mem, TransAddr)
         /\ Accepted(c) => TransAddr \in Nat
  <1> DEFINE left == IF c.resp THEN Tail(bus) ELSE bus
             word == WordAt(mem, TransAddr)
             ans == IF c.resp THEN 1 ELSE 0
  <1>1. /\ bus \in Seq([Lane -> MemByte]) /\ cnt_q = Len(bus) /\ cnt_q \in {0, 1, 2}
        /\ c.resp => bus # <<>> /\ cnt_q > 0
    BY TypeFacts, Ready DEF TypeInv, Operands, Cycle, Legal
  <1>2. /\ left \in Seq([Lane -> MemByte]) /\ Len(left) = cnt_q - ans
        /\ \A i \in 1 .. cnt_q : ~c.resp => left[i] = bus[i]
        /\ c.resp /\ cnt_q = 2 => left[1] = bus[2]
        /\ c.resp => RespData = bus[1]
    BY <1>1, HeadTailProperties DEF RespData
  <1>3. bus' = IF Accepted(c) THEN Append(left, word) ELSE left
    BY DEF Cycle, MemoryEdge, WordAt
  <1>4. Accepted(c) => word \in [Lane -> MemByte] /\ TransAddr \in Nat
    <2> SUFFICES ASSUME Accepted(c) PROVE word \in [Lane -> MemByte] /\ TransAddr \in Nat
      OBVIOUS
    <2>1. DataReq
      BY DEF Accepted, TransValid
    <2>2. DataAddr \in 0 .. MemBytes - 1 /\ TransAddr = WordOf(DataAddr)
      BY <2>1, AddressIs DEF Addr
    <2>3. \A i \in Lane : 4 * TransAddr + i \in Addr
      BY <2>2 DEF WordOf, Lane, Addr
    <2>4. TransAddr \in Nat
      BY <2>2, WordOffset
    <2> QED BY <2>3, <2>4 DEF TypeInv, WordAt
  <1>5. cnt_q' = (cnt_q + (IF Accepted(c) THEN 1 ELSE 0)) - ans
    BY DEF Cycle, EXWBEdge
  <1> HIDE DEF left, word
  <1>6. CASE Accepted(c)
    <2>1. bus' = Append(left, word) /\ word \in [Lane -> MemByte]
      BY <1>3, <1>4, <1>6
    <2>2. /\ bus' \in Seq([Lane -> MemByte])
          /\ Len(bus') = (cnt_q - ans) + 1
          /\ \A i \in 1 .. cnt_q - ans : bus'[i] = left[i]
          /\ bus'[(cnt_q - ans) + 1] = word
      BY <2>1, <1>2, AppendProperties
    <2> QED BY <2>2, <1>1, <1>2, <1>4, <1>5, <1>6 DEF word
  <1>7. CASE ~Accepted(c)
    <2>1. bus' = left
      BY <1>3, <1>7
    <2> QED BY <2>1, <1>1, <1>2, <1>5, <1>7
  <1> QED BY <1>6, <1>7

-----------------------------------------------------------------------------
(* The initial state, and the three things EX can do in a cycle            *)

LEMMA InitLSUInv == Init => LSUInv
  <1> SUFFICES ASSUME Init PROVE LSUInv
    OBVIOUS
  <1>1. /\ ex = "bubble" /\ data_misaligned_ex = FALSE /\ regfile_alu_we_ex = FALSE
        /\ cnt_q = 0 /\ bus = <<>> /\ regfile_we_lsu = FALSE /\ refused = <<>>
        /\ mem = [a \in Addr |-> a] /\ amem = mem
    BY DEF Init
  <1>2. ~DataReq
    BY <1>1 DEF DataReq
  <1>3. mem \in [Addr -> MemByte] /\ mem \in [Addr -> Byte]
    BY <1>1 DEF Addr, MemByte, Byte
  <1>4. bus \in Seq([Lane -> MemByte]) /\ bus \in Seq(Word32) /\ Len(bus) = 0
    BY <1>1
  <1>5. acc \in Accesses
    BY DEF Init, AnAccess
  <1>6. NoData \in Word32
    BY DEF NoData, Word32, Byte, Zero
  <1>7. 0 \in Addr /\ 0 \in Lane /\ 0 \in 0 .. DEPTH
    BY DEF Addr, Lane, DEPTH
  <1>8. TypeOK
    BY <1>1, <1>3, <1>4, <1>5, <1>6, <1>7 DEF Init, TypeOK
  <1>9. TypeInv
    BY <1>1, <1>3, <1>4, <1>8 DEF TypeInv
  <1>10. Operands
    BY <1>1, <1>2, <1>4 DEF Operands
  <1>11. StoreInv
    BY <1>1, <1>2 DEF StoreInv, StoresCorrect
  <1>12. LoadInv
    BY <1>1 DEF LoadInv
  <1>13. RequestStable
    BY <1>1 DEF RequestStable
  <1> QED BY <1>9, <1>10, <1>11, <1>12, <1>13 DEF LSUInv

Keeps(c) == ~CtrlUpdate(c) /\ UNCHANGED <<exVars, amem>>

Splits(c) == CtrlUpdate(c) /\ DataReq /\ ~data_misaligned_ex /\ IsSplit(acc) /\ SecondHalfEdge

Issues(c) ==
  /\ DataReq => CtrlUpdate(c) /\ (data_misaligned_ex \/ ~IsSplit(acc))
  /\ IssueEdge(c)

LEMMA EXEdge ==
  ASSUME TypeInv, Operands, NEW c \in Input, Cycle(c)
  PROVE  Keeps(c) \/ Splits(c) \/ Issues(c)
  <1>1. /\ DataReq => (EXReady(c) <=> CtrlUpdate(c))
        /\ ~DataReq => ~CtrlUpdate(c) /\ ~Misaligned
    BY Ready DEF Cycle
  <1>2. DataReq => (Misaligned <=> ~data_misaligned_ex /\ IsSplit(acc))
    BY AddressIs
  <1>3. IDEXEdge(c)
    BY DEF Cycle
  <1>4. CASE ~EXReady(c)
    BY <1>1, <1>3, <1>4 DEF IDEXEdge, Keeps
  <1>5. CASE EXReady(c) /\ Misaligned
    BY <1>1, <1>2, <1>3, <1>5 DEF IDEXEdge, Splits
  <1>6. CASE EXReady(c) /\ ~Misaligned
    BY <1>1, <1>2, <1>3, <1>6 DEF IDEXEdge, Issues
  <1> QED BY <1>4, <1>5, <1>6

(* A load's value is made of memory bytes, so it can be extended.          *)
LEMMA ExtendType ==
  ASSUME NEW b \in MemByte, NEW ext
  PROVE  ExtendAs(ext, b) \in Byte /\ b \in Byte
  BY DEF ExtendAs, MemByte, Byte, Zero, Ones, SignOf

LEMMA AssembledType ==
  ASSUME NEW type, NEW ext, NEW o \in Lane, NEW q \in [Lane -> Byte],
         NEW r \in [Lane -> MemByte]
  PROVE  Assembled(type, ext, o, q, r) \in Word32
  <1>1. \A i \in Lane : r[i] \in MemByte /\ r[i] \in Byte /\ q[i] \in Byte
                        /\ ExtendAs(ext, r[i]) \in Byte
    BY ExtendType
  <1>2. 0 \in Lane /\ 3 \in Lane
    BY DEF Lane
  <1>3. CASE type = "word"
    <2>1. ASSUME NEW i \in Lane
          PROVE  (IF o = 0 THEN r[i] ELSE IF i + o \in Lane THEN q[i + o] ELSE r[(i + o) - 4])
                   \in Byte
      <3>1. i + o \notin Lane => (i + o) - 4 \in Lane
        BY DEF Lane
      <3> QED BY <3>1, <1>1
    <2> QED BY <2>1, <1>3 DEF Assembled, Word32
  <1>4. CASE type = "half"
    <2> DEFINE low  == IF o = 3 THEN q[3] ELSE r[o]
               high == IF o = 3 THEN r[0] ELSE r[o + 1]
    <2>1. o # 3 => o + 1 \in Lane
      BY DEF Lane
    <2>2. low \in Byte /\ high \in Byte /\ ExtendAs(ext, high) \in Byte
      BY <2>1, <1>1, <1>2
    <2>3. Assembled(type, ext, o, q, r) =
            [i \in Lane |-> IF i = 0 THEN low ELSE IF i = 1 THEN high ELSE ExtendAs(ext, high)]
      BY <1>4 DEF Assembled
    <2> HIDE DEF low, high
    <2> QED BY <2>2, <2>3 DEF Word32
  <1>5. CASE type # "word" /\ type # "half"
    BY <1>1, <1>5 DEF Assembled, Word32
  <1> QED BY <1>3, <1>4, <1>5

LEMMA LoadValueType ==
  ASSUME NEW a \in AccessType, NEW m \in [Addr -> MemByte]
  PROVE  LoadValue(m, a) \in Word32
  <1> DEFINE msb == m[Add(Start(a), Size(a) - 1)]
  <1>1. /\ \A i \in Lane : Add(Start(a), i) \in Addr
        /\ Size(a) - 1 \in Lane
    <2>1. Size(a) - 1 \in 0 .. Size(a) - 1
      BY AccessFacts
    <2> QED BY <2>1, AccessFacts, BytePlace
  <1>2. msb \in MemByte /\ \A i \in Lane : m[Add(Start(a), i)] \in MemByte
    BY <1>1
  <1>3. ExtendAs(a.ext, msb) \in Byte
    BY <1>2, ExtendType
  <1>4. \A i \in Lane : m[Add(Start(a), i)] \in Byte
    BY <1>2, ExtendType
  <1>5. LoadValue(m, a) = [i \in Lane |-> IF i < Size(a) THEN m[Add(Start(a), i)]
                                                         ELSE ExtendAs(a.ext, msb)]
    BY DEF LoadValue, ExtendAs
  <1> HIDE DEF msb
  <1> QED BY <1>3, <1>4, <1>5 DEF Word32

-----------------------------------------------------------------------------
(* A cycle preserves the types                                             *)

LEMMA ExTypeStep ==
  ASSUME TypeInv, Operands, NEW c \in Input, Cycle(c)
  PROVE  /\ PULP_OBI' \in BOOLEAN
         /\ ex' \in {"bubble", "alu", "branch", "lsu"}
         /\ acc' \in Accesses
         /\ alu_operand_a_ex' \in Addr /\ alu_operand_b_ex' \in Addr \cup {4}
         /\ {prepost_useincr_ex', regfile_alu_we_ex', data_misaligned_ex'} \subseteq BOOLEAN
         /\ amem' \in [Addr -> MemByte]
  <1>1. /\ PULP_OBI \in BOOLEAN /\ PULP_OBI' = PULP_OBI
        /\ ex \in {"bubble", "alu", "branch", "lsu"} /\ acc \in Accesses
        /\ alu_operand_a_ex \in Addr /\ alu_operand_b_ex \in Addr \cup {4}
        /\ {prepost_useincr_ex, regfile_alu_we_ex, data_misaligned_ex} \subseteq BOOLEAN
        /\ amem \in [Addr -> MemByte]
    BY DEF TypeInv, TypeOK, Cycle
  <1>2. CASE Keeps(c)
    BY <1>1, <1>2 DEF Keeps, exVars
  <1>3. CASE Splits(c)
    <2>1. AluResult \in Addr
      <3>1. alu_operand_b_ex \in Nat
        BY <1>1 DEF Addr
      <3> QED BY <1>1, <3>1, AddType DEF AluResult
    <2> QED BY <1>1, <1>3, <2>1 DEF Splits, SecondHalfEdge
  <1>4. CASE Issues(c)
    <2>1. /\ c.id \in {"bubble", "alu", "branch", "lsu"} /\ c.acc \in Accesses
          /\ c.acc \in AccessType /\ c.acc.base \in Addr /\ c.acc.off \in Addr
          /\ c.acc.useincr \in BOOLEAN
      BY InputFacts, AccessFacts
    <2>2. Stored(amem, c.acc) \in [Addr -> MemByte]
      <3>1. \A i \in 0 .. Size(c.acc) - 1 : RegByte(i) \in MemByte
        <4>1. \A i \in 0 .. Size(c.acc) - 1 : i \in 0 .. 3
          BY <2>1, AccessFacts DEF Lane
        <4> QED BY <4>1 DEF RegByte, MemByte
      <3>2. \A x \in Addr : Stored(amem, c.acc)[x] \in MemByte
        BY <1>1, <2>1, <3>1, StoredAt
      <3> QED BY <2>1, <3>2, StoredAt
    <2> QED BY <1>1, <1>4, <2>1, <2>2 DEF Issues, IssueEdge
  <1> QED BY <1>2, <1>3, <1>4, EXEdge

(* The memory after a cycle. *)
LEMMA MemEdge ==
  ASSUME TypeInv, Operands, NEW c \in Input, Cycle(c)
  PROVE  /\ Accepted(c) /\ acc.we =>
              /\ DataReq
              /\ mem' = [x \in Addr |-> IF WordOf(x) = TransAddr /\ Offset(x) \in ByteEnable
                                        THEN DataWData[Offset(x)] ELSE mem[x]]
         /\ ~(Accepted(c) /\ acc.we) => mem' = mem
         /\ mem' \in [Addr -> MemByte]
  <1>1. Accepted(c) /\ acc.we =>
              /\ DataReq
              /\ mem' = [x \in Addr |-> IF WordOf(x) = TransAddr /\ Offset(x) \in ByteEnable
                                        THEN DataWData[Offset(x)] ELSE mem[x]]
    BY DEF Accepted, TransValid, Cycle, MemoryEdge
  <1>2. ~(Accepted(c) /\ acc.we) => mem' = mem
    BY DEF Cycle, MemoryEdge
  <1>3. mem \in [Addr -> MemByte]
    BY DEF TypeInv
  <1>4. ASSUME Accepted(c), acc.we PROVE mem' \in [Addr -> MemByte]
    <2>1. DataReq
      BY <1>1, <1>4
    <2>2. Offset(DataAddr) \in Lane
      BY <2>1, AddressIs
    <2>3. ASSUME NEW i \in Lane PROVE DataWData[i] \in MemByte
      <3>1. (i - Offset(DataAddr)) % 4 \in 0 .. 3
        BY <2>2 DEF Lane
      <3> QED BY <3>1 DEF DataWData, RegByte, MemByte
    <2>4. \A x \in Addr : Offset(x) \in Lane
      BY WordOffset DEF Addr
    <2> QED BY <1>1, <1>3, <1>4, <2>3, <2>4
  <1> QED BY <1>1, <1>2, <1>3, <1>4

LEMMA TypeStep ==
  ASSUME TypeInv, Operands, NEW c \in Input, Cycle(c)
  PROVE  TypeInv'
  <1>1. /\ acc \in AccessType /\ cnt_q \in {0, 1, 2}
        /\ data_we_q \in BOOLEAN /\ regfile_we_lsu \in BOOLEAN
        /\ data_type_q \in {"word", "half", "byte"} /\ rdata_offset_q \in Lane
        /\ data_sign_ext_q \in {"zero", "ones", "sign"} /\ rdata_q \in Word32
        /\ want_wb \in Word32 /\ amem \in [Addr -> MemByte]
    BY TypeFacts DEF TypeInv, TypeOK
  <1>2. acc.type \in {"word", "half", "byte"} /\ acc.ext \in {"zero", "ones", "sign"}
        /\ acc.we \in BOOLEAN
    BY <1>1, AccessFacts
  <1>3. CtrlUpdate(c) => DataReq /\ Offset(DataAddr) \in Lane
    BY Ready, AddressIs DEF Cycle
  <1>4. LoadValue(amem, acc) \in Word32
    BY <1>1, LoadValueType
  <1>5. /\ data_type_q' \in {"word", "half", "byte"} /\ rdata_offset_q' \in Lane
        /\ data_sign_ext_q' \in {"zero", "ones", "sign"} /\ data_we_q' \in BOOLEAN
        /\ want_wb' \in Word32
    <2>1. CASE CtrlUpdate(c)
      BY <1>2, <1>3, <1>4, <2>1 DEF Cycle, EXWBEdge
    <2>2. CASE ~CtrlUpdate(c)
      BY <1>1, <2>2 DEF Cycle, EXWBEdge
    <2> QED BY <2>1, <2>2
  <1>6. regfile_we_lsu' \in BOOLEAN
    <2>1. LsuReadyWB(c) \in BOOLEAN
      BY InputFacts DEF LsuReadyWB
    <2>2. regfile_we_lsu' = IF EXDone(c) THEN DataReq /\ ~acc.we
                                         ELSE regfile_we_lsu /\ ~LsuReadyWB(c)
      BY DEF Cycle, EXWBEdge
    <2> QED BY <2>1, <2>2, <1>1, <1>2 DEF DataReq
  <1>7. cnt_q' \in 0 .. DEPTH
    <2>1. Accepted(c) => cnt_q < 2
      BY Ready DEF Cycle
    <2>2. c.resp => cnt_q > 0
      BY Ready DEF Cycle
    <2>3. cnt_q' = (cnt_q + (IF Accepted(c) THEN 1 ELSE 0)) - (IF c.resp THEN 1 ELSE 0)
      BY DEF Cycle, EXWBEdge
    <2> QED BY <1>1, <2>1, <2>2, <2>3 DEF DEPTH
  <1>8. bus' \in Seq([Lane -> MemByte]) /\ bus' \in Seq(Word32)
    <2>1. bus' \in Seq([Lane -> MemByte])
      BY BusEdge
    <2>2. [Lane -> MemByte] \subseteq Word32
      <3>1. MemByte \subseteq Byte
        BY DEF MemByte, Byte
      <3> QED BY <3>1 DEF Word32
    <2>3. \A i \in 1 .. Len(bus') : bus'[i] \in Word32
      BY <2>1, <2>2, ElementOfSeq
    <2> QED BY <2>1, <2>3, SeqDef
  <1>9. rdata_q' \in Word32
    <2>1. CASE c.resp /\ ~data_we_q
      <3>1. RespData \in [Lane -> MemByte]
        <4>1. bus \in Seq([Lane -> MemByte]) /\ bus # <<>>
          BY <2>1 DEF TypeInv, Cycle, Legal
        <4> QED BY <4>1, HeadTailProperties DEF RespData
      <3>2. DataRDataExt \in Word32
        BY <1>1, <3>1, DataRDataExtIs, AssembledType DEF Word32
      <3>3. RespData \in Word32
        BY <3>1 DEF Word32, MemByte, Byte
      <3> QED BY <2>1, <3>2, <3>3 DEF Cycle, RDataEdge
    <2>2. CASE ~(c.resp /\ ~data_we_q)
      BY <1>1, <2>2 DEF Cycle, RDataEdge
    <2> QED BY <2>1, <2>2
  <1>10. mem' \in [Addr -> MemByte]
    BY MemEdge
  <1>11. MemByte \subseteq Byte
    BY DEF MemByte, Byte
  <1>12. /\ PULP_OBI' \in BOOLEAN
         /\ ex' \in {"bubble", "alu", "branch", "lsu"}
         /\ acc' \in Accesses
         /\ alu_operand_a_ex' \in Addr /\ alu_operand_b_ex' \in Addr \cup {4}
         /\ {prepost_useincr_ex', regfile_alu_we_ex', data_misaligned_ex'} \subseteq BOOLEAN
         /\ amem' \in [Addr -> MemByte]
    BY ExTypeStep
  <1>13. mem' \in [Addr -> Byte] /\ amem' \in [Addr -> Byte]
    BY <1>10, <1>11, <1>12
  <1>14. TypeOK'
    BY <1>5, <1>6, <1>7, <1>8, <1>9, <1>12, <1>13 DEF TypeOK
  <1> QED BY <1>8, <1>10, <1>12, <1>14 DEF TypeInv

-----------------------------------------------------------------------------
(* A cycle preserves what the ID/EX registers say about the access         *)

LEMMA OperandsStep ==
  ASSUME TypeInv, Operands, NEW c \in Input, Cycle(c)
  PROVE  Operands'
  <1>1. cnt_q' = Len(bus')
    BY BusEdge
  <1>2. /\ cnt_q \in {0, 1, 2} /\ c.resp \in BOOLEAN /\ Accepted(c) \in BOOLEAN
        /\ c.resp => cnt_q > 0 /\ (Accepted(c) => DataReq /\ cnt_q < 2)
        /\ cnt_q' = (cnt_q + (IF Accepted(c) THEN 1 ELSE 0)) - (IF c.resp THEN 1 ELSE 0)
    BY TypeFacts, InputFacts, Ready DEF Cycle, EXWBEdge
  <1>3. CtrlUpdate(c) <=> /\ DataReq
                          /\ \/ cnt_q = 0 /\ Accepted(c)
                             \/ cnt_q = 1 /\ c.resp /\ Accepted(c)
                             \/ cnt_q = 2 /\ c.resp
    BY Ready DEF Cycle
  <1>4. (cnt_q = 2 \/ Accepted(c)) => DataReq
    BY <1>2 DEF Operands, Accepted, TransValid
  <1>5. CtrlUpdate(c) => cnt_q' = 1
    BY <1>2, <1>3
  <1>6. cnt_q' = 2 => DataReq /\ ~CtrlUpdate(c)
    BY <1>2, <1>3, <1>4
  <1>7. CASE Keeps(c)
    <2>1. /\ UNCHANGED <<ex, acc, alu_operand_a_ex, alu_operand_b_ex, prepost_useincr_ex,
                         regfile_alu_we_ex, data_misaligned_ex>>
          /\ DataReq' <=> DataReq
      BY <1>7 DEF Keeps, exVars, DataReq
    <2> QED BY <2>1, <1>1, <1>6 DEF Operands, Start, IsSplit
  <1>8. CASE Splits(c)
    <2>1. /\ ex' = ex /\ acc' = acc /\ DataReq /\ DataReq' /\ IsSplit(acc)
          /\ alu_operand_a_ex' = DataAddr /\ alu_operand_b_ex' = 4
          /\ prepost_useincr_ex' /\ data_misaligned_ex' /\ ~regfile_alu_we_ex'
          /\ ~data_misaligned_ex
      BY <1>8 DEF Splits, SecondHalfEdge, DataReq, DataAddr
    <2>2. DataAddr = Start(acc)
      BY <2>1, AddressIs
    <2> QED BY <2>1, <2>2, <1>1 DEF Operands
  <1>9. CASE Issues(c)
    <2>1. cnt_q' # 2
      <3>1. DataReq => CtrlUpdate(c)
        BY <1>9 DEF Issues
      <3> QED BY <3>1, <1>6
    <2>2. IssueEdge(c)
      BY <1>9 DEF Issues
    <2>3. ~data_misaligned_ex'
      BY <2>2 DEF IssueEdge
    <2>4. CASE c.id = "lsu"
      <3>1. /\ acc' = c.acc /\ alu_operand_a_ex' = c.acc.base /\ alu_operand_b_ex' = c.acc.off
            /\ prepost_useincr_ex' = c.acc.useincr /\ ex' = "lsu"
        BY <2>2, <2>4 DEF IssueEdge
      <3>2. DataReq'
        BY <3>1 DEF DataReq
      <3> QED BY <3>1, <3>2, <2>1, <2>3, <1>1 DEF Operands
    <2>5. CASE c.id # "lsu"
      <3>1. ~DataReq' /\ ~regfile_alu_we_ex'
        BY <2>2, <2>5 DEF IssueEdge, DataReq
      <3> QED BY <3>1, <2>1, <2>3, <1>1 DEF Operands
    <2> QED BY <2>4, <2>5
  <1> QED BY <1>7, <1>8, <1>9, EXEdge

-----------------------------------------------------------------------------
(* Stores                                                                  *)

(* The enabled lanes of a half are those of its bytes of the access, and   *)
(* each carries its byte of the register.                                  *)
LEMMA LaneEnabled ==
  ASSUME TypeInv, Operands, DataReq, NEW i \in 0 .. Size(acc) - 1,
         FirstByte(acc, i) <=> ~data_misaligned_ex
  PROVE  /\ LaneOf(Start(acc), i) \in ByteEnable
         /\ DataWData[LaneOf(Start(acc), i)] = RegByte(i)
         /\ WordWith(Start(acc), i) = TransAddr
  <1> DEFINE s == Start(acc)
             o == Offset(s)
             l == LaneOf(s, i)
  <1>1. /\ acc \in AccessType /\ s \in Addr /\ i \in Lane
        /\ acc.type \in {"word", "half", "byte"}
        /\ Size(acc) = IF acc.type = "word" THEN 4 ELSE IF acc.type = "half" THEN 2 ELSE 1
    BY TypeFacts, AccessFacts
  <1>2. /\ DataAddr = IF data_misaligned_ex THEN Add(s, 4) ELSE s
        /\ Offset(DataAddr) = o /\ o \in Lane
        /\ TransAddr = WordOf(DataAddr)
    BY AddressIs
  <1>3. l \in Lane
    BY <1>1, BytePlace
  <1>4. /\ FirstByte(acc, i) <=> o + i < 4
        /\ l = IF o + i < 4 THEN o + i ELSE (o + i) - 4
        /\ WordWith(s, i) = IF o + i < 4 THEN WordOf(s) ELSE WordOf(Add(s, 4))
    BY DEF FirstByte, LaneOf, WordWith
  <1>5. DataWData[l] = RegByte((l - o) % 4)
    BY <1>2, <1>3 DEF DataWData
  <1>6. data_misaligned_ex => IsSplit(acc)
    BY DEF Operands
  <1>7. IsSplit(acc) <=> ((acc.type = "word" /\ o # 0) \/ (acc.type = "half" /\ o = 3))
    BY DEF IsSplit
  <1>8. ByteEnable = IF acc.type = "word"
           THEN IF data_misaligned_ex THEN {k \in Lane : k < o} ELSE {k \in Lane : k >= o}
           ELSE IF acc.type = "half"
           THEN IF data_misaligned_ex THEN {0} ELSE {o, o + 1} \cap Lane
           ELSE {o}
    BY <1>2 DEF ByteEnable
  <1> HIDE DEF o, l
  <1>9. (l - o) % 4 = i
    <2>1. i \in 0 .. 3 /\ o \in 0 .. 3
      BY <1>1, <1>2 DEF Lane
    <2>2. CASE o + i < 4
      <3>1. l - o = i
        BY <2>1, <2>2, <1>4
      <3> QED BY <3>1, <2>1
    <2>3. CASE ~(o + i < 4)
      <3>1. l - o = i - 4
        BY <2>1, <2>3, <1>4
      <3>2. (i - 4) % 4 = i
        BY <2>1
      <3> QED BY <3>1, <3>2
    <2> QED BY <2>2, <2>3
  <1>10. l \in ByteEnable
    <2>1. CASE data_misaligned_ex
      <3>1. o + i >= 4 /\ l = (o + i) - 4 /\ IsSplit(acc)
        BY <2>1, <1>1, <1>2, <1>4, <1>6 DEF Lane
      <3>2. CASE acc.type = "word"
        <4>1. l < o
          BY <3>1, <1>1, <1>2 DEF Lane
        <4> QED BY <4>1, <3>2, <2>1, <1>3, <1>8
      <3>3. CASE acc.type = "half"
        <4>1. o = 3 /\ i \in {0, 1}
          BY <3>1, <3>3, <1>1, <1>7
        <4>2. l = 0
          BY <4>1, <3>1
        <4> QED BY <4>2, <3>3, <2>1, <1>8
      <3> QED BY <3>1, <3>2, <3>3, <1>7
    <2>2. CASE ~data_misaligned_ex
      <3>1. l = o + i
        BY <2>2, <1>4
      <3>2. CASE acc.type = "word"
        <4>1. l >= o
          BY <3>1, <1>1, <1>2 DEF Lane
        <4> QED BY <4>1, <3>2, <2>2, <1>3, <1>8
      <3>3. CASE acc.type = "half"
        <4>1. i \in {0, 1}
          BY <3>3, <1>1
        <4>2. l \in {o, o + 1}
          BY <4>1, <3>1, <1>2 DEF Lane
        <4> QED BY <4>2, <3>3, <2>2, <1>3, <1>8
      <3>4. CASE acc.type = "byte"
        <4>1. i = 0
          BY <3>4, <1>1
        <4>2. l = o
          BY <4>1, <3>1, <1>2 DEF Lane
        <4> QED BY <4>2, <3>4, <1>8
      <3> QED BY <3>2, <3>3, <3>4, <1>1
    <2> QED BY <2>1, <2>2
  <1>11. WordWith(s, i) = TransAddr
    BY <1>2, <1>4
  <1> QED BY <1>5, <1>9, <1>10, <1>11 DEF l

(* Every enabled lane carries a byte of the access. *)
LEMMA EnabledLane ==
  ASSUME TypeInv, Operands, DataReq, NEW l \in ByteEnable
  PROVE  \E i \in 0 .. Size(acc) - 1 :
           /\ FirstByte(acc, i) <=> ~data_misaligned_ex
           /\ LaneOf(Start(acc), i) = l
  <1> DEFINE o == Offset(Start(acc))
             i == IF data_misaligned_ex THEN (l - o) + 4 ELSE l - o
  <1>1. /\ acc.type \in {"word", "half", "byte"}
        /\ Size(acc) = IF acc.type = "word" THEN 4 ELSE IF acc.type = "half" THEN 2 ELSE 1
    BY TypeFacts, AccessFacts
  <1>2. Offset(DataAddr) = o /\ o \in 0 .. 3
    BY AddressIs DEF Lane
  <1>3. \A k : FirstByte(acc, k) <=> o + k < 4
    BY DEF FirstByte
  <1>4. \A k : LaneOf(Start(acc), k) = IF o + k < 4 THEN o + k ELSE (o + k) - 4
    BY DEF LaneOf
  <1>5. data_misaligned_ex => ((acc.type = "word" /\ o # 0) \/ (acc.type = "half" /\ o = 3))
    BY DEF Operands, IsSplit
  <1>6. ByteEnable = IF acc.type = "word"
           THEN IF data_misaligned_ex THEN {k \in Lane : k < o} ELSE {k \in Lane : k >= o}
           ELSE IF acc.type = "half"
           THEN IF data_misaligned_ex THEN {0} ELSE {o, o + 1} \cap Lane
           ELSE {o}
    BY <1>2 DEF ByteEnable
  <1> HIDE DEF o
  <1>7. /\ l \in 0 .. 3
        /\ data_misaligned_ex => l < o
        /\ ~data_misaligned_ex => l >= o
        /\ i \in 0 .. Size(acc) - 1
    <2>1. CASE acc.type = "word"
      BY <2>1, <1>1, <1>2, <1>6 DEF Lane
    <2>2. CASE acc.type = "half"
      BY <2>2, <1>1, <1>2, <1>5, <1>6 DEF Lane
    <2>3. CASE acc.type = "byte"
      BY <2>3, <1>1, <1>2, <1>5, <1>6
    <2> QED BY <2>1, <2>2, <2>3, <1>1
  <1>8. (o + i < 4 <=> ~data_misaligned_ex) /\ (IF o + i < 4 THEN o + i ELSE (o + i) - 4) = l
    BY <1>2, <1>7
  <1> QED BY <1>3, <1>4, <1>7, <1>8

(* A granted store writes the bytes of its half and nothing else.          *)
LEMMA WriteEdge ==
  ASSUME TypeInv, Operands, NEW c \in Input, Cycle(c), Accepted(c), acc.we
  PROVE  /\ \A i \in 0 .. Size(acc) - 1 :
              (FirstByte(acc, i) <=> ~data_misaligned_ex)
                => mem'[Add(Start(acc), i)] = RegByte(i)
         /\ \A x \in Addr :
              \/ mem'[x] = mem[x]
              \/ \E i \in 0 .. Size(acc) - 1 : x = Add(Start(acc), i) /\ mem'[x] = RegByte(i)
  <1>1. /\ DataReq
        /\ mem' = [x \in Addr |-> IF WordOf(x) = TransAddr /\ Offset(x) \in ByteEnable
                                  THEN DataWData[Offset(x)] ELSE mem[x]]
    BY MemEdge
  <1>2. acc \in AccessType /\ Start(acc) \in Addr /\ 0 .. Size(acc) - 1 \subseteq Lane
    BY TypeFacts, AccessFacts
  <1>3. ASSUME NEW i \in 0 .. Size(acc) - 1
        PROVE  /\ Add(Start(acc), i) \in Addr
               /\ WordOf(Add(Start(acc), i)) = WordWith(Start(acc), i)
               /\ Offset(Add(Start(acc), i)) = LaneOf(Start(acc), i)
               /\ Add(Start(acc), i) = 4 * WordWith(Start(acc), i) + LaneOf(Start(acc), i)
    <2>1. i \in Lane
      BY <1>2
    <2> QED BY <2>1, <1>2, BytePlace
  <1>4. ASSUME NEW i \in 0 .. Size(acc) - 1, FirstByte(acc, i) <=> ~data_misaligned_ex
        PROVE  mem'[Add(Start(acc), i)] = RegByte(i)
    <2>1. /\ LaneOf(Start(acc), i) \in ByteEnable
          /\ DataWData[LaneOf(Start(acc), i)] = RegByte(i)
          /\ WordWith(Start(acc), i) = TransAddr
      BY <1>1, <1>4, LaneEnabled
    <2> QED BY <2>1, <1>1, <1>3
  <1>5. ASSUME NEW x \in Addr, mem'[x] # mem[x]
        PROVE  \E i \in 0 .. Size(acc) - 1 : x = Add(Start(acc), i) /\ mem'[x] = RegByte(i)
    <2>1. WordOf(x) = TransAddr /\ Offset(x) \in ByteEnable
      BY <1>1, <1>5
    <2>2. PICK i \in 0 .. Size(acc) - 1 :
                 /\ FirstByte(acc, i) <=> ~data_misaligned_ex
                 /\ LaneOf(Start(acc), i) = Offset(x)
      BY <2>1, <1>1, EnabledLane
    <2>3. WordWith(Start(acc), i) = TransAddr
      BY <2>2, <1>1, LaneEnabled
    <2>4. x = 4 * WordOf(x) + Offset(x)
      BY WordOffset DEF Addr
    <2>5. x = Add(Start(acc), i)
      BY <2>1, <2>2, <2>3, <2>4, <1>3
    <2> QED BY <2>2, <2>5, <1>4
  <1> QED BY <1>4, <1>5

(* A second transaction is only outstanding while EX waits.                *)
LEMMA CountEdge ==
  ASSUME TypeInv, Operands, NEW c \in Input, Cycle(c)
  PROVE  /\ CtrlUpdate(c) => cnt_q' = 1 /\ (Accepted(c) \/ cnt_q = 2)
         /\ cnt_q' = 2 => DataReq /\ ~CtrlUpdate(c) /\ ~c.resp /\ (Accepted(c) \/ cnt_q = 2)
         /\ cnt_q' = 2 /\ Accepted(c) => cnt_q = 1
         /\ cnt_q' > 0 /\ ~Accepted(c) => cnt_q > 0
         /\ cnt_q' = (cnt_q + (IF Accepted(c) THEN 1 ELSE 0)) - (IF c.resp THEN 1 ELSE 0)
         /\ cnt_q \in {0, 1, 2} /\ c.resp \in BOOLEAN /\ Accepted(c) \in BOOLEAN
         /\ c.resp => cnt_q > 0
         /\ cnt_q = 2 => DataReq /\ ~Accepted(c)
  <1>1. /\ cnt_q \in {0, 1, 2} /\ c.resp \in BOOLEAN /\ Accepted(c) \in BOOLEAN
        /\ c.resp => cnt_q > 0 /\ (Accepted(c) => DataReq /\ cnt_q < 2)
        /\ cnt_q' = (cnt_q + (IF Accepted(c) THEN 1 ELSE 0)) - (IF c.resp THEN 1 ELSE 0)
    BY TypeFacts, InputFacts, Ready DEF Cycle, EXWBEdge
  <1>2. CtrlUpdate(c) <=> /\ DataReq
                          /\ \/ cnt_q = 0 /\ Accepted(c)
                             \/ cnt_q = 1 /\ c.resp /\ Accepted(c)
                             \/ cnt_q = 2 /\ c.resp
    BY Ready DEF Cycle
  <1>3. Accepted(c) => DataReq /\ cnt_q < 2
    BY Ready DEF Cycle
  <1>4. cnt_q = 2 => DataReq
    BY DEF Operands
  <1> QED BY <1>1, <1>2, <1>3, <1>4

(* A granted half changes nothing the whole store does not.                *)
LEMMA StoredAgain ==
  ASSUME TypeInv, Operands, NEW c \in Input, Cycle(c), acc.we
  PROVE  /\ Stored(mem', acc) = Stored(mem, acc)
         /\ \A i \in 0 .. Size(acc) - 1 :
              mem[Add(Start(acc), i)] = RegByte(i) => mem'[Add(Start(acc), i)] = RegByte(i)
  <1>1. acc \in AccessType /\ Start(acc) \in Addr /\ 0 .. Size(acc) - 1 \subseteq Lane
    BY TypeFacts, AccessFacts
  <1>2. \A i \in 0 .. Size(acc) - 1 : i \in Lane /\ Add(Start(acc), i) \in Addr
    BY <1>1, BytePlace
  <1>3. \A x \in Addr :
          \/ mem'[x] = mem[x]
          \/ \E i \in 0 .. Size(acc) - 1 : x = Add(Start(acc), i) /\ mem'[x] = RegByte(i)
    BY WriteEdge, MemEdge
  <1>4. ASSUME NEW x \in Addr PROVE Stored(mem', acc)[x] = Stored(mem, acc)[x]
    <2>1. CASE \E i \in 0 .. Size(acc) - 1 : x = Add(Start(acc), i)
      BY <2>1, <1>1, StoredAt
    <2>2. CASE \A i \in 0 .. Size(acc) - 1 : x # Add(Start(acc), i)
      <3>1. mem'[x] = mem[x]
        BY <2>2, <1>3
      <3> QED BY <3>1, <2>2, <1>1, StoredAt
    <2> QED BY <2>1, <2>2
  <1>5. Stored(mem', acc) = [x \in Addr |-> Stored(mem', acc)[x]]
        /\ Stored(mem, acc) = [x \in Addr |-> Stored(mem, acc)[x]]
    BY <1>1, StoredAt
  <1>6. Stored(mem', acc) = Stored(mem, acc)
    BY <1>4, <1>5
  <1>7. ASSUME NEW i \in 0 .. Size(acc) - 1, mem[Add(Start(acc), i)] = RegByte(i)
        PROVE  mem'[Add(Start(acc), i)] = RegByte(i)
    <2>1. CASE mem'[Add(Start(acc), i)] = mem[Add(Start(acc), i)]
      BY <2>1, <1>7
    <2>2. CASE \E j \in 0 .. Size(acc) - 1 : /\ Add(Start(acc), i) = Add(Start(acc), j)
                                             /\ mem'[Add(Start(acc), i)] = RegByte(j)
      <3>1. PICK j \in 0 .. Size(acc) - 1 : /\ Add(Start(acc), i) = Add(Start(acc), j)
                                            /\ mem'[Add(Start(acc), i)] = RegByte(j)
        BY <2>2
      <3>2. i = j
        BY <3>1, <1>1, <1>2, BytesDiffer
      <3> QED BY <3>1, <3>2
    <2> QED BY <2>1, <2>2, <1>2, <1>3
  <1> QED BY <1>6, <1>7

(* The half of a store that leaves EX has been written.                    *)
LEMMA HalfWritten ==
  ASSUME TypeInv, Operands, StoreInv, NEW c \in Input, Cycle(c),
         DataReq, acc.we, NEW i \in 0 .. Size(acc) - 1,
         Performed(i) \/ (Accepted(c) /\ (FirstByte(acc, i) <=> ~data_misaligned_ex))
  PROVE  mem'[Add(Start(acc), i)] = RegByte(i)
  <1>1. CASE Performed(i)
    BY <1>1, StoredAgain DEF StoreInv
  <1>2. CASE Accepted(c) /\ (FirstByte(acc, i) <=> ~data_misaligned_ex)
    BY <1>2, WriteEdge
  <1> QED BY <1>1, <1>2

LEMMA StoreStep ==
  ASSUME TypeInv, Operands, StoreInv, NEW c \in Input, Cycle(c)
  PROVE  StoreInv'
  <1> DEFINE W == DataReq /\ acc.we
  <1>1. amem = IF W THEN Stored(mem, acc) ELSE mem
    BY DEF StoreInv, StoresCorrect
  <1>2. W => Stored(mem', acc) = Stored(mem, acc)
    BY StoredAgain
  <1>3. ~W => mem' = mem
    BY MemEdge, Ready DEF Cycle
  <1>4. CASE Keeps(c)
    <2>1. /\ ex' = ex /\ acc' = acc /\ data_misaligned_ex' = data_misaligned_ex
          /\ (DataReq' <=> DataReq) /\ amem' = amem
      BY <1>4 DEF Keeps, exVars, DataReq
    <2>2. StoresCorrect'
      BY <2>1, <1>1, <1>2, <1>3 DEF StoresCorrect
    <2>3. ASSUME W, NEW i \in 0 .. Size(acc) - 1, Performed(i)'
          PROVE  mem'[Add(Start(acc), i)] = RegByte(i)
      <3>1. Performed(i) \/ (Accepted(c) /\ (FirstByte(acc, i) <=> ~data_misaligned_ex))
        <4>1. CASE data_misaligned_ex /\ FirstByte(acc, i)
          BY <4>1 DEF Performed
        <4>2. CASE cnt_q' = 2 /\ (FirstByte(acc, i) <=> ~data_misaligned_ex)
          BY <4>2, CountEdge DEF Performed
        <4> QED BY <4>1, <4>2, <2>1, <2>3 DEF Performed, FirstByte
      <3> QED BY <3>1, <2>3, HalfWritten
    <2>4. (DataReq /\ acc.we =>
             \A i \in 0 .. Size(acc) - 1 : Performed(i) => mem[Add(Start(acc), i)] = RegByte(i))'
      BY <2>1, <2>3
    <2> QED BY <2>2, <2>4 DEF StoreInv
  <1>5. CASE Splits(c)
    <2>1. /\ ex' = ex /\ acc' = acc /\ data_misaligned_ex' /\ ~data_misaligned_ex
          /\ DataReq /\ DataReq' /\ amem' = amem /\ CtrlUpdate(c)
      BY <1>5 DEF Splits, SecondHalfEdge, DataReq
    <2>2. StoresCorrect'
      BY <2>1, <1>1, <1>2, <1>3 DEF StoresCorrect
    <2>3. ASSUME W, NEW i \in 0 .. Size(acc) - 1, Performed(i)'
          PROVE  mem'[Add(Start(acc), i)] = RegByte(i)
      <3>1. FirstByte(acc, i)
        BY <2>1, <2>3, CountEdge DEF Performed, FirstByte
      <3>2. Accepted(c) \/ cnt_q = 2
        BY <2>1, CountEdge
      <3> QED BY <3>1, <3>2, <2>1, <2>3, HalfWritten DEF Performed
    <2>4. (DataReq /\ acc.we =>
             \A i \in 0 .. Size(acc) - 1 : Performed(i) => mem[Add(Start(acc), i)] = RegByte(i))'
      BY <2>1, <2>3
    <2> QED BY <2>2, <2>4 DEF StoreInv
  <1>6. CASE Issues(c)
    <2>1. /\ DataReq => CtrlUpdate(c) /\ (data_misaligned_ex \/ ~IsSplit(acc))
          /\ IssueEdge(c)
      BY <1>6 DEF Issues
    <2>2. W => mem' = Stored(mem', acc)
      <3> SUFFICES ASSUME W PROVE mem' = Stored(mem', acc)
        OBVIOUS
      <3>1. acc \in AccessType /\ mem' = [x \in Addr |-> mem'[x]]
        <4>1. mem' \in [Addr -> MemByte]
          BY MemEdge
        <4> QED BY <4>1, TypeFacts
      <3>2. ASSUME NEW i \in 0 .. Size(acc) - 1
            PROVE  mem'[Add(Start(acc), i)] = RegByte(i)
        <4>1. Accepted(c) \/ cnt_q = 2
          BY <2>1, CountEdge
        <4>2. data_misaligned_ex \/ FirstByte(acc, i)
          BY <2>1, <3>1, SplitBytes
        <4>3. Performed(i) \/ (Accepted(c) /\ (FirstByte(acc, i) <=> ~data_misaligned_ex))
          BY <4>1, <4>2 DEF Performed
        <4> QED BY <4>3, HalfWritten
      <3>3. ASSUME NEW x \in Addr PROVE Stored(mem', acc)[x] = mem'[x]
        <4>1. CASE \E i \in 0 .. Size(acc) - 1 : x = Add(Start(acc), i)
          BY <4>1, <3>1, <3>2, StoredAt
        <4>2. CASE \A i \in 0 .. Size(acc) - 1 : x # Add(Start(acc), i)
          BY <4>2, <3>1, StoredAt
        <4> QED BY <4>1, <4>2
      <3>4. Stored(mem', acc) = [x \in Addr |-> Stored(mem', acc)[x]]
        BY <3>1, StoredAt
      <3> QED BY <3>1, <3>3, <3>4
    <2>3. amem = mem'
      BY <2>2, <1>1, <1>2, <1>3
    <2>4. ~data_misaligned_ex'
      BY <2>1 DEF IssueEdge
    <2>5. cnt_q' # 2
      BY <2>1, CountEdge
    <2>6. (DataReq /\ acc.we)' <=> c.id = "lsu" /\ c.acc.we
      BY <2>1 DEF IssueEdge, DataReq
    <2>7. StoresCorrect'
      BY <2>1, <2>3, <2>6 DEF StoresCorrect, IssueEdge
    <2>8. \A i : ~Performed(i)'
      BY <2>4, <2>5 DEF Performed
    <2> QED BY <2>7, <2>8 DEF StoreInv
  <1> QED BY <1>4, <1>5, <1>6, EXEdge

-----------------------------------------------------------------------------
(* Loads                                                                   *)

LEMMA DataRDataExtNext ==
  DataRDataExt' = Assembled(data_type_q', data_sign_ext_q', rdata_offset_q', rdata_q', RespData')
  <1>1. (DataRDataExt = Assembled(data_type_q, data_sign_ext_q, rdata_offset_q,
                                  rdata_q, RespData))'
    BY DataRDataExtIs, PTL
  <1> QED BY <1>1

LEMMA RespDataNext ==
  ASSUME TypeInv, Operands, NEW c \in Input, Cycle(c), cnt_q' > 0
  PROVE  RespData' = bus'[1]
  <1>1. bus' \in Seq([Lane -> MemByte]) /\ cnt_q' = Len(bus')
    BY BusEdge
  <1>2. bus' # <<>>
    BY <1>1, EmptySeq
  <1> QED BY <1>1, <1>2, HeadTailProperties DEF RespData

(* A load that stays in WB keeps its answer.                               *)
LEMMA WBWaits ==
  ASSUME TypeInv, Operands, NEW c \in Input, Cycle(c), ~CtrlUpdate(c), regfile_we_lsu'
  PROVE  /\ regfile_we_lsu /\ cnt_q > 0 /\ ~c.resp /\ cnt_q' > 0
         /\ DataRDataExt' = DataRDataExt /\ want_wb' = want_wb
  <1>1. /\ regfile_we_lsu' = IF EXDone(c) THEN DataReq /\ ~acc.we
                                          ELSE regfile_we_lsu /\ ~LsuReadyWB(c)
        /\ UNCHANGED <<data_type_q, rdata_offset_q, data_sign_ext_q, data_we_q, want_wb>>
        /\ ~c.resp => rdata_q' = rdata_q
    BY DEF Cycle, EXWBEdge, RDataEdge
  <1>2. /\ DataReq => (EXDone(c) <=> CtrlUpdate(c))
        /\ LsuReadyWB(c) <=> cnt_q = 0 \/ c.resp
    BY Ready DEF Cycle
  <1>3. regfile_we_lsu /\ cnt_q # 0 /\ ~c.resp
    BY <1>1, <1>2
  <1>4. cnt_q > 0 /\ cnt_q' > 0
    BY <1>3, CountEdge
  <1>5. RespData' = bus'[1] /\ bus'[1] = bus[1]
    BY <1>3, <1>4, CountEdge, RespDataNext, BusEdge
  <1>6. RespData = bus[1]
    <2>1. bus # <<>> /\ bus \in Seq([Lane -> MemByte])
      BY <1>4 DEF Operands, TypeInv
    <2> QED BY <2>1, HeadTailProperties DEF RespData
  <1>7. DataRDataExt' = DataRDataExt
    BY <1>1, <1>3, <1>5, <1>6, DataRDataExtIs, DataRDataExtNext
  <1> QED BY <1>1, <1>3, <1>4, <1>7

(* When a load or its first half leaves EX, the oldest answer outstanding  *)
(* is the word its transaction reads.                                      *)
LEMMA ReadLeaves ==
  ASSUME TypeInv, Operands, StoreInv, LoadInv, NEW c \in Input, Cycle(c),
         CtrlUpdate(c), DataReq, ~acc.we
  PROVE  bus'[1] = WordAt(amem, TransAddr)
  <1>1. amem = mem
    BY DEF StoreInv, StoresCorrect
  <1>2. cnt_q' = 1 /\ (Accepted(c) \/ cnt_q = 2) /\ cnt_q' = Len(bus')
    BY CountEdge, BusEdge
  <1>3. CASE Accepted(c)
    BY <1>1, <1>2, <1>3, BusEdge
  <1>4. CASE cnt_q = 2
    <2>1. c.resp
      BY <1>4, CountEdge, Ready DEF Cycle
    <2> QED BY <1>4, <2>1, BusEdge DEF LoadInv
  <1> QED BY <1>2, <1>3, <1>4

LEMMA LoadStep ==
  ASSUME TypeInv, Operands, StoreInv, LoadInv, NEW c \in Input, Cycle(c)
  PROVE  LoadInv'
  <1> DEFINE FirstWord == WordAt(amem, WordOf(Start(acc)))
  <1>1. DataReq /\ ~acc.we => amem = mem
    BY DEF StoreInv, StoresCorrect
  <1>2. /\ regfile_we_lsu' = IF EXDone(c) THEN DataReq /\ ~acc.we
                                          ELSE regfile_we_lsu /\ ~LsuReadyWB(c)
        /\ CtrlUpdate(c) =>
             /\ data_type_q' = acc.type /\ data_sign_ext_q' = acc.ext
             /\ rdata_offset_q' = Offset(DataAddr) /\ data_we_q' = acc.we
             /\ want_wb' = LoadValue(amem, acc)
        /\ ~CtrlUpdate(c) => data_we_q' = data_we_q
        /\ c.resp /\ ~data_we_q /\ data_misaligned_ex => rdata_q' = RespData
        /\ ~c.resp => rdata_q' = rdata_q
    BY DEF Cycle, EXWBEdge, RDataEdge
  <1>3. /\ cnt_q \in {0, 1, 2} /\ c.resp \in BOOLEAN /\ (c.resp => cnt_q > 0)
        /\ cnt_q' = (cnt_q + (IF Accepted(c) THEN 1 ELSE 0)) - (IF c.resp THEN 1 ELSE 0)
        /\ cnt_q = 2 => DataReq /\ ~Accepted(c)
    BY CountEdge
  <1>4. CtrlUpdate(c) <=> /\ DataReq
                          /\ \/ cnt_q = 0 /\ Accepted(c)
                             \/ cnt_q = 1 /\ c.resp /\ Accepted(c)
                             \/ cnt_q = 2 /\ c.resp
    BY Ready DEF Cycle
  <1>5. CASE Keeps(c)
    <2>1. /\ ~CtrlUpdate(c)
          /\ ex' = ex /\ acc' = acc /\ data_misaligned_ex' = data_misaligned_ex
          /\ amem' = amem /\ TransAddr' = TransAddr
      BY <1>5 DEF Keeps, exVars, TransAddr, DataAddr, AluResult
    <2>2. data_misaligned_ex => DataReq
      BY DEF Operands
    <2>3. (regfile_we_lsu => cnt_q > 0)'
      BY <2>1, WBWaits
    <2>4. (regfile_we_lsu /\ ~data_misaligned_ex => DataRDataExt = want_wb)'
      BY <2>1, WBWaits DEF LoadInv
    <2>5. (data_misaligned_ex => (data_we_q <=> acc.we))'
      BY <2>1, <1>2 DEF LoadInv
    <2>6. ASSUME data_misaligned_ex, ~acc.we
          PROVE  (IF cnt_q' > 0 THEN bus'[1] ELSE rdata_q') = FirstWord
      <3>1. (IF cnt_q > 0 THEN bus[1] ELSE rdata_q) = FirstWord /\ ~data_we_q
        BY <2>6 DEF LoadInv
      <3>2. CASE cnt_q > 0 /\ ~c.resp
        <4>1. cnt_q' > 0
          BY <3>2, CountEdge
        <4>2. bus'[1] = bus[1]
          BY <3>2, <1>3, BusEdge
        <4> QED BY <4>1, <4>2, <3>1, <3>2
      <3>3. CASE cnt_q = 0
        <4>1. ~Accepted(c) /\ ~c.resp
          BY <3>3, <2>1, <2>2, <2>6, <1>3, <1>4
        <4> QED BY <4>1, <3>1, <3>3, <1>2, <1>3
      <3>4. CASE cnt_q > 0 /\ c.resp
        <4>1. cnt_q = 1 /\ ~Accepted(c)
          BY <3>4, <2>1, <2>2, <2>6, <1>3, <1>4
        <4>2. cnt_q' = 0
          BY <4>1, <3>4, <1>3
        <4>3. rdata_q' = bus[1]
          BY <3>1, <3>4, <2>6, <1>2, BusEdge
        <4> QED BY <4>2, <4>3, <3>1, <3>4
      <3> QED BY <3>2, <3>3, <3>4, <1>3
    <2>7. (data_misaligned_ex /\ ~acc.we =>
             (IF cnt_q > 0 THEN bus[1] ELSE rdata_q) = WordAt(amem, WordOf(Start(acc))))'
      BY <2>1, <2>6 DEF Start
    <2>8. ASSUME cnt_q' = 2, ~acc.we PROVE bus'[2] = WordAt(amem, TransAddr)
      <3>1. DataReq /\ ~c.resp /\ (Accepted(c) \/ cnt_q = 2) /\ Len(bus') = 2
        BY <2>8, CountEdge, BusEdge
      <3>2. CASE Accepted(c)
        BY <3>1, <3>2, <2>8, <1>1, BusEdge
      <3>3. CASE cnt_q = 2
        <4>1. bus'[2] = bus[2]
          BY <3>1, <3>3, BusEdge
        <4> QED BY <4>1, <3>3, <2>8 DEF LoadInv
      <3> QED BY <3>1, <3>2, <3>3
    <2>9. (cnt_q = 2 /\ ~acc.we => bus[2] = WordAt(amem, TransAddr))'
      BY <2>1, <2>8
    <2> QED BY <2>3, <2>4, <2>5, <2>7, <2>9 DEF LoadInv
  <1>6. CASE Splits(c)
    <2>1. /\ CtrlUpdate(c) /\ DataReq /\ acc' = acc /\ amem' = amem
          /\ data_misaligned_ex' /\ ~data_misaligned_ex
      BY <1>6 DEF Splits, SecondHalfEdge
    <2>2. cnt_q' = 1
      BY <2>1, CountEdge
    <2>3. ~acc.we => bus'[1] = FirstWord
      <3>1. TransAddr = WordOf(Start(acc))
        BY <2>1, AddressIs
      <3> QED BY <3>1, <2>1, ReadLeaves
    <2>4. data_we_q' = acc.we
      BY <2>1, <1>2
    <2>5. (data_misaligned_ex /\ ~acc.we =>
             (IF cnt_q > 0 THEN bus[1] ELSE rdata_q) = WordAt(amem, WordOf(Start(acc))))'
      BY <2>1, <2>2, <2>3 DEF Start
    <2> QED BY <2>1, <2>2, <2>4, <2>5 DEF LoadInv
  <1>7. CASE Issues(c)
    <2>1. /\ DataReq => CtrlUpdate(c) /\ (data_misaligned_ex \/ ~IsSplit(acc))
          /\ ~data_misaligned_ex'
      BY <1>7 DEF Issues, IssueEdge
    <2>2. cnt_q' # 2
      BY <2>1, CountEdge
    <2>3. ASSUME CtrlUpdate(c), regfile_we_lsu'
          PROVE  cnt_q' > 0 /\ DataRDataExt' = want_wb'
      <3>1. DataReq /\ ~acc.we
        BY <2>3, <1>2, <1>4, Ready DEF Cycle
      <3>2. cnt_q' = 1
        BY <2>3, CountEdge
      <3>3. RespData' = WordAt(amem, TransAddr)
        BY <3>1, <3>2, <2>3, RespDataNext, ReadLeaves
      <3>4. /\ TransAddr = WordOf(IF data_misaligned_ex THEN Add(Start(acc), 4) ELSE Start(acc))
            /\ Offset(DataAddr) = Offset(Start(acc))
        BY <3>1, AddressIs
      <3>5. IsSplit(acc) <=> data_misaligned_ex
        BY <3>1, <2>1, TypeFacts DEF Operands
      <3>6. ASSUME IsSplit(acc) PROVE rdata_q' = FirstWord
        <4>1. data_misaligned_ex /\ ~data_we_q
          BY <3>1, <3>5, <3>6 DEF LoadInv
        <4>2. (IF cnt_q > 0 THEN bus[1] ELSE rdata_q) = FirstWord
          BY <4>1, <3>1 DEF LoadInv
        <4>3. CASE c.resp
          <5>1. rdata_q' = bus[1] /\ cnt_q > 0
            BY <4>1, <4>3, <1>2, <1>3, BusEdge
          <5> QED BY <5>1, <4>2
        <4>4. CASE ~c.resp
          <5>1. cnt_q = 0
            BY <4>4, <2>3, <1>4
          <5> QED BY <5>1, <4>2, <4>4, <1>2
        <4> QED BY <4>3, <4>4, <1>3
      <3>7. RespData' = WordAt(amem, IF IsSplit(acc) THEN WordOf(Add(Start(acc), 4))
                                                     ELSE WordOf(Start(acc)))
        BY <3>3, <3>4, <3>5
      <3>8. acc \in AccessType
        BY TypeFacts
      <3>9. Assembled(acc.type, acc.ext, Offset(Start(acc)), rdata_q', RespData')
              = LoadValue(amem, acc)
        BY <3>6, <3>7, <3>8, LoadAssembled
      <3>10. DataRDataExt' = LoadValue(amem, acc)
        BY <3>4, <3>9, <2>3, <1>2, DataRDataExtNext
      <3> QED BY <3>2, <3>10, <2>3, <1>2
    <2>4. ASSUME ~CtrlUpdate(c), regfile_we_lsu'
          PROVE  cnt_q' > 0 /\ DataRDataExt' = want_wb'
      <3>1. ~data_misaligned_ex
        BY <2>1, <2>4 DEF Operands
      <3> QED BY <3>1, <2>4, WBWaits DEF LoadInv
    <2> QED BY <2>1, <2>2, <2>3, <2>4 DEF LoadInv
  <1> QED BY <1>5, <1>6, <1>7, EXEdge

-----------------------------------------------------------------------------
(* Requests, and the invariant as a whole                                  *)

LEMMA RequestStep ==
  ASSUME TypeInv, Operands, NEW c \in Input, Cycle(c)
  PROVE  RequestStable'
  <1> SUFFICES ASSUME refused' # <<>>
               PROVE  DataReq' /\ cnt_q' < DEPTH /\ AddressPhase' = refused'
    BY DEF RequestStable
  <1>1. TransValid(c) /\ ~c.gnt /\ refused' = AddressPhase
    BY DEF Cycle, HistoryEdge
  <1>2. DataReq /\ cnt_q < 2 /\ ~Accepted(c)
    BY <1>1 DEF TransValid, Accepted, DEPTH
  <1>3. ~CtrlUpdate(c) /\ cnt_q' < DEPTH
    BY <1>2, CountEdge DEF DEPTH
  <1>4. Keeps(c)
    BY <1>2, <1>3, EXEdge DEF Splits, Issues
  <1>5. UNCHANGED <<ex, acc, alu_operand_a_ex, alu_operand_b_ex, prepost_useincr_ex,
                    data_misaligned_ex>>
    BY <1>4 DEF Keeps, exVars
  <1>6. DataAddr' = DataAddr
    BY <1>5 DEF DataAddr, AluResult
  <1>7. AddressPhase' = AddressPhase
    BY <1>5, <1>6 DEF AddressPhase, TransAddr, ByteEnable, DataWData
  <1> QED BY <1>1, <1>2, <1>3, <1>5, <1>7 DEF DataReq

LEMMA NextLSUInv == LSUInv /\ [Next]_vars => LSUInv'
  <1> SUFFICES ASSUME LSUInv, [Next]_vars PROVE LSUInv'
    OBVIOUS
  <1>1. ASSUME NEW c \in Input, Cycle(c) PROVE LSUInv'
    BY <1>1, TypeStep, OperandsStep, StoreStep, LoadStep, RequestStep DEF LSUInv
  <1>2. CASE Issue
    BY <1>2, <1>1 DEF Issue
  <1>3. CASE Split
    BY <1>3, <1>1 DEF Split
  <1>4. CASE Stall
    BY <1>4, <1>1 DEF Stall
  <1>5. CASE UNCHANGED vars
    <2>1. UNCHANGED <<PULP_OBI, ex, acc, alu_operand_a_ex, alu_operand_b_ex,
                      prepost_useincr_ex, regfile_alu_we_ex, data_misaligned_ex,
                      cnt_q, data_type_q, rdata_offset_q, data_sign_ext_q, data_we_q,
                      rdata_q, regfile_we_lsu, bus, mem, amem, want_wb, refused>>
      BY <1>5 DEF vars, exVars, wbVars, busVars, history
    <2>2. /\ DataReq' <=> DataReq
          /\ DataAddr' = DataAddr /\ RespData' = RespData /\ DataRDataExt' = DataRDataExt
      BY <2>1 DEF DataReq, DataAddr, AluResult, RespData, DataRDataExt, Extend
    <2>3. TypeInv'
      BY <2>1 DEF LSUInv, TypeInv, TypeOK
    <2>4. Operands'
      BY <2>1, <2>2 DEF LSUInv, Operands
    <2>5. StoreInv'
      BY <2>1, <2>2 DEF LSUInv, StoreInv, StoresCorrect, Performed
    <2>6. LoadInv'
      BY <2>1, <2>2 DEF LSUInv, LoadInv, TransAddr
    <2>7. RequestStable'
      BY <2>1, <2>2 DEF LSUInv, RequestStable, AddressPhase, TransAddr, ByteEnable, DataWData
    <2> QED BY <2>3, <2>4, <2>5, <2>6, <2>7 DEF LSUInv
  <1> QED BY <1>2, <1>3, <1>4, <1>5 DEF Next

(* The invariant holds in every reachable state, on either bus.            *)
LEMMA LSUInvariant == Spec => []LSUInv
  <1>1. Init => LSUInv
    BY InitLSUInv
  <1>2. LSUInv /\ [Next]_vars => LSUInv'
    BY NextLSUInv
  <1> QED BY <1>1, <1>2, PTL DEF Spec

-----------------------------------------------------------------------------
(* The registers of the load/store unit and of its part of the pipeline    *)
(* keep to their types; in particular never more than DEPTH transactions   *)
(* are outstanding.                                                        *)
THEOREM TypeCorrect == Spec => []TypeOK
  <1>1. LSUInv => TypeOK
    BY DEF LSUInv, TypeInv
  <1> QED BY <1>1, LSUInvariant, PTL

(* A load returns exactly the bytes program order gives it: for every      *)
(* address, size and extension, in one transaction or in two, whatever the *)
(* delays of grants and answers and whatever follows it in EX.             *)
THEOREM LoadsRight == Spec => []LoadsCorrect
  <1>1. LSUInv => LoadsCorrect
    <2> SUFFICES ASSUME LSUInv PROVE LoadsCorrect
      OBVIOUS
    <2>1. regfile_we_lsu => cnt_q > 0 /\ (~data_misaligned_ex => DataRDataExt = want_wb)
      BY DEF LSUInv, LoadInv
    <2>2. cnt_q = Len(bus)
      BY DEF LSUInv, Operands
    <2>3. cnt_q > 0 => bus # <<>>
      BY <2>2
    <2> QED BY <2>1, <2>3 DEF LoadsCorrect
  <1> QED BY <1>1, LSUInvariant, PTL

(* The memory holds what the program has stored, byte for byte: the byte   *)
(* enables and the rotation of the data put every byte of a store, split   *)
(* or not, at its address and at no other.                                 *)
THEOREM StoresRight == Spec => []StoresCorrect
  <1>1. LSUInv => StoresCorrect
    BY DEF LSUInv, StoreInv
  <1> QED BY <1>1, LSUInvariant, PTL

(* A post-increment access writes base + offset back, also when its adder  *)
(* is reused for the second half of a misaligned one.                      *)
THEOREM IncrementsRight == Spec => []IncrementsCorrect
  <1>1. LSUInv => IncrementsCorrect
    BY DEF LSUInv, Operands, IncrementsCorrect, AluResult
  <1> QED BY <1>1, LSUInvariant, PTL

(* A request the memory has not granted is repeated with the same address, *)
(* direction, byte enables and data: what the pass-through OBI adapter     *)
(* (TRANS_STABLE = 1) relies on.                                           *)
THEOREM RequestsStable == Spec => []RequestStable
  <1>1. LSUInv => RequestStable
    BY DEF LSUInv
  <1> QED BY <1>1, LSUInvariant, PTL
===============================================================================
