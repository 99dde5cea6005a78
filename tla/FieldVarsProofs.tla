-------------------------- MODULE FieldVarsProofs --------------------------
(***************************************************************************)
(* Proofs about FieldVars, for bytes, pages and programs of every size.    *)
(***************************************************************************)
EXTENDS FieldVars, TLAPS, WellFoundedInduction

\* Base and Half without the power of two that defines Base.
LEMMA Sizes ==
    /\ Base \in Nat /\ Base > 1 /\ Page \in Nat /\ Page > 0 /\ Page <= Base
    /\ Full \in Nat /\ Half \in Nat /\ Full = 2 * Half /\ 6 * Page <= Half
<1>1. Base \in Nat /\ Base > 1 /\ Base % 2 = 0 /\ Page \in Nat /\ Page > 0 /\ Page <= Base /\ 6 * Page <= Half
  BY VarsSizes
<1>2. PICK h \in Nat : Base = 2 * h
  BY <1>1
<1>3. Full \in Nat /\ Full = 2 * (h * Base) /\ h * Base \in Nat
  BY <1>1, <1>2 DEF Full
<1>4. Half = h * Base
  BY <1>3 DEF Half
<1> QED
  BY <1>1, <1>3, <1>4

\* A C conversion to a word gives a word, and a word stays as it is.
LEMMA Words ==
    /\ \A x \in Int : Word(x) \in Signed
    /\ \A x \in Signed : Word(x) = x
<1>1. Half \in Nat /\ Full \in Nat /\ Full = 2 * Half /\ Full > 0
  <2>1. Half > 0
    BY Sizes
  <2> QED
    BY <2>1, Sizes
<1>2. ASSUME NEW x \in Int PROVE Word(x) \in Signed
  <2>1. (x + Half) % Full \in 0 .. Full - 1
    BY <1>1
  <2> QED
    BY <1>1, <2>1 DEF Word, Signed
<1>3. ASSUME NEW x \in Signed PROVE Word(x) = x
  <2>1. x \in Int /\ x + Half \in 0 .. Full - 1
    BY <1>1 DEF Signed
  <2>2. (x + Half) % Full = x + Half
    BY <1>1, <2>1
  <2> QED
    BY <1>1, <2>1, <2>2 DEF Word
<1> QED
  BY <1>2, <1>3

LEMMA ByteOf ==
    /\ \A x \in Int : x % Base \in Byte
    /\ \A x \in Byte : x % Base = x /\ x \in Nat
BY Sizes DEF Byte

\* The bit operations give words without a sign, whatever they are given.
LEMMA BitResults ==
    ASSUME NEW a, NEW b
    PROVE  And(a, b) \in Int /\ Or(a, b) \in Int /\ Xor(a, b) \in Int
<1>1. \A S \in SUBSET (0 .. 2 * Bits - 1) : OfBits(S) \in 0 .. Full - 1
  BY VarsBits, Zenon DEF OfBits
<1>2. BitsOf(a) \subseteq 0 .. 2 * Bits - 1 /\ BitsOf(b) \subseteq 0 .. 2 * Bits - 1
  BY DEF BitsOf
<1>3. And(a, b) \in 0 .. Full - 1
  BY <1>1, <1>2 DEF And
<1>4. Or(a, b) \in 0 .. Full - 1
  BY <1>1, <1>2 DEF Or
<1>5. Xor(a, b) \in 0 .. Full - 1
  BY <1>1, <1>2 DEF Xor
<1> QED
  BY <1>3, <1>4, <1>5, Sizes

\* Division and remainder of a byte or a word by one that is not zero.
LEMMA Division ==
    ASSUME NEW a \in Int, NEW b \in Int, b # 0
    PROVE  Quot(a, b) \in Int /\ Rem(a, b) \in Int
<1>1. Abs(a) \in Int /\ Abs(b) \in Int /\ Abs(b) > 0
  BY DEF Abs
<1>2. Abs(a) \div Abs(b) \in Int
  BY <1>1
<1>3. Quot(a, b) \in Int
  BY <1>2 DEF Quot
<1>4. b * Quot(a, b) \in Int
  BY <1>3
<1> QED
  BY <1>3, <1>4 DEF Rem

\* The operands of the instructions of this script.
Operands == {o \in Operand : o.bank # 0 => o.arg \in 0 .. Page - 1}
LEMMA OperandsOf ==
    ASSUME words \in Programs, NEW i \in words
    PROVE  i \in Instr /\ i.d \in Operands /\ i.s \in Operands /\ i.t \in Operands /\ i.more \in Operands
<1>1. i \in Instr
  BY VarsPrograms
<1>2. \A o \in {i.d, i.s, i.t, i.more} : o.bank # 0 => o.arg \in 0 .. Page - 1
  BY VarsPrograms
<1>3. i.d \in Operand /\ i.s \in Operand /\ i.t \in Operand /\ i.more \in Operand
  BY <1>1 DEF Instr
<1> QED
  BY <1>1, <1>2, <1>3 DEF Operands

\* A variable lies in the memories, and so does the byte after it.
LEMMA PagesOf == \A b : PageOf(b) \in 0 .. 4
BY DEF PageOf

LEMMA CellOf ==
    ASSUME NEW o \in Operands, o.bank \in Banks
    PROVE  Cell(o) \in Cells /\ After(Cell(o)) \in Cells /\ After(Cell(o)) # Cell(o)
<1>1. o.arg \in 0 .. Page - 1
  BY DEF Operands, Banks, Narrow, Wide
<1>2. CASE o.bank \in {5, 6}
  BY <1>1, <1>2, Sizes DEF Cell, After, Cells
<1>3. CASE o.bank \notin {5, 6}
  <2> DEFINE p == PageOf(o.bank)
  <2>1. p \in 0 .. 4
    BY PagesOf
  <2>2. p * Page \in Nat /\ p * Page <= 4 * Page
    <3>1. p = 0 \/ p = 1 \/ p = 2 \/ p = 3 \/ p = 4
      BY <2>1
    <3> QED BY <3>1, Sizes
  <2>3. p * Page + o.arg \in 0 .. 5 * Page - 1
    BY <1>1, <2>2, Sizes
  <2>4. Cell(o) = <<"save", p * Page + o.arg>>
    BY <1>3 DEF Cell
  <2> HIDE DEF p
  <2> QED
    BY <2>3, <2>4, Sizes DEF After, Cells
<1> QED BY <1>2, <1>3

Memory == [Cells -> Byte]

\* What the read accessors return.
LEMMA Reads ==
    ASSUME NEW m \in Memory, NEW o \in Operands
    PROVE  ReadU8(m, o) \in Byte /\ ReadS16(m, o) \in Signed
<1>1. o.arg \in Signed /\ o.arg \in Int
  BY Sizes DEF Operands, Operand, Signed
<1>2. o.arg % Base \in Byte /\ 0 \in Byte /\ 0 \in Signed /\ Byte \subseteq Signed
  <2>1. Base <= Half
    <3>1. PICK h \in Nat : Base = 2 * h
      BY VarsSizes
    <3>2. h >= 1 /\ h * Base >= Base /\ h * Base \in Nat /\ Full = 2 * (h * Base)
      BY <3>1, Sizes DEF Full
    <3> QED BY <3>2, Sizes DEF Half
  <2> QED
    BY <1>1, <2>1, ByteOf, Sizes DEF Byte, Signed
<1>3. CASE o.bank \in Banks
  <2>1. m[Cell(o)] \in Byte /\ m[After(Cell(o))] \in Byte
    BY <1>3, CellOf DEF Memory
  <2>2. m[Cell(o)] + Base * m[After(Cell(o))] \in Int
    BY <2>1, Sizes DEF Byte
  <2>3. Word(m[Cell(o)] + Base * m[After(Cell(o))]) \in Signed
    BY <2>2, Words
  <2>4. o.bank # 0
    BY <1>3 DEF Banks, Narrow, Wide
  <2> QED
    BY <1>2, <1>3, <2>1, <2>3, <2>4 DEF ReadU8, ReadS16, Banks
<1>4. CASE o.bank \notin Banks
  BY <1>1, <1>2, <1>4 DEF ReadU8, ReadS16, Banks
<1> QED BY <1>3, <1>4

\* What the write accessors leave.
LEMMA Writes ==
    ASSUME mem \in Memory, NEW o \in Operands, NEW v \in Int
    PROVE  WriteU8(o, v) \in Memory /\ WriteS16(o, v) \in Memory
<1>1. v % Base \in Byte /\ v \div Base \in Int /\ (v \div Base) % Base \in Byte
  BY ByteOf, Sizes
<1>2. WriteU8(o, v) \in Memory
  BY <1>1 DEF WriteU8, Memory
<1>3. WriteS16(o, v) \in Memory
  BY <1>1 DEF WriteS16, Memory
<1> QED BY <1>2, <1>3

\* A remainder does not change by a multiple of the divisor.
LEMMA Modulo ==
    ASSUME NEW n \in Nat, n > 0, NEW x \in Int, NEW k \in Int
    PROVE  (x - n * k) % n = x % n
<1> DEFINE y == x - n * k
           q == x \div n
           d == y \div n
<1>1. y \in Int /\ q \in Int /\ x % n \in 0 .. n - 1
  OBVIOUS
<1>2. x = (x \div n) * n + (x % n)
  OBVIOUS
<1>3. y = (y \div n) * n + (y % n) /\ y % n \in 0 .. n - 1 /\ d \in Int
  <2> HIDE DEF y
  <2>1. y = (y \div n) * n + (y % n)
    BY <1>1
  <2>2. y % n \in 0 .. n - 1
    BY <1>1
  <2>3. y \div n \in Int
    BY <1>1
  <2> QED BY <2>1, <2>2, <2>3
<1>4. PICK e \in Int : e = q - k - d
  BY <1>1, <1>3
<1>5. PICK r \in 0 .. n - 1 : r = x % n
  BY <1>1
<1>6. PICK t \in 0 .. n - 1 : t = y % n
  BY <1>3
<1>7. x = q * n + r /\ x - n * k = d * n + t
  BY <1>2, <1>3, <1>5, <1>6
<1> HIDE DEF y, q, d
<1>8. n * e = n * q - n * k - n * d
  BY <1>1, <1>3, <1>4
<1>9. n * e = t - r
  BY <1>1, <1>3, <1>7, <1>8
<1>10. e = 0
  <2>1. CASE e >= 1
    <3>1. n * e >= n
      BY <2>1
    <3> QED BY <3>1, <1>9
  <2>2. CASE e <= -1
    <3>1. n * e <= -n
      BY <2>2
    <3> QED BY <3>1, <1>9
  <2> QED BY <2>1, <2>2
<1>11. t = r
  <2>1. n * e = 0
    BY <1>10
  <2> QED BY <2>1, <1>9
<1> QED
  BY <1>5, <1>6, <1>11 DEF y

\* The two bytes of a word, put together again, are the word.
LEMMA TwoBytes ==
    ASSUME NEW v \in Int
    PROVE  Word((v % Base) + Base * ((v \div Base) % Base)) = Word(v)
<1> DEFINE q == v \div Base
           k == q \div Base
<1>1. Base \in Nat /\ Base > 0
  BY Sizes
<1>2. v = (v \div Base) * Base + (v % Base)
  BY <1>1
<1>3. q \in Int /\ v % Base \in Int
  BY <1>1
<1>4. v = q * Base + (v % Base) /\ q \in Int /\ v % Base \in Int
  BY <1>2, <1>3
<1>5. q = (q \div Base) * Base + (q % Base)
  <2> HIDE DEF q
  <2> QED BY <1>1, <1>3
<1>6. q = k * Base + (q % Base) /\ k \in Int /\ q % Base \in Int
  <2>1. k \in Int /\ q % Base \in Int
    BY <1>1, <1>3
  <2> QED BY <2>1, <1>5
<1>7. Base * q = Base * (Base * k) + Base * (q % Base)
  BY <1>4, <1>6, Sizes
<1>8. Base * (Base * k) = Full * k
  BY <1>6, Sizes DEF Full
<1>9. (v % Base) + Base * (q % Base) = v - Full * k
  BY <1>4, <1>6, <1>7, <1>8, Sizes
<1>10. ((v + Half) - Full * k) % Full = (v + Half) % Full
  <2>1. Full > 0 /\ Full \in Nat /\ v + Half \in Int
    <3>1. Half > 0
      BY Sizes
    <3> QED BY <3>1, Sizes
  <2> QED BY <2>1, <1>6, Modulo
<1>11. (v - Full * k) + Half = (v + Half) - Full * k
  BY <1>6, Sizes
<1> QED
  BY <1>9, <1>10, <1>11 DEF Word

\* A variable has, after a write, the value that was written, as far as it fits.
LEMMA RoundTrip ==
    ASSUME mem \in Memory, NEW o \in Operands, NEW v \in Int
    PROVE  /\ o.bank \in Banks => ReadU8(WriteU8(o, v), o) = v % Base
           /\ o.bank \in Wide => ReadS16(WriteS16(o, v), o) = Word(v)
           /\ o.bank \in Narrow => ReadS16(WriteS16(o, v), o) = v % Base
           /\ o.bank \notin Banks => WriteU8(o, v) = mem /\ WriteS16(o, v) = mem
<1>1. o.bank \in Banks => o.bank # 0 /\ Cell(o) \in Cells /\ After(Cell(o)) \in Cells /\ After(Cell(o)) # Cell(o)
  BY CellOf DEF Banks, Narrow, Wide
<1>2. o.bank \in Banks => WriteU8(o, v)[Cell(o)] = v % Base
  BY <1>1 DEF WriteU8, Memory
<1>3. o.bank \in Narrow => o.bank \notin Wide /\ WriteS16(o, v)[Cell(o)] = v % Base
  BY <1>1 DEF WriteS16, Memory, Banks, Narrow, Wide
<1>4. o.bank \in Wide => /\ o.bank \notin Narrow
                         /\ WriteS16(o, v)[Cell(o)] = v % Base
                         /\ WriteS16(o, v)[After(Cell(o))] = (v \div Base) % Base
  BY <1>1 DEF WriteS16, Memory, Banks, Narrow, Wide
<1>5. o.bank \in Banks => ReadU8(WriteU8(o, v), o) = v % Base
  BY <1>1, <1>2 DEF ReadU8
<1>6. o.bank \in Wide => ReadS16(WriteS16(o, v), o) = Word(v)
  BY <1>1, <1>4, TwoBytes DEF ReadS16, Banks
<1>7. o.bank \in Narrow => ReadS16(WriteS16(o, v), o) = v % Base
  BY <1>1, <1>3 DEF ReadS16, Banks
<1>8. o.bank \notin Banks => WriteU8(o, v) = mem /\ WriteS16(o, v) = mem
  BY DEF WriteU8, WriteS16, Banks
<1> QED BY <1>5, <1>6, <1>7, <1>8

\* Where a write cannot have gone.
LEMMA Elsewhere ==
    ASSUME mem \in Memory, NEW o \in Operands, NEW v \in Int, NEW c \in Cells
    PROVE  /\ c # Cell(o) => WriteU8(o, v)[c] = mem[c]
           /\ c # Cell(o) /\ (o.bank \in Wide => c # After(Cell(o))) => WriteS16(o, v)[c] = mem[c]
<1>1. c # Cell(o) => WriteU8(o, v)[c] = mem[c]
  BY DEF WriteU8, Memory
<1>2. c # Cell(o) /\ (o.bank \in Wide => c # After(Cell(o))) => WriteS16(o, v)[c] = mem[c]
  BY DEF WriteS16, Memory
<1> QED BY <1>1, <1>2

\* The opcodes that calculate write a number to their variable, and no more.
LEMMA Eights ==
    ASSUME words \in Programs, mem \in Memory, NEW i \in words, Calculates8(i)
    PROVE  /\ Keep /\ i.op \in Ops8 \cup {"HBYTE"}
           /\ \E v \in Int : mem' = WriteU8(i.d, v)
<1>1. A8(i) \in Byte /\ B8(i) \in Byte /\ B16(i) \in Signed
  BY OperandsOf, Reads DEF A8, B8, B16
<1>2. A8(i) \in Nat /\ B8(i) \in Nat /\ B16(i) \in Int /\ Base \in Nat /\ Base > 0
  BY <1>1, Sizes DEF Byte, Signed
<1>3. CASE Biton(i) \/ Bitof(i) \/ Bitxr(i) \/ AndOp(i) \/ OrOp(i) \/ XorOp(i)
  BY <1>3, BitResults DEF Biton, Bitof, Bitxr, AndOp, OrOp, XorOp, Alu8, Executes, Ops8
<1>4. CASE Set(i) \/ Lbyte(i) \/ Hbyte(i)
  <2>1. B16(i) \div Base \in Int
    BY <1>2
  <2> QED BY <1>2, <1>4, <2>1 DEF Set, Lbyte, Hbyte, Alu8, Executes, Ops8
<1>5. CASE Plus(i) \/ PlusEx(i) \/ Minus(i) \/ MinsEx(i) \/ Mul(i)
  <2>1. A8(i) * B8(i) \in Int
    BY <1>2
  <2> QED BY <1>2, <1>5, <2>1 DEF Plus, PlusEx, Minus, MinsEx, Mul, Alu8, Executes, Ops8, AtMost, AtLeast
<1>6. CASE Div(i) \/ Remai(i)
  <2>1. B8(i) > 0
    BY <1>2, <1>6 DEF Div, Remai
  <2>2. A8(i) \div B8(i) \in Int /\ A8(i) % B8(i) \in Int
    BY <1>2, <2>1
  <2> QED BY <1>6, <2>2 DEF Div, Remai, Alu8, Executes, Ops8
<1>7. CASE Inc(i) \/ IncEx(i) \/ Dec(i) \/ DecEx(i)
  BY <1>2, <1>7 DEF Inc, IncEx, Dec, DecEx, Alu8, Executes, Ops8, AtMost, AtLeast
<1> QED BY <1>3, <1>4, <1>5, <1>6, <1>7 DEF Calculates8

LEMMA Sixteens ==
    ASSUME words \in Programs, mem \in Memory, NEW i \in words, Calculates16(i)
    PROVE  /\ Keep /\ i.op \in Ops16
           /\ \E v \in Int : mem' = WriteS16(i.d, v)
<1>1. /\ A16(i) \in Signed /\ B16(i) \in Signed
      /\ B8(i) \in Byte /\ ReadU8(mem, i.t) \in Byte
  BY OperandsOf, Reads DEF A16, B8, B16
<1>2. /\ A16(i) \in Int /\ B16(i) \in Int /\ B8(i) \in Int /\ ReadU8(mem, i.t) \in Int
      /\ Base \in Nat /\ Half \in Nat
  BY <1>1, Sizes DEF Byte, Signed
<1>3. CASE And2(i) \/ Or2(i) \/ Xor2(i)
  BY <1>3, BitResults DEF And2, Or2, Xor2, Alu16, Executes, Ops16
<1>4. CASE Set2(i) \/ TwoByte(i) \/ Mul2(i)
  <2>1. A16(i) * B16(i) \in Int /\ B8(i) + Base * ReadU8(mem, i.t) \in Int
    BY <1>2
  <2> QED BY <1>2, <1>4, <2>1 DEF Set2, TwoByte, Mul2, Alu16, Executes, Ops16
<1>5. CASE Plus2(i) \/ Pls2Ex(i) \/ Mins2(i) \/ Mns2Ex(i)
  BY <1>2, <1>5 DEF Plus2, Pls2Ex, Mins2, Mns2Ex, Alu16, Executes, Ops16, AtMost, BelowLeast
<1>6. CASE Div2(i) \/ Rema2(i)
  <2>1. B16(i) # 0
    BY <1>6 DEF Div2, Rema2
  <2>2. Quot(A16(i), B16(i)) \in Int /\ Rem(A16(i), B16(i)) \in Int
    BY <1>2, <2>1, Division
  <2> QED BY <1>6, <2>2 DEF Div2, Rema2, Alu16, Executes, Ops16
<1>7. CASE Inc2(i) \/ Inc2Ex(i) \/ Dec2(i) \/ Dec2Ex(i)
  BY <1>2, <1>7 DEF Inc2, Inc2Ex, Dec2, Dec2Ex, Alu16, Executes, Ops16, AtMost, BelowLeast
<1> QED BY <1>3, <1>4, <1>5, <1>6, <1>7 DEF Calculates16

\* A number of SETX, GETX and SRCHX is a cell's, perhaps one before the first page.
LEMMA Numbers ==
    ASSUME words \in Programs, mem \in Memory, NEW i \in words, NEW base \in Int, NEW o \in Operands
    PROVE  /\ Number(i.page, base, o) \in Int
           /\ Number(i.page, base, o) < Half
           /\ <<Region(i.page), Number(i.page, base, o)>> \in Cells
<1>1. PICK x \in Signed : x = Word(base + ReadS16(mem, o) + PageOf(i.page) * Page)
  <2>1. ReadS16(mem, o) \in Int
    BY Reads, Sizes DEF Signed
  <2>2. PageOf(i.page) * Page \in Int
    BY PagesOf, Sizes
  <2> QED BY <2>1, <2>2, Words
<1>2. Number(i.page, base, o) = AtMost(x, Last(Region(i.page)))
  BY <1>1 DEF Number, Clamp
<1>3. Region(i.page) \in {"map", "save"}
  BY DEF Region
<1>4. CASE Region(i.page) = "map"
  BY <1>1, <1>2, <1>4, Sizes DEF AtMost, Last, Cells, Signed
<1>5. CASE Region(i.page) = "save"
  BY <1>1, <1>2, <1>5, Sizes DEF AtMost, Last, Cells, Signed
<1> QED BY <1>3, <1>4, <1>5

LEMMA Comparisons == ASSUME NEW ope, NEW a, NEW b PROVE \A r \in Compared(ope, a, b) : r \in BOOLEAN
BY Zenon DEF Compared

----------------------------------------------------------------------------
(***************************************************************************)
(* The walk of SRCHX                                                       *)
(***************************************************************************)
SmallerThan == {ss \in Nat \X Nat : ss[1] < ss[2]}

LEMMA SmallerIsWellFounded == IsWellFoundedOn(SmallerThan, Nat)
BY NatLessThanWellFounded DEF SmallerThan, OpToRel

LEMMA LeastThere ==
    ASSUME NEW S \in SUBSET Nat, S # {}
    PROVE  \E m \in S : \A n \in S : m <= n
<1>1. PICK m \in S : \A n \in S : <<n, m>> \notin SmallerThan
  <2> HIDE DEF SmallerThan
  <2> QED
    BY SmallerIsWellFounded, WFMin
<1>2. \A n \in S : ~(n < m)
  BY <1>1 DEF SmallerThan
<1> QED
  BY <1>2

\* One round of the loop, with what the rounds after it come upon.
Round(region, value, last, found, n) ==
    IF n > last THEN -1 ELSE IF mem[<<region, n>>] = value THEN n ELSE found[n + 1]

\* What a walk from n should come upon: the least number with the value, or -1.
Hits(region, value, last, n) == {h \in n .. last : mem[<<region, h>>] = value}
Should(region, value, last, n, r) ==
    LET hits == Hits(region, value, last, n)
    IN  (r = -1 /\ hits = {}) \/ (r \in hits /\ \A h \in hits : r <= h)

LEMMA ShouldBeOne ==
    ASSUME NEW region, NEW value, NEW last \in Int, NEW n \in Int
    PROVE  /\ \E r \in Int : Should(region, value, last, n, r)
           /\ \A r, s : Should(region, value, last, n, r) /\ Should(region, value, last, n, s) => r = s
<1> DEFINE hits == Hits(region, value, last, n)
           away == {d \in Nat : n + d \in hits}
<1>1. \A h \in hits : h \in Int /\ n <= h
  BY DEF Hits
<1> HIDE DEF hits
<1>2. CASE hits = {}
  BY <1>2 DEF Should, hits
<1>3. CASE hits # {}
  <2>1. PICK h \in hits : TRUE
    BY <1>3
  <2>2. h - n \in Nat /\ n + (h - n) = h
    BY <1>1
  <2>3. away \in SUBSET Nat /\ away # {}
    BY <2>2
  <2>4. PICK d \in away : \A e \in away : d <= e
    BY <2>3, LeastThere
  <2>5. n + d \in hits /\ \A k \in hits : n + d <= k
    <3>1. ASSUME NEW k \in hits PROVE n + d <= k
      <4>1. k - n \in Nat /\ n + (k - n) = k /\ k \in Int
        BY <1>1
      <4>2. k - n \in away /\ d \in Nat
        BY <2>4, <4>1
      <4>3. d <= k - n
        BY <2>4, <4>2
      <4> QED
        BY <4>1, <4>2, <4>3
    <3> QED
      BY <3>1
  <2>6. Should(region, value, last, n, n + d) /\ n + d \in Int
    BY <2>5 DEF Should, hits
  <2>7. ASSUME NEW r, NEW s, Should(region, value, last, n, r), Should(region, value, last, n, s) PROVE r = s
    <3>1. r \in hits /\ s \in hits /\ r <= s /\ s <= r
      BY <1>3, <2>7 DEF Should, hits
    <3> QED
      BY <1>1, <3>1
  <2> QED
    BY <2>6, <2>7
<1> QED
  BY <1>2, <1>3

\* A round that is followed by what should be come upon comes upon it.
LEMMA RoundIsRight ==
    ASSUME NEW region, NEW value, NEW last \in Int, NEW n \in Int, NEW found,
           n <= last => Should(region, value, last, n + 1, found[n + 1])
    PROVE  Should(region, value, last, n, Round(region, value, last, found, n))
<1>1. CASE n > last
  BY <1>1 DEF Should, Round, Hits
<1>2. CASE n <= last /\ mem[<<region, n>>] = value
  BY <1>2 DEF Should, Round, Hits
<1>3. CASE n <= last /\ mem[<<region, n>>] # value
  <2>1. Hits(region, value, last, n) = Hits(region, value, last, n + 1)
    <3>1. \A h \in n .. last : h = n \/ h \in n + 1 .. last
      OBVIOUS
    <3>2. \A h \in n + 1 .. last : h \in n .. last
      OBVIOUS
    <3> QED
      BY <1>3, <3>1, <3>2 DEF Hits
  <2> QED
    BY <1>3, <2>1 DEF Should, Round
<1> QED
  BY <1>1, <1>2, <1>3

LEMMA WalkIs ==
    ASSUME NEW region, NEW value, NEW last \in Int, NEW n \in Int
    PROVE  Should(region, value, last, n, Walk(region, value, last)[n])
<1> DEFINE Is(k, r) == Should(region, value, last, k, r)
           Rounds(f) == [k \in Int |-> Round(region, value, last, f, k)]
           there == [k \in Int |-> CHOOSE r : Is(k, r)]
           walk == Walk(region, value, last)
<1>1. \A k \in Int : Is(k, there[k])
  BY ShouldBeOne
<1>2. \A k \in Int : Is(k, Round(region, value, last, there, k))
  <2>1. ASSUME NEW k \in Int PROVE Is(k, Round(region, value, last, there, k))
    <3>1. Is(k + 1, there[k + 1])
      BY <1>1
    <3> HIDE DEF there
    <3> QED
      BY <3>1, RoundIsRight
  <2> QED
    BY <2>1
<1>3. \A k \in Int : there[k] = Round(region, value, last, there, k)
  BY <1>1, <1>2, ShouldBeOne
<1>4. there = Rounds(there)
  BY <1>3
<1>5. walk = Rounds(walk)
  <2>1. walk = CHOOSE f : f = Rounds(f)
    BY DEF Walk, Round
  <2> HIDE DEF there, walk, Rounds
  <2> QED
    BY <1>4, <2>1
<1>6. \A k \in Int : walk[k] = Round(region, value, last, walk, k)
  <2> HIDE DEF walk
  <2> QED
    BY <1>5
<1> HIDE DEF walk
<1> DEFINE Bad == {d \in Nat : ~Is(last - d, walk[last - d])}
<1>7. Bad = {}
  <2> SUFFICES ASSUME Bad # {} PROVE FALSE
    OBVIOUS
  <2>1. Bad \in SUBSET Nat
    OBVIOUS
  <2>2. PICK d \in Bad : \A e \in Bad : d <= e
    BY <2>1, LeastThere
  <2> DEFINE k == last - d
  <2>3. d \in Nat /\ k \in Int /\ k <= last /\ ~Is(k, walk[k])
    OBVIOUS
  <2>4. Is(k + 1, walk[k + 1])
    <3>1. CASE d = 0
      <4>1. k + 1 > last /\ k + 1 \in Int
        BY <3>1
      <4>2. walk[k + 1] = -1
        BY <1>6, <4>1 DEF Round
      <4> QED
        BY <4>1, <4>2 DEF Should, Hits
    <3>2. CASE d > 0
      <4>1. d - 1 \in Nat /\ ~(d <= d - 1) /\ last - (d - 1) = k + 1
        BY <2>3, <3>2
      <4>2. d - 1 \notin Bad
        BY <2>2, <4>1
      <4> QED
        BY <4>1, <4>2
    <3> QED
      BY <2>3, <3>1, <3>2
  <2>5. Is(k, Round(region, value, last, walk, k))
    BY <2>3, <2>4, RoundIsRight
  <2> QED
    BY <1>6, <2>3, <2>5
<1>8. ASSUME n <= last PROVE Should(region, value, last, n, walk[n])
  <2>1. PICK d \in Nat : n = last - d
    <3>1. last - n \in Nat /\ n = last - (last - n)
      BY <1>8
    <3> QED
      BY <3>1
  <2>2. Should(region, value, last, last - d, walk[last - d])
    BY <1>7
  <2> QED
    BY <2>1, <2>2
<1>9. ASSUME n > last PROVE Should(region, value, last, n, walk[n])
  <2>1. walk[n] = -1
    BY <1>6, <1>9 DEF Round
  <2>2. Hits(region, value, last, n) = {}
    BY <1>9 DEF Hits
  <2> QED
    BY <2>1, <2>2 DEF Should
<1> QED
  BY <1>8, <1>9 DEF walk

LEMMA WalkIsANumber ==
    ASSUME NEW region, NEW value, NEW last \in Int, NEW n \in Int
    PROVE  Walk(region, value, last)[n] \in Int
<1> DEFINE r == Walk(region, value, last)[n]
<1>1. Should(region, value, last, n, r)
  BY WalkIs
<1> HIDE DEF r
<1>2. r = -1 \/ r \in n .. last
  BY <1>1 DEF Should, Hits
<1>3. r \in Int
  BY <1>2
<1> QED
  BY <1>3 DEF r

\* Every variable of the specification has its type.
THEOREM VarsTypes == Spec => []TypeOK
<1>1. Init => TypeOK
  <2>1. 0 \in Byte /\ 1 \in Byte
    BY Sizes DEF Byte
  <2>2. [c \in Cells |-> 0] \in [Cells -> Byte]
    BY <2>1
  <2> QED BY <2>1, <2>2 DEF Init, TypeOK
<1>2. TypeOK /\ [Next]_vars => TypeOK'
  <2> SUFFICES ASSUME TypeOK, [Next]_vars PROVE TypeOK'
    OBVIOUS
  <2>1. words \in Programs /\ mem \in Memory
    BY DEF TypeOK, Memory
  <2>2. CASE UNCHANGED vars
    BY <2>2 DEF vars, TypeOK
  <2>3. ASSUME NEW i \in words, Calculates8(i) PROVE TypeOK'
    BY <2>1, <2>3, Eights, Writes, OperandsOf DEF TypeOK, Keep, Memory
  <2>4. ASSUME NEW i \in words, Calculates16(i) PROVE TypeOK'
    BY <2>1, <2>4, Sixteens, Writes, OperandsOf DEF TypeOK, Keep, Memory
  <2>5. ASSUME NEW i \in words, DividesByZero(i) PROVE TypeOK'
    BY <2>5 DEF TypeOK, DividesByZero
  <2>6. ASSUME NEW i \in words, Setx(i) PROVE TypeOK'
    <3>1. ReadU8(mem, i.t) \in Byte
      BY <2>1, OperandsOf, Reads
    <3> QED BY <2>1, <2>6, <3>1 DEF TypeOK, Setx, Keep
  <2>7. ASSUME NEW i \in words, Getx(i) PROVE TypeOK'
    <3>1. i.s.arg % Base \in Int
      <4>1. i.s.arg \in Int
        BY <2>1, OperandsOf, Sizes DEF Operands, Operand, Signed
      <4> QED BY <4>1, Sizes
    <3>2. Indexed(i) \in Cells
      BY <2>1, <3>1, OperandsOf, Numbers DEF Indexed
    <3>3. PICK v \in Byte : mem' = WriteU8(i.t, v)
      BY <2>7, <3>2 DEF Getx, TypeOK
    <3>4. v \in Int
      BY Sizes DEF Byte
    <3> QED BY <2>1, <2>7, <3>3, <3>4, Writes, OperandsOf DEF TypeOK, Getx, Keep, Memory
  <2>8. ASSUME NEW i \in words, Srchx(i) PROVE TypeOK'
    <3>1. i.at \in Int
      BY <2>1, OperandsOf, Sizes DEF Instr
    <3>2. Number(i.page, i.at, i.s) \in Int /\ Number(i.page, i.at, i.t) \in Int
      BY <2>1, <3>1, OperandsOf, Numbers
    <3>3. PICK n \in Int : mem' = WriteS16(i.d, n)
      BY <2>8, <3>2, WalkIsANumber DEF Srchx
    <3> QED BY <2>1, <2>8, <3>3, Writes, OperandsOf DEF TypeOK, Srchx, Keep, Memory
  <2>9. ASSUME NEW i \in words, Randm(i) PROVE TypeOK'
    <3>1. index' \in Byte
      BY <2>9, ByteOf, Sizes DEF TypeOK, Randm, Byte
    <3>2. RandomTable[index'] \in Byte /\ RandomTable[index'] \in Int
      BY <3>1, VarsTable, Sizes DEF Byte
    <3> QED BY <2>1, <2>9, <3>1, <3>2, Writes, OperandsOf DEF TypeOK, Randm, Memory
  <2>10. ASSUME NEW i \in words, Rdmsd(i) PROVE TypeOK'
    <3>1. B8(i) * Root + 1 \in Int
      BY <2>1, OperandsOf, Reads, Sizes, VarsSizes DEF B8, Byte
    <3>2. step' \in Byte
      BY <2>10, <3>1, ByteOf DEF Rdmsd
    <3> QED BY <2>10, <3>2 DEF TypeOK, Rdmsd
  <2>11. ASSUME NEW i \in words, IfCheck(i) \/ If2CheckSigned(i) \/ If2CheckUnsigned(i) \/ KeyCheck(i)
         PROVE  TypeOK'
    <3>1. taken' \in BOOLEAN
      BY <2>11, Comparisons, Zenon DEF IfCheck, If2CheckSigned, If2CheckUnsigned, KeyCheck, Tests
    <3> QED BY <2>11, <3>1 DEF TypeOK, IfCheck, If2CheckSigned, If2CheckUnsigned, KeyCheck, Tests
  <2> QED BY <2>2, <2>3, <2>4, <2>5, <2>6, <2>7, <2>8, <2>9, <2>10, <2>11 DEF Next, Runs, Other
<1> QED BY <1>1, <1>2, PTL DEF Spec

SaturatesStep == [\A i \in words : Saturates(i)]_vars

\* Saturating sums and differences never come out on the other side of their
\* operand, whatever banks they read and write.
THEOREM SumsNeverWrap == Spec => NeverWraps
<1>1. TypeOK /\ [Next]_vars => SaturatesStep
  <2> SUFFICES ASSUME TypeOK, NEW i \in words PROVE Saturates(i)
    BY DEF SaturatesStep
  <2>1. mem \in Memory /\ i.d \in Operands /\ i.s \in Operands
    BY OperandsOf DEF TypeOK, Memory
  <2>2. A8(i) \in Byte /\ B8(i) \in Byte /\ A16(i) \in Signed /\ B16(i) \in Signed
    BY <2>1, Reads DEF A8, B8, A16, B16
  <2>3. /\ A8(i) \in 0 .. Base - 1 /\ B8(i) \in 0 .. Base - 1 /\ Base \in Nat /\ Half \in Nat
        /\ A16(i) \in -Half .. Half - 1 /\ B16(i) \in -Half .. Half - 1
    BY <2>2, Sizes DEF Byte, Signed
  <2>4. ASSUME NEW v \in Byte, mem' = WriteU8(i.d, v)
        PROVE  ReadU8(mem', i.d) = v \/ mem' = mem
    <3>1. v \in Int /\ v % Base = v
      BY ByteOf, Sizes DEF Byte
    <3> QED BY <2>1, <2>4, <3>1, RoundTrip
  <2>5. ASSUME NEW v \in Signed, mem' = WriteS16(i.d, v), i.d.bank \in Wide
        PROVE  ReadS16(mem', i.d) = v
    <3>1. v \in Int /\ Word(v) = v
      BY Words, Sizes DEF Signed
    <3> QED BY <2>1, <2>5, <3>1, RoundTrip
  <2>6. ASSUME PlusEx(i) \/ IncEx(i) PROVE Of(i, mem') >= Of(i, mem)
    <3>1. PICK v \in Byte : mem' = WriteU8(i.d, v) /\ v >= A8(i)
      <4>1. CASE PlusEx(i)
        <5>1. /\ AtMost(A8(i) + B8(i), Base - 1) \in 0 .. Base - 1
              /\ AtMost(A8(i) + B8(i), Base - 1) >= A8(i)
          BY <2>3 DEF AtMost
        <5> QED BY <4>1, <5>1 DEF PlusEx, Alu8, Byte
      <4>2. CASE IncEx(i)
        <5>1. AtMost(A8(i) + 1, Base - 1) \in 0 .. Base - 1 /\ AtMost(A8(i) + 1, Base - 1) >= A8(i)
          BY <2>3 DEF AtMost
        <5> QED BY <4>2, <5>1 DEF IncEx, Alu8, Byte
      <4> QED BY <2>6, <4>1, <4>2
    <3>2. i.op \notin Ops16
      BY <2>6 DEF PlusEx, IncEx, Alu8, Executes, Ops16
    <3>3. Of(i, mem') = ReadU8(mem', i.d) /\ Of(i, mem) = A8(i)
      BY <3>2 DEF Of, A8
    <3> QED BY <2>3, <2>4, <3>1, <3>3
  <2>7. ASSUME MinsEx(i) \/ DecEx(i) PROVE Of(i, mem') <= Of(i, mem)
    <3>1. PICK v \in Byte : mem' = WriteU8(i.d, v) /\ v <= A8(i)
      <4>1. CASE MinsEx(i)
        <5>1. AtLeast(A8(i) - B8(i), 0) \in 0 .. Base - 1 /\ AtLeast(A8(i) - B8(i), 0) <= A8(i)
          BY <2>3 DEF AtLeast
        <5> QED BY <4>1, <5>1 DEF MinsEx, Alu8, Byte
      <4>2. CASE DecEx(i)
        <5>1. AtLeast(A8(i) - 1, 0) \in 0 .. Base - 1 /\ AtLeast(A8(i) - 1, 0) <= A8(i)
          BY <2>3 DEF AtLeast
        <5> QED BY <4>2, <5>1 DEF DecEx, Alu8, Byte
      <4> QED BY <2>7, <4>1, <4>2
    <3>2. i.op \notin Ops16
      BY <2>7 DEF MinsEx, DecEx, Alu8, Executes, Ops16
    <3>3. Of(i, mem') = ReadU8(mem', i.d) /\ Of(i, mem) = A8(i)
      BY <3>2 DEF Of, A8
    <3> QED BY <2>3, <2>4, <3>1, <3>3
  <2>8. ASSUME i.d.bank \in Wide, Inc2Ex(i) \/ (B16(i) >= 0 /\ Pls2Ex(i)) PROVE Of(i, mem') >= Of(i, mem)
    <3>1. PICK v \in Signed : mem' = WriteS16(i.d, v) /\ v >= A16(i)
      <4>1. CASE Inc2Ex(i)
        <5>1. /\ AtMost(A16(i) + 1, Half - 1) \in -Half .. Half - 1
              /\ AtMost(A16(i) + 1, Half - 1) >= A16(i)
          BY <2>3 DEF AtMost
        <5> QED BY <4>1, <5>1 DEF Inc2Ex, Alu16, Signed
      <4>2. CASE B16(i) >= 0 /\ Pls2Ex(i)
        <5>1. /\ AtMost(A16(i) + B16(i), Half - 1) \in -Half .. Half - 1
              /\ AtMost(A16(i) + B16(i), Half - 1) >= A16(i)
          BY <2>3, <4>2 DEF AtMost
        <5> QED BY <4>2, <5>1 DEF Pls2Ex, Alu16, Signed
      <4> QED BY <2>8, <4>1, <4>2
    <3>2. i.op \in Ops16
      BY <2>8 DEF Inc2Ex, Pls2Ex, Alu16, Executes, Ops16
    <3>3. Of(i, mem') = ReadS16(mem', i.d) /\ Of(i, mem) = A16(i)
      BY <3>2 DEF Of, A16
    <3> QED BY <2>3, <2>5, <2>8, <3>1, <3>3
  <2> QED BY <2>6, <2>7, <2>8 DEF Saturates, Grows, Shrinks
<1> QED BY <1>1, VarsTypes, PTL DEF Spec, NeverWraps, SaturatesStep

LeavesStep == [mem' # mem => \A i \in words : Runs(i) => Leaves(i)]_vars

\* An opcode writes what it calculated to its variable and to no other.
THEOREM OneVariableOnly == Spec => OneVariable
<1>1. TypeOK /\ [Next]_vars => LeavesStep
  <2> SUFFICES ASSUME TypeOK, NEW i \in words, Runs(i) PROVE Leaves(i)
    BY DEF LeavesStep
  <2>1. /\ words \in Programs /\ mem \in Memory /\ i \in Instr
        /\ i.d \in Operands /\ i.s \in Operands /\ i.t \in Operands
    BY OperandsOf DEF TypeOK, Memory
  <2>2. CASE Calculates8(i)
    <3>1. PICK v \in Int : mem' = WriteU8(i.d, v)
      BY <2>1, <2>2, Eights
    <3>2. i.op \in Ops8 \cup {"HBYTE"}
      BY <2>1, <2>2, Eights
    <3>3. Target(i) = {Cell(i.d)} /\ i.op \notin {"SET2", "PLUS2"}
      BY <3>2 DEF Target, Ops8, Ops16
    <3> QED BY <2>1, <3>1, <3>3, Elsewhere DEF Leaves
  <2>3. CASE Calculates16(i)
    <3>1. PICK v \in Int : mem' = WriteS16(i.d, v)
      BY <2>1, <2>3, Sixteens
    <3>2. i.op \in Ops16
      BY <2>1, <2>3, Sixteens
    <3>3. \A c \in Cells \ Target(i) : c # Cell(i.d) /\ (i.d.bank \in Wide => c # After(Cell(i.d)))
      BY <3>2 DEF Target, Ops16
    <3>4. \A c \in Cells \ Target(i) : mem'[c] = mem[c]
      BY <2>1, <3>1, <3>3, Elsewhere
    <3>5. ASSUME i.op = "SET2", i.d.bank \in Wide PROVE ReadS16(mem', i.d) = B16(i)
      <4>1. mem' = WriteS16(i.d, B16(i))
        BY <2>3, <3>5 DEF Calculates16, Set2, TwoByte, And2, Or2, Xor2, Plus2, Pls2Ex, Mins2, Mns2Ex, Mul2,
                        Div2, Rema2, Inc2, Inc2Ex, Dec2, Dec2Ex, Alu16, Executes
      <4>2. B16(i) \in Signed /\ B16(i) \in Int
        BY <2>1, Reads, Sizes DEF B16, Signed
      <4>3. Word(B16(i)) = B16(i)
        BY <4>2, Words
      <4> QED BY <2>1, <3>5, <4>1, <4>2, <4>3, RoundTrip
    <3>6. ASSUME i.op = "PLUS2", i.d.bank \in Wide PROVE ReadS16(mem', i.d) = Word(A16(i) + B16(i))
      <4>1. mem' = WriteS16(i.d, A16(i) + B16(i))
        BY <2>3, <3>6 DEF Calculates16, Set2, TwoByte, And2, Or2, Xor2, Plus2, Pls2Ex, Mins2, Mns2Ex, Mul2,
                        Div2, Rema2, Inc2, Inc2Ex, Dec2, Dec2Ex, Alu16, Executes
      <4>2. A16(i) + B16(i) \in Int
        BY <2>1, Reads, Sizes DEF A16, B16, Signed
      <4> QED BY <2>1, <3>6, <4>1, <4>2, RoundTrip
    <3> QED BY <3>4, <3>5, <3>6 DEF Leaves
  <2>4. CASE Setx(i)
    <3>1. i.op = "SETX" /\ mem' = IF i.page \in Pages THEN [mem EXCEPT ![Indexed(i)] = ReadU8(mem, i.t)] ELSE mem
      BY <2>4 DEF Setx, Executes
    <3>2. i.page \in Pages => Target(i) = {Indexed(i)}
      BY <3>1 DEF Target, Ops16
    <3>3. \A c \in Cells \ Target(i) : mem'[c] = mem[c]
      BY <2>1, <3>1, <3>2 DEF Memory
    <3> QED BY <3>1, <3>3 DEF Leaves
  <2>5. CASE Getx(i)
    <3>1. PICK v : mem' = WriteU8(i.t, v)
      BY <2>5 DEF Getx
    <3>2. i.op = "GETX" /\ Target(i) = {Cell(i.t)}
      BY <2>5 DEF Getx, Executes, Target, Ops16
    <3>3. \A c \in Cells \ Target(i) : mem'[c] = mem[c]
      BY <2>1, <3>1, <3>2 DEF WriteU8, Memory
    <3> QED BY <3>2, <3>3 DEF Leaves
  <2>6. CASE Srchx(i)
    <3>1. PICK n : mem' = WriteS16(i.d, n)
      BY <2>6 DEF Srchx
    <3>2. i.op = "SRCHX"
      BY <2>6 DEF Srchx, Executes
    <3>3. \A c \in Cells \ Target(i) : c # Cell(i.d) /\ (i.d.bank \in Wide => c # After(Cell(i.d)))
      BY <3>2 DEF Target
    <3>4. \A c \in Cells \ Target(i) : mem'[c] = mem[c]
      BY <2>1, <3>1, <3>3 DEF WriteS16, Memory, Narrow, Wide
    <3> QED BY <3>2, <3>4 DEF Leaves
  <2>7. CASE Randm(i)
    <3>1. PICK v : mem' = WriteU8(i.d, v)
      BY <2>7 DEF Randm
    <3>2. i.op = "RANDM" /\ Target(i) = {Cell(i.d)}
      BY <2>7 DEF Randm, Executes, Target, Ops16
    <3>3. \A c \in Cells \ Target(i) : mem'[c] = mem[c]
      BY <2>1, <3>1, <3>2 DEF WriteU8, Memory
    <3> QED BY <3>2, <3>3 DEF Leaves
  <2>8. CASE DividesByZero(i) \/ Rdmsd(i) \/ IfCheck(i) \/ If2CheckSigned(i) \/ If2CheckUnsigned(i) \/ KeyCheck(i)
    <3>1. mem' = mem /\ i.op \notin {"SET2", "PLUS2"}
      BY <2>8 DEF DividesByZero, Rdmsd, IfCheck, If2CheckSigned, If2CheckUnsigned, KeyCheck, Tests, Executes
    <3> QED BY <3>1 DEF Leaves
  <2> QED BY <2>2, <2>3, <2>4, <2>5, <2>6, <2>7, <2>8 DEF Runs, Other
<1> QED BY <1>1, VarsTypes, PTL DEF Spec, OneVariable, LeavesStep

FoundFirstStep == [\A i \in words : FoundFirst(i)]_vars

\* SRCHX returns the first of the numbers at which its value lies.
THEOREM SearchFindsFirst == Spec => FoundIsFirst
<1>1. TypeOK /\ [Next]_vars => FoundFirstStep
  <2> SUFFICES ASSUME TypeOK, NEW i \in words, Srchx(i), i.page \in Pages, i.d.bank \in Wide,
                      Number(i.page, i.at, i.s) >= 0
               PROVE  \/ /\ ReadS16(mem', i.d) = -1
                         /\ \A n \in Number(i.page, i.at, i.s) .. Number(i.page, i.at, i.t) :
                               mem[<<Region(i.page), n>>] # ReadU8(mem, i.more)
                      \/ /\ ReadS16(mem', i.d) \in Number(i.page, i.at, i.s) .. Number(i.page, i.at, i.t)
                         /\ mem[<<Region(i.page), ReadS16(mem', i.d)>>] = ReadU8(mem, i.more)
                         /\ \A n \in Number(i.page, i.at, i.s) .. ReadS16(mem', i.d) - 1 :
                               mem[<<Region(i.page), n>>] # ReadU8(mem, i.more)
    BY DEF FoundFirstStep, FoundFirst
  <2>1. /\ words \in Programs /\ mem \in Memory /\ i \in Instr
        /\ i.d \in Operands /\ i.s \in Operands /\ i.t \in Operands
    BY OperandsOf DEF TypeOK, Memory
  <2>2. i.at \in Int
    BY <2>1, Sizes DEF Instr
  <2>3. PICK from \in Int : from = Number(i.page, i.at, i.s)
    BY <2>1, <2>2, Numbers
  <2>4. PICK to \in Int : to = Number(i.page, i.at, i.t) /\ to < Half
    BY <2>1, <2>2, Numbers
  <2> DEFINE region == Region(i.page)
             value == ReadU8(mem, i.more)
  <2>5. PICK n : n = Walk(region, value, to)[from]
    OBVIOUS
  <2>6. mem' = WriteS16(i.d, n)
    BY <2>3, <2>4, <2>5 DEF Srchx
  <2>7. Should(region, value, to, from, n)
    BY <2>3, <2>4, <2>5, WalkIs
  <2>8. n \in Signed /\ n \in Int
    <3>1. Half > 0
      BY Sizes
    <3> QED BY <2>3, <2>4, <2>7, <3>1, Sizes DEF Signed, Should, Hits
  <2>9. ReadS16(mem', i.d) = n
    BY <2>1, <2>6, <2>8, RoundTrip, Words
  <2>10. CASE Hits(region, value, to, from) = {}
    BY <2>3, <2>4, <2>7, <2>9, <2>10 DEF Should, Hits
  <2>11. CASE Hits(region, value, to, from) # {}
    <3>1. n \in from .. to /\ mem[<<region, n>>] = value
      BY <2>7, <2>11 DEF Should, Hits
    <3>2. \A k \in from .. n - 1 : k \in from .. to /\ ~(n <= k)
      BY <2>3, <2>4, <2>8, <3>1
    <3>3. \A k \in from .. n - 1 : mem[<<region, k>>] # value
      BY <2>7, <2>11, <3>2 DEF Should, Hits
    <3> QED BY <2>3, <2>4, <2>9, <3>1, <3>3
  <2> QED BY <2>10, <2>11
<1> QED BY <1>1, VarsTypes, PTL DEF Spec, FoundIsFirst, FoundFirstStep
=============================================================================
