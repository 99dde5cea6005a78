----------------------------- MODULE FieldVars -----------------------------
(***************************************************************************)
(* The variables of the field scripts and the opcodes that set, test and   *)
(* calculate with them (src/src/field/field4.c).                           *)
(*                                                                         *)
(* Five pages of the savemap and one of the map hold the variables.  Every *)
(* page has two banks, one of bytes and one of signed words on the same    *)
(* bytes, low byte first; bank 0 is a literal.  An opcode may read and     *)
(* write any variable through either bank, whatever width it works in.     *)
(*                                                                         *)
(* Bytes and words are scaled down: a byte has Base values, 256 in the     *)
(* game, and a page Page bytes, 256 in the game, where addresses and pages *)
(* have the same size.  A script is any sequence of the instructions of    *)
(* `words': the jumps of IF and KEY are the value of `taken'.              *)
(***************************************************************************)
EXTENDS Integers, FiniteSets

CONSTANTS
    Bits,           \* bits of a byte (8 in the game)
    Base,           \* 2 ^ Bits
    Root,           \* how many steps a seed is apart (16 in the game)
    Page,           \* bytes of a page (256 in the game)
    RandomTable,    \* g_RandomTable
    Programs        \* the sets of instructions a script may be made of

Full == Base * Base
Half == Full \div 2
Byte == 0 .. Base - 1
Signed == -Half .. Half - 1

Narrow == {1, 3, 5, 11, 13, 15}             \* banks of bytes
Wide   == {2, 4, 6, 7, 12, 14}              \* banks of words
Banks  == Narrow \cup Wide

\* Cells of the two memories.  Those before the first and after the last page
\* hold other things: a word may end there, and SETX and GETX may lead there.
Last(region) == IF region = "map" THEN Page - 1 ELSE 5 * Page - 1
Cells == ({"save"} \X (-Half .. 5 * Page)) \cup ({"map"} \X (-Half .. Page))

Operand == [bank : 0 .. 15, arg : Signed]

Ops8  == {"SET", "LBYTE", "BITON", "BITOF", "BITXR", "AND", "OR", "XOR", "PLUS", "PLUS!", "MINUS",
          "MINS!", "MUL", "DIV", "REMAI", "INC", "INC!", "DEC", "DEC!", "RANDM"}
Ops16 == {"SET2", "AND2", "OR2", "XOR2", "PLUS2", "PLS2!", "MINS2", "MNS2!", "MUL2", "DIV2", "REMA2",
          "INC2", "INC2!", "DEC2", "DEC2!", "2BYTE"}
Op == Ops8 \cup Ops16 \cup {"HBYTE", "SETX", "GETX", "SRCHX", "RDMSD", "IF", "IF2", "IF2U", "KEY"}

\* d: destination, s, t: sources, more: a third source; page: the bank of SETX,
\* GETX and SRCHX; at: the offset of SRCHX; ope: the comparison of an IF.
Instr == [op : Op, d : Operand, s : Operand, t : Operand, more : Operand, page : 0 .. 15,
          at : 0 .. Page - 1, ope : Nat]

ASSUME VarsSizes ==
    /\ Bits \in Nat \ {0} /\ Base = 2 ^ Bits /\ Root \in Nat \ {0} /\ Root % 2 = 0
    /\ Base \in Nat /\ Base > 1 /\ Base % 2 = 0
    /\ Page \in Nat \ {0} /\ Page <= Base /\ 6 * Page <= Half
ASSUME VarsTable == RandomTable \in [Byte -> Byte]
\* An address is a byte; the address of a variable lies in its page.
ASSUME VarsPrograms ==
    /\ Programs \subseteq SUBSET Instr
    /\ \A p \in Programs : \A i \in p : \A o \in {i.d, i.s, i.t, i.more} :
           o.bank # 0 => o.arg \in 0 .. Page - 1

VARIABLES
    words,      \* the instructions of this script
    mem,        \* Savemap.memory_bank_1 .. 5, g_FieldMapVars and their neighbours
    index,      \* g_RandomTableIndex
    step,       \* g_RandomTableStep
    taken,      \* the last IF or KEY went on instead of jumping
    halted      \* the processor stopped on a division by zero

vars == <<words, mem, index, step, taken, halted>>
----------------------------------------------------------------------------
(***************************************************************************)
(* Numbers                                                                 *)
(***************************************************************************)
Word(x) == ((x + Half) % Full) - Half       \* (s16)x
BitsOf(x) == {n \in 0 .. 2 * Bits - 1 : (x \div 2 ^ n) % 2 = 1}
OfBits(S) == CHOOSE x \in 0 .. Full - 1 : BitsOf(x) = S
\* Every set of bits is a word's: 2 ^ (2 * Bits) words have 2 * Bits bits.
ASSUME VarsBits == \A S \in SUBSET (0 .. 2 * Bits - 1) : \E x \in 0 .. Full - 1 : BitsOf(x) = S
And(a, b) == LET S == BitsOf(a) \cap BitsOf(b) IN OfBits(S)
Or(a, b)  == LET S == BitsOf(a) \cup BitsOf(b) IN OfBits(S)
Xor(a, b) == LET S == (BitsOf(a) \ BitsOf(b)) \cup (BitsOf(b) \ BitsOf(a)) IN OfBits(S)
\* 1 << n: the processor takes n modulo the 32 bits of a register, the bits
\* beyond a word are never looked at.
Shifted(n) == LET k == n % (4 * Bits) IN IF k < 2 * Bits THEN 2 ^ k ELSE 0
\* C divides towards zero, and a remainder has the sign of the dividend.
Abs(a) == IF a < 0 THEN -a ELSE a
Quot(a, b) == IF (a < 0) = (b < 0) THEN Abs(a) \div Abs(b) ELSE -(Abs(a) \div Abs(b))
Rem(a, b)  == a - b * Quot(a, b)
AtMost(a, most) == IF a > most THEN most ELSE a
AtLeast(a, least) == IF a < least THEN least ELSE a
----------------------------------------------------------------------------
(***************************************************************************)
(* FieldEventReadMemoryU8, S16 and FieldEventWriteMemoryU8, S16            *)
(***************************************************************************)
PageOf(b) == CASE b \in {1, 2} -> 0 [] b \in {3, 4} -> 1 [] b \in {11, 12} -> 2
               [] b \in {13, 14} -> 3 [] b \in {15, 7} -> 4 [] OTHER -> 0
Cell(o)  == IF o.bank \in {5, 6} THEN <<"map", o.arg>> ELSE <<"save", PageOf(o.bank) * Page + o.arg>>
After(c) == <<c[1], c[2] + 1>>

ReadU8(m, o) == CASE o.bank = 0      -> o.arg % Base
                  [] o.bank \in Banks -> m[Cell(o)]
                  [] OTHER            -> 0
ReadS16(m, o) == CASE o.bank = 0       -> o.arg
                   [] o.bank \in Narrow -> m[Cell(o)]
                   [] o.bank \in Wide   -> Word(m[Cell(o)] + Base * m[After(Cell(o))])
                   [] OTHER             -> 0

\* A literal and banks 8 to 10 are errors as a destination: nothing is written.
WriteU8(o, v) == IF o.bank \in Banks THEN [mem EXCEPT ![Cell(o)] = v % Base] ELSE mem
WriteS16Both(o, v) ==
    IF o.bank \in Banks THEN [mem EXCEPT ![Cell(o)] = v % Base, ![After(Cell(o))] = (v \div Base) % Base]
                        ELSE mem
WriteS16(o, v) ==
    CASE o.bank \in Narrow -> [mem EXCEPT ![Cell(o)] = v % Base]
      [] o.bank \in Wide   -> [mem EXCEPT ![Cell(o)] = v % Base,
                                          ![After(Cell(o))] = (v \div Base) % Base]
      [] OTHER             -> mem
----------------------------------------------------------------------------
(***************************************************************************)
(* Opcodes that calculate: every handler writes what it returns to d       *)
(***************************************************************************)
Executes(i, op) == ~halted /\ i.op = op
Keep == UNCHANGED <<words, taken, halted, index, step>>

Alu8(i, op, v)  == Executes(i, op) /\ mem' = WriteU8(i.d, v) /\ Keep
Alu16(i, op, v) == Executes(i, op) /\ mem' = WriteS16(i.d, v) /\ Keep
A8(i)  == ReadU8(mem, i.d)
B8(i)  == ReadU8(mem, i.s)
A16(i) == ReadS16(mem, i.d)
B16(i) == ReadS16(mem, i.s)

Set(i)   == Alu8(i, "SET", B8(i))
Lbyte(i) == Alu8(i, "LBYTE", B8(i))
Hbyte(i) == Alu8(i, "HBYTE", B16(i) \div Base)
Biton(i) == Alu8(i, "BITON", Or(A8(i), Shifted(B8(i))))
Bitof(i) == Alu8(i, "BITOF", And(A8(i), Full - 1 - Shifted(B8(i))))
Bitxr(i) == Alu8(i, "BITXR", Xor(A8(i), Shifted(B8(i))))
AndOp(i) == Alu8(i, "AND", And(A8(i), B8(i)))
OrOp(i)  == Alu8(i, "OR", Or(A8(i), B8(i)))
XorOp(i) == Alu8(i, "XOR", Xor(A8(i), B8(i)))
Plus(i)   == Alu8(i, "PLUS", A8(i) + B8(i))
PlusEx(i) == Alu8(i, "PLUS!", AtMost(A8(i) + B8(i), Base - 1))
Minus(i)  == Alu8(i, "MINUS", A8(i) - B8(i))
MinsEx(i) == Alu8(i, "MINS!", AtLeast(A8(i) - B8(i), 0))
Mul(i)    == Alu8(i, "MUL", A8(i) * B8(i))
Div(i)    == B8(i) # 0 /\ Alu8(i, "DIV", A8(i) \div B8(i))
Remai(i)  == B8(i) # 0 /\ Alu8(i, "REMAI", A8(i) % B8(i))
Inc(i)    == Alu8(i, "INC", A8(i) + 1)
IncEx(i)  == Alu8(i, "INC!", AtMost(A8(i) + 1, Base - 1))
Dec(i)    == Alu8(i, "DEC", A8(i) - 1)
DecEx(i)  == Alu8(i, "DEC!", AtLeast(A8(i) - 1, 0))

Set2(i)   == Alu16(i, "SET2", B16(i))
TwoByte(i) == Alu16(i, "2BYTE", B8(i) + Base * ReadU8(mem, i.t))
And2(i)   == Alu16(i, "AND2", And(A16(i), B16(i)))
Or2(i)    == Alu16(i, "OR2", Or(A16(i), B16(i)))
Xor2(i)   == Alu16(i, "XOR2", Xor(A16(i), B16(i)))
Plus2(i)  == Alu16(i, "PLUS2", A16(i) + B16(i))
Pls2ExUnsigned(i) == Alu16(i, "PLS2!", AtMost(A16(i) + B16(i), Full - 1))
Pls2Ex(i) == Alu16(i, "PLS2!", AtMost(A16(i) + B16(i), Half - 1))
Mins2(i)  == Alu16(i, "MINS2", A16(i) - B16(i))
Mul2(i)   == Alu16(i, "MUL2", A16(i) * B16(i))
Div2(i)   == B16(i) # 0 /\ Alu16(i, "DIV2", Quot(A16(i), B16(i)))
Rema2(i)  == B16(i) # 0 /\ Alu16(i, "REMA2", Rem(A16(i), B16(i)))
Inc2(i)   == Alu16(i, "INC2", A16(i) + 1)
Inc2Ex(i) == Alu16(i, "INC2!", AtMost(A16(i) + 1, Half - 1))
Dec2(i)   == Alu16(i, "DEC2", A16(i) - 1)
\* The comparison that should find a result below the least word finds every
\* result that is a word.
BelowLeast(x) == IF x <= Half - 1 THEN -Half ELSE x
Mns2Ex(i) == Alu16(i, "MNS2!", BelowLeast(A16(i) - B16(i)))
Dec2Ex(i) == Alu16(i, "DEC2!", BelowLeast(A16(i) - 1))

DividesByZero(i) ==
    /\ ~halted
    /\ \/ i.op \in {"DIV", "REMAI"} /\ B8(i) = 0
       \/ i.op \in {"DIV2", "REMA2"} /\ B16(i) = 0
    /\ halted' = TRUE
    /\ UNCHANGED <<words, mem, taken, index, step>>
----------------------------------------------------------------------------
(***************************************************************************)
(* Variables by number: SETX, GETX, SRCHX                                  *)
(***************************************************************************)
Pages == {1, 3, 11, 13, 15, 5}      \* the banks these three know
Region(b) == IF b = 5 THEN "map" ELSE "save"
\* Numbers count from the first byte of the bank's memory; s16, cut off above.
Clamp(b, n) == AtMost(n, Last(Region(b)))
Number(b, base, o) == Clamp(b, Word(base + ReadS16(mem, o) + PageOf(b) * Page))

\* SETX and GETX read the byte that is their offset once more as the operand:
\* as the low byte of the literal, or as the address of the variable.
Indexed(i) == <<Region(i.page), Number(i.page, i.s.arg % Base, i.s)>>

Setx(i) ==
    /\ Executes(i, "SETX")
    /\ mem' = IF i.page \in Pages THEN [mem EXCEPT ![Indexed(i)] = ReadU8(mem, i.t)] ELSE mem
    /\ Keep

\* With another bank, what is written is whatever the register holds.
Getx(i) ==
    /\ Executes(i, "GETX")
    /\ \E v \in IF i.page \in Pages THEN {mem[Indexed(i)]} ELSE Byte : mem' = WriteU8(i.t, v)
    /\ Keep

\* From number n on the loop of SRCHX looks at one byte after the other, up to
\* and including the last; what it comes upon is the number or, past the last, -1.
WalkShort(region, value, last) ==
    LET found[n \in Int] ==
            IF n >= last THEN -1
            ELSE IF mem[<<region, n>>] = value THEN n ELSE found[n + 1]
    IN  found
Walk(region, value, last) ==
    LET found[n \in Int] ==
            IF n > last THEN -1
            ELSE IF mem[<<region, n>>] = value THEN n ELSE found[n + 1]
    IN  found

Srchx(i) ==
    /\ Executes(i, "SRCHX")
    /\ LET from == Number(i.page, i.at, i.s)
           last == Number(i.page, i.at, i.t)
           walk == Walk(Region(i.page), ReadU8(mem, i.more), last)
       IN  mem' = WriteS16(i.d, IF i.page \in Pages THEN walk[from] ELSE -1)
    /\ Keep
----------------------------------------------------------------------------
(***************************************************************************)
(* The random table: RANDM, RDMSD                                          *)
(***************************************************************************)
Randm(i) ==
    /\ Executes(i, "RANDM")
    /\ index' = (index + step) % Base
    /\ mem' = WriteU8(i.d, RandomTable[index'])
    /\ UNCHANGED <<words, taken, halted, step>>

Rdmsd(i) ==
    /\ Executes(i, "RDMSD")
    /\ step' = (B8(i) * Root + 1) % Base
    /\ UNCHANGED <<words, mem, taken, halted, index>>
----------------------------------------------------------------------------
(***************************************************************************)
(* Tests: IFUB, IF2, IF2U and their long forms, KEY!, KEYON, KEYOF         *)
(***************************************************************************)
\* The result is kept in a byte; a comparison nobody knows leaves it unset.
Holds(ope, a, b) ==
    CASE ope = 0 -> a = b [] ope = 1 -> a # b [] ope = 2 -> a > b [] ope = 3 -> a < b
      [] ope = 4 -> a >= b [] ope = 5 -> a <= b
      [] ope = 6 -> And(a, b) % Base # 0 [] ope = 7 -> Xor(a, b) % Base # 0 [] ope = 8 -> Or(a, b) % Base # 0
      [] ope = 9 -> And(a, Shifted(b)) % Base # 0 [] ope = 10 -> And(a, Shifted(b)) % Base = 0
Compared(ope, a, b) == {r \in BOOLEAN : ope <= 10 => (r <=> Holds(ope, a, b))}

Tests(i, op, results) ==
    /\ Executes(i, op)
    /\ taken' \in results
    /\ UNCHANGED <<words, mem, halted, index, step>>

IfCheck(i)       == Tests(i, "IF", Compared(i.ope, A8(i), B8(i)))
If2CheckSigned(i) == Tests(i, "IF2", Compared(i.ope, A16(i), B16(i)))
If2CheckUnsigned(i) ==
    Tests(i, "IF2U", Compared(i.ope, IF i.ope < 6 THEN A16(i) % Full ELSE A16(i),
                                     IF i.ope < 6 THEN B16(i) % Full ELSE B16(i)))
\* The player holds one of the keys of the mask, or not.
KeyCheck(i) == Tests(i, "KEY", {FALSE, i.s.arg # 0})
----------------------------------------------------------------------------
Init ==
    /\ words \in Programs
    /\ mem = [c \in Cells |-> 0]
    /\ index = 0
    /\ step \in {0, 1}          \* the table's step before the first RDMSD is data of the overlay
    /\ taken = FALSE /\ halted = FALSE

Calculates8(i) ==
    \/ Set(i) \/ Lbyte(i) \/ Hbyte(i) \/ Biton(i) \/ Bitof(i) \/ Bitxr(i) \/ AndOp(i) \/ OrOp(i) \/ XorOp(i)
    \/ Plus(i) \/ PlusEx(i) \/ Minus(i) \/ MinsEx(i) \/ Mul(i) \/ Div(i) \/ Remai(i)
    \/ Inc(i) \/ IncEx(i) \/ Dec(i) \/ DecEx(i)
Calculates16(i) ==
    \/ Set2(i) \/ TwoByte(i) \/ And2(i) \/ Or2(i) \/ Xor2(i) \/ Plus2(i) \/ Pls2Ex(i) \/ Mins2(i) \/ Mns2Ex(i)
    \/ Mul2(i) \/ Div2(i) \/ Rema2(i) \/ Inc2(i) \/ Inc2Ex(i) \/ Dec2(i) \/ Dec2Ex(i)
Other(i) ==
    \/ DividesByZero(i) \/ Setx(i) \/ Getx(i) \/ Srchx(i) \/ Randm(i) \/ Rdmsd(i)
    \/ IfCheck(i) \/ If2CheckSigned(i) \/ If2CheckUnsigned(i) \/ KeyCheck(i)

Runs(i) == Calculates8(i) \/ Calculates16(i) \/ Other(i)
Next == \E i \in words : Runs(i)
Spec == Init /\ [][Next]_vars
----------------------------------------------------------------------------
(***************************************************************************)
(* What must hold                                                          *)
(***************************************************************************)
TypeOK ==
    /\ words \in Programs
    /\ mem \in [Cells -> Byte]
    /\ index \in Byte /\ step \in Byte
    /\ taken \in BOOLEAN /\ halted \in BOOLEAN

\* Sums and differences that saturate never come out on the other side: after
\* PLUS!, INC!, INC2! and PLS2! of an operand that is not negative a variable is
\* not less, after MINS! and DEC! not greater than it was, whatever banks the
\* opcode reads, and whether or not the operand overlaps the variable.  (MNS2!
\* and DEC2! always leave the least word.)
Grows(i)   == \/ PlusEx(i) \/ IncEx(i)
              \/ i.d.bank \in Wide /\ Inc2Ex(i)
              \/ i.d.bank \in Wide /\ B16(i) >= 0 /\ Pls2Ex(i)
Shrinks(i) == MinsEx(i) \/ DecEx(i)
Of(i, m)   == IF i.op \in Ops16 THEN ReadS16(m, i.d) ELSE ReadU8(m, i.d)
Saturates(i) == /\ Grows(i) => Of(i, mem') >= Of(i, mem)
                /\ Shrinks(i) => Of(i, mem') <= Of(i, mem)
NeverWraps == [][\A i \in words : Saturates(i)]_vars

\* The write accessors and the read accessors agree on where a variable is: an
\* opcode leaves in its variable what it calculated, in the low byte when the
\* bank is narrow, and touches no other variable, but for the first byte of the
\* next page when a word starts in the last byte of its page.
Target(i) == CASE i.op \in {"IF", "IF2", "IF2U", "KEY", "RDMSD"} -> {}
               [] i.op = "SETX" /\ i.page \in Pages -> {Indexed(i)}
               [] i.op = "GETX" -> {Cell(i.t)}
               [] i.op \in Ops16 \cup {"SRCHX"} /\ i.d.bank \in Wide -> {Cell(i.d), After(Cell(i.d))}
               [] OTHER -> {Cell(i.d)}
Leaves(i) ==
    /\ \A c \in Cells \ Target(i) : mem'[c] = mem[c]
    /\ i.op = "SET2" /\ i.d.bank \in Wide => ReadS16(mem', i.d) = B16(i)
    /\ i.op = "PLUS2" /\ i.d.bank \in Wide => ReadS16(mem', i.d) = Word(A16(i) + B16(i))
OneVariable == [][mem' # mem => \A i \in words : Runs(i) => Leaves(i)]_vars

\* SRCHX finds the first byte that has the value and lies between the two
\* numbers, in this page or a later one, and -1 only if there is none.
FoundFirst(i) ==
    Srchx(i) /\ i.page \in Pages /\ i.d.bank \in Wide =>
        LET r == ReadS16(mem', i.d)
            from == Number(i.page, i.at, i.s)
            to == Number(i.page, i.at, i.t)
            At(n) == mem[<<Region(i.page), n>>] = ReadU8(mem, i.more)
        IN from >= 0 => \/ r = -1 /\ \A n \in from .. to : ~At(n)
                        \/ r \in from .. to /\ At(r) /\ \A n \in from .. r - 1 : ~At(n)
FoundIsFirst == [][\A i \in words : FoundFirst(i)]_vars
=============================================================================
