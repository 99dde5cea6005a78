---------------------------- MODULE FieldVarsMC ----------------------------
(***************************************************************************)
(* Bytes of three bits, pages of two bytes, and programs of a few opcodes  *)
(* that share one or two variables.                                        *)
(***************************************************************************)
EXTENDS FieldVars

CONSTANT Kinds      \* the programs of this run

Var(b, a) == [bank |-> b, arg |-> a]
Lit(n)    == [bank |-> 0, arg |-> n]

Do(op, d, s) == [op |-> op, d |-> d, s |-> s, t |-> Lit(0), more |-> Lit(0), page |-> 1, at |-> 0, ope |-> 0]
If(op, d, s, n) == {[Do(op, d, s) EXCEPT !.ope = o] : o \in 0 .. n}
Indexing(op, page, s, t) == [Do(op, Var(1, 0), s) EXCEPT !.page = page, !.t = t]
Search(page, at, from, to, v) == [Do("SRCHX", Var(6, 0), from) EXCEPT !.page = page, !.at = at, !.t = to, !.more = v]

Byte0 == Var(1, 0)  Byte1 == Var(1, 1)  Word1 == Var(2, 1)  \* Word1 starts in the last byte of its page

Program(kind) ==
    CASE kind = "sums" -> {Do("SET", Byte0, Lit(6)), Do("PLUS", Byte0, Lit(3)), Do("PLUS!", Byte0, Byte0),
                           Do("MINUS", Byte0, Lit(3)), Do("MINS!", Byte0, Lit(5)), Do("INC!", Byte0, Byte0),
                           Do("DEC!", Byte0, Byte0), Do("SET", Var(9, 0), Lit(1)), Do("SET", Byte0, Var(8, 0))}
      [] kind = "products" -> {Do("INC", Byte1, Byte1), Do("DEC", Byte0, Byte0), Do("MUL", Byte0, Byte1),
                               Do("DIV", Byte0, Byte1), Do("REMAI", Byte0, Byte1)}
      [] kind = "bits" -> {Do("BITON", Byte0, Byte1), Do("BITOF", Byte0, Lit(1)), Do("BITXR", Byte0, Byte1),
                           Do("AND", Byte0, Lit(5)), Do("OR", Byte0, Lit(4)), Do("XOR", Byte0, Lit(7)),
                           Do("PLUS", Byte1, Lit(3))}
      [] kind = "words" -> {Do("SET2", Word1, Lit(25)), Do("PLUS2", Word1, Lit(15)), Do("PLS2!", Word1, Word1),
                            Do("MINS2", Word1, Lit(19)), Do("INC2!", Word1, Word1), Do("PLS2!", Byte0, Lit(5)),
                            Do("INC2", Word1, Word1)}
      [] kind = "caps" -> {Do("SET2", Word1, Lit(-31)), Do("MNS2!", Word1, Lit(-12)), Do("DEC2!", Word1, Word1),
                           Do("DEC2", Word1, Word1), Do("SET2", Word1, Lit(30))}
      [] kind = "quotients" -> {Do("MUL2", Word1, Lit(-7)), Do("DIV2", Word1, Byte0), Do("REMA2", Word1, Byte0),
                                Do("AND2", Word1, Lit(-8)), Do("OR2", Word1, Lit(17)), Do("XOR2", Word1, Lit(-1)),
                                Do("INC", Byte0, Byte0)}
      [] kind = "halves" -> {Do("LBYTE", Byte0, Var(7, 1)), Do("HBYTE", Byte0, Var(7, 1)), Do("SET2", Var(7, 1), Lit(-22)),
                             [Do("2BYTE", Var(7, 1), Var(1, 0)) EXCEPT !.t = Var(15, 1)], Do("SET", Byte0, Lit(6))}
      [] kind = "numbers" -> {Do("PLUS", Var(3, 1), Lit(1)), Indexing("SETX", 3, Var(3, 1), Lit(5)),
                              Indexing("GETX", 1, Var(3, 1), Var(3, 0))}
      [] kind = "strays" -> {Do("SET2", Var(6, 0), Lit(-3)), Indexing("SETX", 5, Var(6, 0), Lit(2)),
                             Indexing("SETX", 4, Lit(0), Lit(2)), Indexing("GETX", 2, Lit(0), Var(3, 0)),
                             Indexing("GETX", 5, Var(6, 0), Var(6, 1))}
      [] kind = "search" -> {Do("SET", Var(3, 0), Lit(5)), Do("SET", Var(13, 1), Lit(5)), Do("SET", Var(5, 1), Lit(5)),
                             Search(1, 0, Lit(0), Lit(9), Lit(5)), Search(3, 1, Lit(0), Lit(19), Lit(5)),
                             Search(5, 0, Var(5, 1), Lit(9), Lit(5)), Search(7, 0, Lit(0), Lit(9), Lit(0)),
                             Do("DEC", Var(13, 1), Lit(0))}
      [] kind = "random" -> {Do("RANDM", Byte0, Byte0), Do("RDMSD", Byte0, Lit(1)), Do("RDMSD", Byte0, Lit(6))}
      [] kind = "tests" -> If("IF", Byte0, Byte1, 11) \cup If("IF2", Var(2, 0), Word1, 11) \cup If("IF2U", Var(2, 0), Lit(-1), 11)
                           \cup {Do("PLUS", Byte0, Lit(5)), Do("KEY", Byte0, Lit(16))}

ProgramsHere == {Program(k) : k \in Kinds}
Table == [n \in Byte |-> (n * 7 + 3) % Base]
=============================================================================
