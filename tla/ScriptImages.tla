---------------------------- MODULE ScriptImages ----------------------------
(***************************************************************************)
(* Small script images for model checking FieldScript.  A field map is     *)
(* written as the bodies of its scripts; Assemble lays them out at         *)
(* increasing addresses, BodyLen to a script, filled up with RET.          *)
(***************************************************************************)
EXTENDS Integers, Sequences, TLC

CONSTANTS Entities, Scripts, BodyLen    \* sizes of every image assembled here

Blank == [op |-> "NOP", who |-> 0, prio |-> 0, script |-> 0, n |-> 0, to |-> 1,
          party |-> [i \in 0 .. 2 |-> 255]]

I(op)            == [Blank EXCEPT !.op = op]
N(op, n)         == [Blank EXCEPT !.op = op, !.n = n]
J(op, to)        == [Blank EXCEPT !.op = op, !.to = to]     \* to: place in the body
R(op, who, p, s) == [Blank EXCEPT !.op = op, !.who = who, !.prio = p, !.script = s]
P(x, y, z)       == [Blank EXCEPT !.op = "PRTYE",
                                  !.party = [i \in 0 .. 2 |-> <<x, y, z>>[i + 1]]]

Base(e, s) == (e * Scripts + s) * BodyLen
Length     == Entities * Scripts * BodyLen

\* f itself, which TLC then tabulates once instead of at every application.
Table(f) == f @@ <<>>

\* body[e][s]: the instructions of script s of entity e; a script not given is
\* empty.  Script 0 is an init script of a single RET followed by the main one.
Assemble(body, models, lines, players, members, held) ==
    LET given(e, s) == IF s \in DOMAIN body[e]
                       THEN IF s = 0 THEN <<I("RET")>> \o body[e][0] ELSE body[e][s]
                       ELSE <<>>
        at(a)   == ((a - 1) % BodyLen) + 1
        slot(a) == (a - 1) \div BodyLen
        own(a)  == slot(a) \div Scripts
        scr(a)  == slot(a) % Scripts
        ins(a)  == LET b == given(own(a), scr(a)) IN
                   IF at(a) <= Len(b) THEN b[at(a)] ELSE I("RET")
        place(a) == Base(own(a), scr(a)) + ins(a).to + (IF scr(a) = 0 THEN 1 ELSE 0)
    IN  [code |-> Table([a \in 1 .. Length |-> [ins(a) EXCEPT !.to = place(a)]]),
         owner |-> Table([a \in 1 .. Length |-> own(a)]),
         entry |-> Table([e \in 0 .. Entities - 1 |->
                            Table([s \in 0 .. Scripts - 1 |-> Base(e, s) + 1])]),
         main |-> Table([e \in 0 .. Entities - 1 |-> Base(e, 0) + 2]),
         models |-> models, lines |-> lines,
         modelled |-> {models[i] : i \in DOMAIN models},
         entityOf |-> players, party |-> members, locked |-> held]
=============================================================================
