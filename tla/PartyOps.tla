------------------------------ MODULE PartyOps ------------------------------
(***************************************************************************)
(* The three-slot party of the field scripts (src/src/field/field4.c): the *)
(* copy in memory bank 2, the copy in the save data, and the functions     *)
(* that keep them in step.                                                 *)
(***************************************************************************)
EXTENDS Integers, FiniteSets

CONSTANT NumChars       \* characters 0 .. NumChars - 1

Char        == 0 .. NumChars - 1
NoChar      == 255      \* an empty slot
ForcedEmpty == 254      \* PRTYE: a slot that must stay empty
Slot        == 0 .. 2
PartyCode   == Char \cup {NoChar, ForcedEmpty}
Party       == [Slot -> Char \cup {NoChar}]

ASSUME CharsAssumption == NumChars \in 1 .. 11

\* A member of party p that newParty does not name, and a slot it leaves free.
Stays(p, newParty, j) == p[j] # NoChar /\ \A i \in Slot : newParty[i] # p[j]
Free(newParty, i)     == newParty[i] = NoChar

\* The n-th member that stays goes to the n-th free slot.
Moves(p, newParty, j, i) ==
    /\ Stays(p, newParty, j) /\ Free(newParty, i)
    /\ Cardinality({k \in 0 .. j - 1 : Stays(p, newParty, k)})
         = Cardinality({k \in 0 .. i - 1 : Free(newParty, k)})

\* PartyReplace: newParty, its free slots taken up by the members of p that it
\* does not name, its forced free slots left empty.
PartyReplace(p, newParty) ==
    [i \in Slot |->
       IF \E j \in Slot : Moves(p, newParty, j, i)
       THEN p[CHOOSE j \in Slot : Moves(p, newParty, j, i)]
       ELSE IF newParty[i] = ForcedEmpty THEN NoChar ELSE newParty[i]]
=============================================================================
