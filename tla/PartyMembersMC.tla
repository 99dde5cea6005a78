--------------------------- MODULE PartyMembersMC ---------------------------
(***************************************************************************)
(* Four characters, of whom 3 is another's double as Sephiroth and young    *)
(* Cloud are; the plans keep a party and set it back, change it around menus, *)
(* cast it on a map, heal and hurt it, and pay.                             *)
(***************************************************************************)
EXTENDS PartyMembers

Owners == [c \in Char |-> IF c = 3 THEN 1 ELSE c]

Three(a, b, c) == [i \in Slot |-> IF i = 0 THEN a ELSE IF i = 1 THEN b ELSE c]
Demands == { Three(0, 1, 2), Three(1, ForcedEmpty, ForcedEmpty), Three(NoChar, 3, NoChar) }

\* In records of -3 .. 2 and pools up to 1: an amount that is negative, and one
\* that fits on top of an empty pool but not on top of a full one.
Changes == {-2, 2}

Keep  == {"PRTYP", "PRTYE", "GPTYE", "SPTYE"}
Menus == {"PRTYP", "MMB", "MENU"}
Lock  == {"PRTYM", "MMB", "MMBLK", "MENU"}
Cast  == {"PC", "CC", "PRTYM", "PRTYE", "RSGLB"}
Heal  == {"PRTYE", "PLUS", "MINUS", "HMPMX", "MHMMX"}
Pay   == {"GOLD"}
AllPlans == {Keep, Menus, Lock, Cast, Heal, Pay}
=============================================================================
