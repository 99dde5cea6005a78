----------------------------- MODULE ItemMenuMC -----------------------------
(***************************************************************************)
(* Small games for ItemMenu: an inventory of four items and a spare place,   *)
(* given, taken and arranged; two visible characters and one who is not,     *)
(* robbed, repaid and unequipped; and one set aside.                         *)
(***************************************************************************)
EXTENDS ItemMenu

MCIds == 0 .. 3
MCNameOrder == [id \in MCIds |-> <<2, 0, 3, 1>>[id + 1]]
MCFlagged == [mode \in {"field", "battle"} |-> IF mode = "field" THEN {0, 2} ELSE {3}]

MCKinds == {"fire", "ice", "heal"}
MCBasic == << "fire", "ice", "heal" >>
MCWorth == [m \in MCKinds |-> IF m = "heal" THEN 2 ELSE 1]
MCSlots == [g \in {"one", "two", "bare"} |->
                CASE g = "one" -> {0} [] g = "two" -> {0, 1} [] OTHER -> {}]

NoItems == [p \in Place |-> None]
NoPieces == [c \in Chars |-> Bare]
SlotsThere == {cs \in Seen \X Slot : cs[2] \in Slots[IF cs[1] = 0 THEN "two" ELSE "one"]}
NoPockets == [p \in Pocket |-> None]
Swords(c) == [weapon |-> IF c = 0 THEN "two" ELSE "one", armor |-> "bare"]

\* Nothing, or an item, at any place.
SomeItems == {[p \in Place |-> IF f[p] = None THEN None ELSE [id |-> f[p], n |-> 1 + (f[p] % Cap)]] :
                f \in {g \in [Place -> Ids \cup {None}] :
                          \A p, q \in Place : p # q /\ g[p] # None => g[p] # g[q]}}

\* Materia in the slots there are; he who is not seen wears the best.
SomeWorn == {[c \in Chars |-> [g \in Gear |-> [s \in Slot |->
                 CASE g = "weapon" /\ <<c, s>> \in SlotsThere -> w[<<c, s>>]
                   [] g = "weapon" /\ c \notin Seen /\ s = 0 -> "heal"
                   [] OTHER -> None]]] : w \in [SlotsThere -> Kinds \cup {None}]}
SomePockets == [Pocket -> Kinds \cup {None}]

Game(uses, its, pks, wrn, acc) ==
    [ops |-> uses, items |-> its, pockets |-> pks, worn |-> wrn,
     gear |-> [c \in Chars |-> Swords(c)], charm |-> [c \in Chars |-> IF c = 0 THEN acc ELSE None]]

MCPlans ==
    { Game({"STITM", "DLITM", "CLITM", "FLITM"}, {NoItems}, {NoPockets}, {NoPieces}, None),
      Game({"ARRANGE", "CUSTOMIZE"}, SomeItems, {NoPockets}, {NoPieces}, None),
      Game({"STEAL", "RETURN", "UNEQUIP"}, {NoItems}, SomePockets, SomeWorn, 1),
      Game({"SMTRA", "FLMAT", "STEAL", "RETURN", "BACKUP", "RESTORE"},
           {NoItems}, {NoPockets}, {NoPieces}, 0) }
=============================================================================
