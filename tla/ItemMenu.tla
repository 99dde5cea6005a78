------------------------------ MODULE ItemMenu ------------------------------
(***************************************************************************)
(* Items and materia (src/src/menu/itemmenu.c, src/src/main/1255C.c and the *)
(* opcodes of src/src/field that use them).  An item is in one place of the *)
(* inventory with its number; a materia is a piece by itself, in a place of *)
(* the inventory or in a slot of a weapon or armor.  The player arranges    *)
(* the items; the events of the story take the most valuable materia away   *)
(* and give it back, unequip a character, or set a character's materia      *)
(* aside in the same buffer.                                                *)
(***************************************************************************)
EXTENDS Integers, SequencesExt

CONSTANTS
    Ids,        \* item numbers
    Places,     \* places of the inventory (320)
    Cap,        \* 99
    Amounts,    \* how many STITM and DLITM are given
    Flagged,    \* by mode "field", "battle", "throw": items with the flag
    Depth,      \* ranges that Quicksort has room for (64)
    NameOrder,  \* D_801D35B4, the order of items by name
    Modes,      \* the orders of the Arrange command
    Kinds,      \* materia
    Worth,      \* g_MateriaPriority
    Pockets,    \* places of the materia inventory (200)
    Loot,       \* entries of the buffer of stolen materia (48)
    Basic,      \* the materia FLMAT gives
    LastChar,   \* characters 0 .. LastChar (8 in the game)
    Heroes,     \* those the story sets aside
    Seen,       \* those of the mask of visible characters
    PerGear,    \* slots of a weapon or armor at most (8)
    Slots,      \* by weapon or armor: the slots it has
    Aside,      \* places of the inventory set aside with a character (3)
    Plans,      \* what happens in a game, and what it begins with
    None        \* nothing

Place == 0 .. Places - 1
Pocket == 0 .. Pockets - 1
Entry == 0 .. Loot - 1
Chars == 0 .. LastChar
Gear  == {"weapon", "armor"}
Slot  == 0 .. PerGear - 1
Piece == Kinds \cup {None}
WornOf == [Gear -> [Slot -> Piece]]     \* what a character wears
NoSlots == "bare"       \* weapon 0, which a character set aside is left with

\* What an empty place has for an item, and for a number or a name.
NoId  == 511
AtEnd == 20000

\* A place: an item and its number, or nothing.  No game begins with an item in
\* two places, and there is a place for every item.
Stacks == [id : Ids, n : 0 .. Cap]
Inventory == [Place -> {None} \cup Stacks]
OnePlaceEach(inv) ==
    \A p, q \in Place : inv[p] # None /\ inv[q] # None /\ inv[p].id = inv[q].id => p = q

\* What is left of all places when they are halved so many times.
Halving == {h \in [0 .. Depth -> 0 .. Places] :
               h[0] = Places /\ \A k \in 1 .. Depth : h[k] = h[k - 1] \div 2}

ASSUME ItemsAssumption ==
    /\ Ids \subseteq 0 .. NoId - 1 /\ Places \in Nat
    /\ IsFiniteSet(Ids) /\ Cardinality(Ids) <= Places
    /\ None \notin Stacks /\ None \notin Modes
    /\ Cap \in 1 .. AtEnd - 1 /\ Amounts \subseteq 0 .. Cap
    /\ NameOrder \in [Ids -> Int] /\ \A id \in Ids : NameOrder[id] < AtEnd
    /\ None \notin Kinds /\ Worth \in [Kinds -> Nat] /\ Basic \in Seq(Kinds)
    /\ LastChar \in Nat /\ Seen \subseteq Chars /\ Heroes \subseteq Chars
    /\ PerGear \in Nat \ {0} /\ Pockets \in Nat /\ Loot \in Nat \ {0} /\ Aside \in 0 .. Pockets
    /\ \A plan \in Plans : /\ \A inv \in plan.items : inv \in Inventory /\ OnePlaceEach(inv)
                           /\ plan.pockets \subseteq [Pocket -> Piece]
                           /\ plan.worn \subseteq [Chars -> WornOf]
                           /\ plan.charm \in [Chars -> Ids \cup {None}]
    \* no sort needs more ranges than there is room for
    /\ Depth \in Nat /\ \E h \in Halving : h[Depth] = 0

VARIABLES
    items,      \* D_8009CBE0: by place, an item and its number, or None
    stack,      \* Quicksort's ranges still to be sorted, the one at hand on top
    order,      \* the order the items were last arranged in, None when changed
    pockets,    \* Savemap.materia
    worn,       \* by character: the materia in weapon and armor
    gear,       \* by character: weapon and armor
    charm,      \* by character: the accessory, an item, or None
    loot,       \* yuffie_stolen_materia as a list of materia
    aside,      \* the same buffer as a record of a character's materia
    holds,      \* what the story has the buffer hold: "nothing", "loot", "aside"
    ops         \* what happens in the game

goods == <<items, stack, order>>
pieces == <<pockets, worn, gear, loot, aside, holds>>
vars  == <<goods, pieces, charm, ops>>

-----------------------------------------------------------------------------
(* Items.                                                                  *)

At(inv, id) == {p \in Place : inv[p] # None /\ inv[p].id = id}
FreePlaces(inv) == {p \in Place : inv[p] = None}

\* func_80025310, and what CKITM answers: the first place with the item.
HowMany(inv, id) == IF At(inv, id) = {} THEN 0 ELSE inv[Min(At(inv, id))].n

\* func_80025380: added to the item's place, or put in the first free one.
AddUncapped(inv, id, n) ==
    IF At(inv, id) # {} THEN [inv EXCEPT ![Min(At(inv, id))].n = @ + n]
    ELSE IF FreePlaces(inv) # {} THEN [inv EXCEPT ![Min(FreePlaces(inv))] = [id |-> id, n |-> n]]
    ELSE inv
Add(inv, id, n) ==
    IF At(inv, id) # {}
    THEN [inv EXCEPT ![Min(At(inv, id))].n = IF @ + n > Cap THEN Cap ELSE @ + n]
    ELSE IF FreePlaces(inv) # {} THEN [inv EXCEPT ![Min(FreePlaces(inv))] = [id |-> id, n |-> n]]
    ELSE inv

\* func_80025288: the place is emptied when no more than n were there.
Take(inv, id, n) ==
    IF At(inv, id) = {} THEN inv
    ELSE LET p == Min(At(inv, id))
         IN [inv EXCEPT ![p] = IF n < inv[p].n THEN [id |-> id, n |-> inv[p].n - n] ELSE None]

Idle == stack = << >>
Uses(op) == op \in ops /\ Idle
Changed(inv) == /\ items' = inv /\ order' = None
                /\ UNCHANGED <<stack, pieces, charm, ops>>

Stitm(id, n) == Uses("STITM") /\ Changed(Add(items, id, n))
Dlitm(id, n) == Uses("DLITM") /\ Changed(Take(items, id, n))

\* SPCAL's CLITM: the first place of every item is emptied.
Clitm == /\ Uses("CLITM")
         /\ Changed([p \in Place |-> IF items[p] # None /\ p = Min(At(items, items[p].id))
                                    THEN None ELSE items[p]])

\* FLITM: an item that is there gets all there can be of it, the others go into
\* free places (the code takes them from the first; the order is of no matter to
\* the properties).
Missing(inv) == {id \in Ids : At(inv, id) = {}}
Filled(inv, new) ==
    [p \in Place |->
        IF inv[p] # None THEN IF p = Min(At(inv, inv[p].id)) THEN [inv[p] EXCEPT !.n = Cap] ELSE inv[p]
        ELSE IF \E id \in Missing(inv) : new[id] = p
             THEN [id |-> CHOOSE id \in Missing(inv) : new[id] = p, n |-> Cap]
             ELSE None]
Flitm == /\ Uses("FLITM")
         /\ \E new \in [Missing(items) -> FreePlaces(items)] :
               /\ \A a, b \in Missing(items) : new[a] = new[b] => a = b
               /\ Changed(Filled(items, new))

Swapped(inv, i, j) == [inv EXCEPT ![i] = inv[j], ![j] = inv[i]]

\* Customize: the player exchanges two places.
Customize(i, j) == Uses("CUSTOMIZE") /\ i < j /\ Changed(Swapped(items, i, j))

-----------------------------------------------------------------------------
(* Arrange: Quicksort over all places.                                     *)

\* The comparators: entry e is in the order's place before those of higher rank.
Rank(mode, e) ==
    CASE mode = "type"  -> IF e = None THEN NoId ELSE e.id
      [] mode = "name"  -> IF e = None THEN AtEnd ELSE NameOrder[e.id]
      [] mode = "most"  -> IF e = None THEN 0 ELSE 0 - e.n
      [] mode = "least" -> IF e = None THEN AtEnd ELSE e.n
      [] OTHER          -> IF e = None THEN 0 ELSE IF e.id \in Flagged[mode] THEN -1 ELSE -2

After(a, mode, i, j) == Rank(mode, a[i]) > Rank(mode, a[j])    \* cmp(i, j) > 0

\* The next entry from i up that is to go after the pivot at lo, j at most; the
\* next from j down that is to go before it, or i - 1.
NextUp(a, mode, lo, i, j)   == Min({k \in i .. j : k = j \/ After(a, mode, k, lo)})
NextDown(a, mode, lo, i, j) == Max({k \in i - 1 .. j : k = i - 1 \/ After(a, mode, lo, k)})

\* A range not begun: its first entry is the pivot, i and j close in on what is
\* in between.  What is left of a range, the smaller part on top.  (PartsPast and
\* PartsWhole are off by one.)
Span(lo, hi) == [lo |-> lo, hi |-> hi, i |-> lo + 1, j |-> hi]
SpanOf(lo, hi) == IF lo < hi THEN << Span(lo, hi) >> ELSE << >>
PartsWhole(r) == IF r.j - r.lo < r.hi - r.i
                 THEN SpanOf(r.i, r.hi) \o SpanOf(r.lo, r.j) ELSE SpanOf(r.lo, r.j) \o SpanOf(r.i, r.hi)
PartsPast(r) == SpanOf(r.lo, r.j - 1) \o SpanOf(r.i + 1, r.hi)
Parts(r) == IF r.j - 1 - r.lo < r.hi - r.i
            THEN SpanOf(r.i, r.hi) \o SpanOf(r.lo, r.j - 1) ELSE SpanOf(r.lo, r.j - 1) \o SpanOf(r.i, r.hi)

Top == stack[Len(stack)]
Below == SubSeq(stack, 1, Len(stack) - 1)

Arrange(mode) ==
    /\ Uses("ARRANGE")
    /\ order' = mode
    /\ stack' = SpanOf(0, Places - 1)
    /\ UNCHANGED <<items, pieces, charm, ops>>

\* One turn of the loop: an entry that is to go after the pivot and one that is
\* to go before it are exchanged, unless the two have met.
SortExchange ==
    /\ ~Idle /\ Top.i < Top.j
    /\ LET up   == NextUp(items, order, Top.lo, Top.i, Top.j)
           down == NextDown(items, order, Top.lo, up, Top.j)
       IN IF up < down
          THEN /\ items' = Swapped(items, up, down)
               /\ stack' = Append(Below, [Top EXCEPT !.i = up + 1, !.j = down - 1])
          ELSE /\ stack' = Append(Below, [Top EXCEPT !.i = up, !.j = down])
               /\ UNCHANGED items
    /\ UNCHANGED <<order, pieces, charm, ops>>

\* The range is split; without room for its parts the sort is given up.
SortSplit ==
    /\ ~Idle /\ Top.i >= Top.j
    /\ items' = IF After(items, order, Top.lo, Top.j) THEN Swapped(items, Top.lo, Top.j) ELSE items
    /\ LET more == Below \o Parts(Top)
       IN stack' = IF Len(more) < Depth THEN more ELSE << >>
    /\ UNCHANGED <<order, pieces, charm, ops>>

SortStep == SortExchange \/ SortSplit

-----------------------------------------------------------------------------
(* Materia.                                                                *)

\* func_8002542C: into the first free place, or refused.
Pocketed(pk, m) ==
    LET free == {p \in Pocket : pk[p] = None}
    IN IF free = {} THEN pk ELSE [pk EXCEPT ![Min(free)] = m]

Smtra(m) ==
    /\ Uses("SMTRA")
    /\ pockets' = Pocketed(pockets, m)
    /\ UNCHANGED <<goods, worn, gear, charm, loot, aside, holds, ops>>

\* Op for each materia of a list, one after the other.
Each(Op, before, ms) ==
    LET after[n \in 0 .. Len(ms)] ==
            IF n = 0 THEN before
            ELSE IF ms[n] = None THEN after[n - 1] ELSE Op[<<after[n - 1], ms[n]>>]
    IN  after[Len(ms)]

Pocketing == [x \in [Pocket -> Piece] \X Kinds |-> Pocketed(x[1], x[2])]

\* SPCAL's FLMAT: one of each, while there are free places.
Flmat ==
    /\ Uses("FLMAT")
    /\ pockets' = Each(Pocketing, pockets, Basic)
    /\ UNCHANGED <<goods, worn, gear, charm, loot, aside, holds, ops>>

\* The order in which the characters' slots are gone through: the weapon's before
\* the armor's, from slot 0, the characters upwards or downwards.
Spots == Chars \X Gear \X Slot
PerChar == 2 * PerGear
SpotOf(c, r) == IF r < PerGear THEN <<c, "weapon", r>> ELSE <<c, "armor", r - PerGear>>
Upwards   == [n \in 1 .. (LastChar + 1) * PerChar |->
                 SpotOf((n - 1) \div PerChar, (n - 1) % PerChar)]
Downwards == [n \in 1 .. (LastChar + 1) * PerChar |->
                 SpotOf(LastChar - ((n - 1) \div PerChar), (n - 1) % PerChar)]
WornAt(w, s) == w[s[1]][s[2]][s[3]]
Wear(w, s, m) == [w EXCEPT ![s[1]][s[2]][s[3]] = m]

\* What can be taken: worn by visible characters, and in the inventory.
SeenAt(w, s) == IF s[1] \in Seen THEN WornAt(w, s) ELSE None
OnThem(w)    == [n \in 1 .. Len(Upwards) |-> SeenAt(w, Upwards[n])]
InStock(pk)  == [n \in 1 .. Pockets |-> pk[n - 1]]
InLoot(lt)   == [n \in 1 .. Loot |-> lt[n - 1]]
Hands == [worn : [Chars -> WornOf], pockets : [Pocket -> Piece]]

OfferFirst(lt, m) ==
    LET free == {e \in Entry : lt[e] = None}
    IN IF free = {} THEN lt ELSE [lt EXCEPT ![Min(free)] = m]

\* OfferMateriaToSteal: a free entry, or that of the least valuable, the first
\* of them, unless the materia is worth less.
Offer(lt, m) ==
    LET free   == {e \in Entry : lt[e] = None}
        lowest == Min({Worth[lt[e]] : e \in Entry})
    IN IF free # {} THEN [lt EXCEPT ![Min(free)] = m]
       ELSE IF Worth[m] < lowest THEN lt
       ELSE [lt EXCEPT ![Min({e \in Entry : Worth[lt[e]] = lowest})] = m]

RemoveAll(h, m) ==      \* every such materia
    [worn |-> [c \in Chars |-> [g \in Gear |-> [s \in Slot |->
                 IF h.worn[c][g][s] = m /\ c \in Seen THEN None ELSE h.worn[c][g][s]]]],
     pockets |-> [p \in Pocket |-> IF h.pockets[p] = m THEN None ELSE h.pockets[p]]]

\* RemoveMateriaFromPlayer: the first such materia of the visible characters,
\* then of the inventory.
RemovePiece(h, m) ==
    LET found == {n \in 1 .. Len(Upwards) : SeenAt(h.worn, Upwards[n]) = m}
        there == {p \in Pocket : h.pockets[p] = m}
    IN IF found # {} THEN [h EXCEPT !.worn = Wear(h.worn, Upwards[Min(found)], None)]
       ELSE IF there # {} THEN [h EXCEPT !.pockets[Min(there)] = None]
       ELSE h

Offering == [x \in [Entry -> Piece] \X Kinds |-> Offer(x[1], x[2])]
Removing == [x \in Hands \X Kinds |-> RemovePiece(x[1], x[2])]
Taken == Each(Offering, Each(Offering, [e \in Entry |-> None], OnThem(worn)), InStock(pockets))

\* StealAllMateria and FinalizeMateriaSteal.
StealAllMateria ==
    LET taken == Taken
        h == Each(Removing, [worn |-> worn, pockets |-> pockets], InLoot(taken))
    IN /\ Uses("STEAL") /\ holds = "nothing"
       /\ loot' = taken /\ worn' = h.worn /\ pockets' = h.pockets
       /\ holds' = "loot"
       /\ UNCHANGED <<goods, gear, charm, aside, ops>>

\* ReequipReturnedMateria: the first free slot there is of the visible
\* characters from the last to the first, or a free place.
GiveBack(h, m) ==
    LET fits == {n \in 1 .. Len(Downwards) :
                    LET s == Downwards[n] IN /\ s[1] \in Seen /\ WornAt(h.worn, s) = None
                                             /\ s[3] \in Slots[gear[s[1]][s[2]]]}
    IN IF fits # {} THEN [h EXCEPT !.worn = Wear(h.worn, Downwards[Min(fits)], m)]
       ELSE [h EXCEPT !.pockets = Pocketed(h.pockets, m)]

GivingBack == [x \in Hands \X Kinds |-> GiveBack(x[1], x[2])]

ReturnStolenMateria ==
    LET h == Each(GivingBack, [worn |-> worn, pockets |-> pockets], InLoot(loot))
    IN /\ Uses("RETURN") /\ holds = "loot"
       /\ worn' = h.worn /\ pockets' = h.pockets
       /\ holds' = "nothing"
       /\ UNCHANGED <<goods, gear, charm, loot, aside, ops>>

Bare == [g \in Gear |-> [s \in Slot |-> None]]

\* UnequipCharacterMateria: slot after slot into the inventory, the accessory
\* into the items.
UnequipCharacterMateria(c) ==
    /\ Uses("UNEQUIP")
    /\ pockets' = Each(Pocketing, pockets, [n \in 1 .. PerChar |-> WornAt(worn, SpotOf(c, n - 1))])
    /\ worn' = [worn EXCEPT ![c] = Bare]
    /\ IF charm[c] = None THEN UNCHANGED <<items, order, charm>>
       ELSE items' = Add(items, charm[c], 1) /\ order' = None /\ charm' = [charm EXCEPT ![c] = None]
    /\ UNCHANGED <<stack, gear, loot, aside, holds, ops>>

\* BackupCharacterMateria and RestoreCharacterMateria.
BackupCharacterMateria(c) ==
    /\ Uses("BACKUP") /\ holds = "nothing"
    /\ aside' = [worn |-> worn[c], gear |-> gear[c], first |-> [p \in 0 .. Aside - 1 |-> pockets[p]]]
    /\ worn' = [worn EXCEPT ![c] = Bare]
    /\ gear' = [gear EXCEPT ![c].weapon = NoSlots]
    /\ pockets' = [p \in Pocket |-> IF p < Aside THEN None ELSE pockets[p]]
    /\ holds' = "aside"
    /\ UNCHANGED <<goods, charm, loot, ops>>
RestoreCharacterMateria(c) ==
    /\ Uses("RESTORE") /\ holds = "aside"
    /\ worn' = [worn EXCEPT ![c] = aside.worn]
    /\ gear' = [gear EXCEPT ![c] = aside.gear]
    /\ pockets' = [p \in Pocket |-> IF p < Aside THEN aside.first[p] ELSE pockets[p]]
    /\ holds' = "nothing"
    /\ UNCHANGED <<goods, charm, loot, aside, ops>>

-----------------------------------------------------------------------------
Init ==
    /\ \E plan \in Plans :
          /\ ops = plan.ops
          /\ items \in plan.items /\ pockets \in plan.pockets /\ worn \in plan.worn
          /\ gear = plan.gear /\ charm = plan.charm
    /\ stack = << >> /\ order = None
    /\ loot = [e \in Entry |-> None] /\ aside = None /\ holds = "nothing"

Next ==
    \/ \E id \in Ids, n \in Amounts : Stitm(id, n) \/ Dlitm(id, n)
    \/ Clitm \/ Flitm \/ Flmat \/ SortStep
    \/ \E i, j \in Place : Customize(i, j)
    \/ \E mode \in Modes : Arrange(mode)
    \/ \E m \in Kinds : Smtra(m)
    \/ StealAllMateria \/ ReturnStolenMateria
    \/ \E c \in Chars : UnequipCharacterMateria(c)
    \/ \E c \in Heroes : BackupCharacterMateria(c) \/ RestoreCharacterMateria(c)

Spec == Init /\ [][Next]_vars /\ WF_vars(SortStep)
-----------------------------------------------------------------------------
(* Properties.                                                             *)

\* No item is in two places, and no number is above the limit (STITM of none of an
\* item leaves a place with zero of it); Quicksort has ranges only while the items
\* are arranged in an order; what is set aside is there until it is taken back.
TypeOK ==
    /\ items \in Inventory /\ OnePlaceEach(items)
    /\ worn \in [Chars -> WornOf] /\ pockets \in [Pocket -> Piece] /\ loot \in [Entry -> Piece]
    /\ holds = "aside" => aside.worn \in WornOf /\ aside.first \in [0 .. Aside - 1 -> Piece]
    /\ charm \in [Chars -> Ids \cup {None}]
    /\ order \in Modes \cup {None}
    /\ stack \in Seq([lo : Nat, hi : Nat, i : Nat, j : Nat])
    /\ order = None => Idle

\* Whatever places the items lie at, and in the middle of an arrangement, the
\* inventory is a number of each item up to the limit: a give adds, a take
\* subtracts, an arrangement and an exchange change nothing.
Bag == INSTANCE ItemBag WITH bag <- [id \in Ids |-> HowMany(items, id)]
BagSpec == Bag!Spec

\* What the orders of the menu ask of an entry e that lies before an entry f.  Empty
\* places are last in all of them, though "most" takes an item of which there are 0
\* for one of them; an item with the flag is behind those without.
InOrder(mode, e, f) ==
    /\ e = None => f = None \/ (mode = "most" /\ f.n = 0)
    /\ e # None /\ f # None =>
          CASE mode = "type"  -> e.id <= f.id
            [] mode = "name"  -> NameOrder[e.id] <= NameOrder[f.id]
            [] mode = "most"  -> e.n >= f.n
            [] mode = "least" -> e.n <= f.n
            [] OTHER          -> e.id \in Flagged[mode] => f.id \in Flagged[mode]

\* After Arrange, and until something changes, the items lie in the order that
\* was asked for (Quicksort and its comparators).
Arranged ==
    Idle /\ order # None => \A p, q \in Place : p < q => InOrder(order, items[p], items[q])

\* Quicksort's stack of ranges runs empty.
ArrangeEnds == ~Idle ~> Idle

\* How many of a materia there are: worn, in the inventory, stolen or aside.
Worn(w, m) == Cardinality({s \in Spots : WornAt(w, s) = m})
InPlaces(f, m) == Cardinality({p \in DOMAIN f : f[p] = m})
Pieces(m) ==
    Worn(worn, m) + InPlaces(pockets, m)
    + (IF holds = "loot" THEN InPlaces(loot, m) ELSE 0)
    + (IF holds = "aside"
       THEN InPlaces(aside.first, m)
            + Cardinality({s \in Gear \X Slot : aside.worn[s[1]][s[2]] = m})
       ELSE 0)

\* A theft, its return, an unequipped character and one set aside neither make
\* materia nor lose any, but for two cases: what finds no free place in the
\* inventory, and what a character set aside finds in its places when it
\* returns.
PiecesKept ==
    [][\A m \in Kinds :
         /\ Pieces(m)' > Pieces(m) => UNCHANGED <<worn, loot, aside, holds>>
         /\ Pieces(m)' < Pieces(m) => \/ \A p \in Pocket : pockets'[p] # None
                                      \/ (holds = "aside" /\ holds' = "nothing")]_vars

\* The theft takes the most valuable: nothing left with a visible character or
\* in the inventory is worth more than something taken, and something is left
\* only when the buffer is full.
Left == {m \in Kinds : \/ \E p \in Pocket : pockets[p] = m
                       \/ \E c \in Seen, g \in Gear, s \in Slot : worn[c][g][s] = m}
TakesBest ==
    [][holds' = "loot" /\ holds # "loot" =>
         \A m \in Left', e \in Entry :
             loot'[e] # None /\ Worth[loot'[e]] >= Worth[m]]_vars
=============================================================================
