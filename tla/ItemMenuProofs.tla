--------------------------- MODULE ItemMenuProofs ---------------------------
(***************************************************************************)
(* Proofs about ItemMenu: of the items, for inventories of every size,     *)
(* every table of names and flags, and every order of gives, takes and     *)
(* sorts; of the materia, for every number of characters, slots, places    *)
(* and entries of the buffer, and every table of values.                   *)
(***************************************************************************)
EXTENDS ItemMenu, FiniteSetTheorems, SequenceTheorems, WellFoundedInduction, TLAPS

----------------------------------------------------------------------------
(***************************************************************************)
(* The least and the greatest of a set of numbers.  There is one because   *)
(* the natural numbers are well founded.                                   *)
(***************************************************************************)
SmallerThan == {ss \in Nat \X Nat : ss[1] < ss[2]}

LEMMA SmallerIsWellFounded == IsWellFoundedOn(SmallerThan, Nat)
  BY NatLessThanWellFounded DEF OpToRel, SmallerThan

LEMMA LeastThere ==
  ASSUME NEW S \in SUBSET Nat, S # {}
  PROVE  \E m \in S : \A n \in S : m <= n
  <1>1. PICK m \in S : \A n \in S : <<n, m>> \notin SmallerThan
    <2> HIDE DEF SmallerThan
    <2>1. QED
      BY SmallerIsWellFounded, WFMin
  <1>2. \A n \in S : ~(n < m)
    BY <1>1 DEF SmallerThan
  <1>3. QED
    BY <1>2

LEMMA LeastIs ==
  ASSUME NEW S \in SUBSET Nat, S # {}
  PROVE  Min(S) \in S /\ \A n \in S : Min(S) <= n
  BY LeastThere DEF Min

\* Counted from above, the greatest is the least.
LEMMA GreatestIs ==
  ASSUME NEW S \in SUBSET Nat, S # {}, NEW top \in Nat, \A n \in S : n <= top
  PROVE  Max(S) \in S /\ \A n \in S : n <= Max(S)
  <1> DEFINE T == {top - n : n \in S}
  <1>1. T \in SUBSET Nat /\ T # {}
    <2>1. PICK n \in S : TRUE
      OBVIOUS
    <2>2. top - n \in T
      BY <2>1
    <2>3. QED
      BY <2>2
  <1>2. PICK m \in T : \A n \in T : m <= n
    BY <1>1, LeastThere
  <1>3. PICK x \in S : m = top - x
    OBVIOUS
  <1>4. \A n \in S : n <= x
    BY <1>2, <1>3
  <1>5. QED
    BY <1>4 DEF Max

----------------------------------------------------------------------------
(***************************************************************************)
(* An inventory as a number of each item.                                  *)
(***************************************************************************)
InvOK(inv) == inv \in Inventory /\ OnePlaceEach(inv)
Counts(inv) == [id \in Ids |-> HowMany(inv, id)]

LEMMA EntryIs ==
  ASSUME NEW inv, InvOK(inv), NEW p \in Place
  PROVE  /\ p \in Nat /\ p < Places
         /\ inv[p] # None => inv[p] \in Stacks /\ inv[p].id \in Ids /\ inv[p].n \in 0 .. Cap
  BY ItemsAssumption DEF InvOK, Inventory, Stacks, Place

\* The number is that of the one place with the item, and none without.
LEMMA CountIs ==
  ASSUME NEW inv, InvOK(inv)
  PROVE  /\ \A p \in Place : inv[p] # None =>
              /\ HowMany(inv, inv[p].id) = inv[p].n
              /\ At(inv, inv[p].id) # {} /\ Min(At(inv, inv[p].id)) = p
         /\ \A id : (\A p \in Place : inv[p] # None => inv[p].id # id) =>
              HowMany(inv, id) = 0 /\ At(inv, id) = {}
  <1>1. ASSUME NEW p \in Place, inv[p] # None
        PROVE  /\ HowMany(inv, inv[p].id) = inv[p].n
               /\ At(inv, inv[p].id) # {} /\ Min(At(inv, inv[p].id)) = p
    <2>1. At(inv, inv[p].id) = {p}
      BY <1>1 DEF At, InvOK, OnePlaceEach
    <2>2. Min({p}) = p
      BY EntryIs, LeastIs
    <2>3. QED
      BY <2>1, <2>2 DEF HowMany
  <1>2. ASSUME NEW id, \A p \in Place : inv[p] # None => inv[p].id # id
        PROVE  HowMany(inv, id) = 0 /\ At(inv, id) = {}
    BY <1>2 DEF HowMany, At
  <1>3. QED
    BY <1>1, <1>2

\* An item is at a place, or nowhere.
LEMMA SomewhereOrNot ==
  ASSUME NEW inv, InvOK(inv), NEW id \in Ids
  PROVE  \/ \E p \in Place : /\ inv[p] # None /\ inv[p].id = id /\ HowMany(inv, id) = inv[p].n
                             /\ At(inv, id) # {} /\ Min(At(inv, id)) = p
         \/ /\ \A p \in Place : inv[p] # None => inv[p].id # id
            /\ HowMany(inv, id) = 0 /\ At(inv, id) = {}
  BY CountIs

LEMMA CountsType ==
  ASSUME NEW inv, InvOK(inv)
  PROVE  Counts(inv) \in [Ids -> 0 .. Cap]
  <1>1. ASSUME NEW id \in Ids
        PROVE  HowMany(inv, id) \in 0 .. Cap
    BY SomewhereOrNot, EntryIs, ItemsAssumption
  <1>2. QED
    BY <1>1 DEF Counts

\* One place gets another entry, of an item that is nowhere else.
LEMMA OneChange ==
  ASSUME NEW inv, InvOK(inv), NEW p \in Place, NEW e \in {None} \cup Stacks,
         e # None => \A q \in Place : q # p /\ inv[q] # None => inv[q].id # e.id
  PROVE  /\ InvOK([inv EXCEPT ![p] = e])
         /\ \A id \in Ids : HowMany([inv EXCEPT ![p] = e], id) =
              IF e # None /\ e.id = id THEN e.n
              ELSE IF inv[p] # None /\ inv[p].id = id THEN 0 ELSE HowMany(inv, id)
  <1> DEFINE new == [inv EXCEPT ![p] = e]
  <1>1. /\ new \in Inventory
        /\ \A q \in Place : new[q] = IF q = p THEN e ELSE inv[q]
    BY DEF InvOK, Inventory
  <1> HIDE DEF new
  <1>2. OnePlaceEach(new)
    BY <1>1 DEF InvOK, OnePlaceEach
  <1>3. InvOK(new)
    BY <1>1, <1>2 DEF InvOK
  <1>4. ASSUME NEW id \in Ids
        PROVE  HowMany(new, id) =
                 IF e # None /\ e.id = id THEN e.n
                 ELSE IF inv[p] # None /\ inv[p].id = id THEN 0 ELSE HowMany(inv, id)
    <2>1. CASE e # None /\ e.id = id
      BY <1>1, <1>3, <2>1, CountIs
    <2>2. CASE ~(e # None /\ e.id = id) /\ inv[p] # None /\ inv[p].id = id
      <3>1. \A q \in Place : new[q] # None => new[q].id # id
        BY <1>1, <2>2 DEF InvOK, OnePlaceEach
      <3>2. QED
        BY <1>3, <2>2, <3>1, CountIs
    <2>3. CASE ~(e # None /\ e.id = id) /\ ~(inv[p] # None /\ inv[p].id = id)
      <3>1. CASE \E q \in Place : inv[q] # None /\ inv[q].id = id
        <4>1. PICK q \in Place : inv[q] # None /\ inv[q].id = id
          BY <3>1
        <4>2. new[q] = inv[q]
          BY <1>1, <2>3, <4>1
        <4>3. QED
          BY <1>3, <2>3, <4>1, <4>2, CountIs
      <3>2. CASE \A q \in Place : inv[q] # None => inv[q].id # id
        <4>1. \A q \in Place : new[q] # None => new[q].id # id
          BY <1>1, <2>3, <3>2
        <4>2. QED
          BY <1>3, <2>3, <3>2, <4>1, CountIs
      <3>3. QED
        BY <3>1, <3>2
    <2>4. QED
      BY <2>1, <2>2, <2>3
  <1>5. QED
    BY <1>3, <1>4 DEF new

\* There is a free place for an item that has none: there are as many as items.
LEMMA FreeThere ==
  ASSUME NEW inv, InvOK(inv), NEW id \in Ids, At(inv, id) = {}
  PROVE  FreePlaces(inv) # {}
  <1> SUFFICES ASSUME FreePlaces(inv) = {} PROVE FALSE
    OBVIOUS
  <1> DEFINE f == [p \in Place |-> inv[p].id]
  <1>1. \A p \in Place : inv[p] # None
    BY DEF FreePlaces
  <1>2. f \in [Place -> Ids \ {id}]
    BY <1>1, EntryIs DEF At
  <1>3. IsFiniteSet(Place) /\ Cardinality(Place) = Places
    <2>1. 0 \in Int /\ Places - 1 \in Int /\ Places \in Nat
      BY ItemsAssumption
    <2>2. /\ IsFiniteSet(0 .. Places - 1)
          /\ Cardinality(0 .. Places - 1) = IF 0 > Places - 1 THEN 0 ELSE Places - 1 - 0 + 1
      BY <2>1, FS_Interval
    <2>3. QED
      BY <2>1, <2>2 DEF Place
  <1>4. /\ IsFiniteSet(Ids \ {id}) /\ Cardinality(Ids) \in Nat
        /\ Cardinality(Ids \ {id}) = Cardinality(Ids) - 1
    BY FS_RemoveElement, FS_CardinalityType, ItemsAssumption
  <1>5. Cardinality(Ids \ {id}) < Cardinality(Place)
    BY <1>3, <1>4, ItemsAssumption
  <1> HIDE DEF f
  <1>6. \E p, q \in Place : p # q /\ f[p] = f[q]
    BY <1>2, <1>3, <1>4, <1>5, FS_PigeonHole
  <1>7. QED
    BY <1>1, <1>6 DEF f, InvOK, OnePlaceEach

LEMMA FreeIs ==
  ASSUME NEW inv, FreePlaces(inv) # {}
  PROVE  Min(FreePlaces(inv)) \in Place /\ inv[Min(FreePlaces(inv))] = None
  <1>1. FreePlaces(inv) \in SUBSET Nat
    BY ItemsAssumption DEF FreePlaces, Place
  <1>2. Min(FreePlaces(inv)) \in FreePlaces(inv)
    BY <1>1, LeastIs
  <1>3. QED
    BY <1>2 DEF FreePlaces

----------------------------------------------------------------------------
(***************************************************************************)
(* What the operations make of the numbers.                                *)
(***************************************************************************)
LEMMA AddCounts ==
  ASSUME NEW inv, InvOK(inv), NEW id \in Ids, NEW n \in 0 .. Cap
  PROVE  /\ InvOK(Add(inv, id, n))
         /\ Counts(Add(inv, id, n)) = [Counts(inv) EXCEPT ![id] = Bag!Less(@ + n, Cap)]
  <1>0. Cap \in Nat /\ None \notin Stacks
    BY ItemsAssumption
  <1>1. CASE At(inv, id) # {}
    <2>1. PICK p \in Place : /\ inv[p] # None /\ inv[p].id = id /\ HowMany(inv, id) = inv[p].n
                             /\ Min(At(inv, id)) = p
      BY <1>1, SomewhereOrNot
    <2> DEFINE m == IF inv[p].n + n > Cap THEN Cap ELSE inv[p].n + n
               e == [inv[p] EXCEPT !.n = m]
    <2>2. inv[p] \in Stacks /\ inv[p].n \in 0 .. Cap
      BY <2>1, EntryIs
    <2>3. m \in 0 .. Cap /\ m = Bag!Less(inv[p].n + n, Cap)
      BY <1>0, <2>2 DEF Bag!Less
    <2> HIDE DEF m
    <2>4. e \in Stacks /\ e # None /\ e.id = id /\ e.n = m
      BY <1>0, <2>1, <2>2, <2>3 DEF Stacks
    <2>5. Add(inv, id, n) = [inv EXCEPT ![p] = e]
      BY <1>1, <2>1 DEF Add, m
    <2> HIDE DEF e
    <2>6. /\ e \in {None} \cup Stacks
          /\ e # None => \A q \in Place : q # p /\ inv[q] # None => inv[q].id # e.id
      BY <2>1, <2>4 DEF InvOK, OnePlaceEach
    <2>7. /\ InvOK([inv EXCEPT ![p] = e])
          /\ \A x \in Ids : HowMany([inv EXCEPT ![p] = e], x) =
               IF e # None /\ e.id = x THEN e.n
               ELSE IF inv[p] # None /\ inv[p].id = x THEN 0 ELSE HowMany(inv, x)
      BY <2>6, OneChange
    <2>8. \A x \in Ids : HowMany(Add(inv, id, n), x) =
               IF x = id THEN Bag!Less(HowMany(inv, id) + n, Cap) ELSE HowMany(inv, x)
      BY <2>1, <2>3, <2>4, <2>5, <2>7
    <2>9. QED
      BY <2>5, <2>7, <2>8 DEF Counts
  <1>2. CASE At(inv, id) = {}
    <2>1. FreePlaces(inv) # {}
      BY <1>2, FreeThere
    <2> DEFINE p == Min(FreePlaces(inv))
               e == [id |-> id, n |-> n]
    <2>2. p \in Place /\ inv[p] = None
      BY <2>1, FreeIs
    <2>3. e \in Stacks /\ e # None /\ e.id = id /\ e.n = n
      BY <1>0 DEF Stacks
    <2>4. Add(inv, id, n) = [inv EXCEPT ![p] = e]
      BY <1>2, <2>1 DEF Add
    <2> HIDE DEF e, p
    <2>5. /\ e \in {None} \cup Stacks /\ p \in Place
          /\ e # None => \A q \in Place : q # p /\ inv[q] # None => inv[q].id # e.id
      BY <1>2, <2>2, <2>3 DEF At
    <2>6. /\ InvOK([inv EXCEPT ![p] = e])
          /\ \A x \in Ids : HowMany([inv EXCEPT ![p] = e], x) =
               IF e # None /\ e.id = x THEN e.n
               ELSE IF inv[p] # None /\ inv[p].id = x THEN 0 ELSE HowMany(inv, x)
      BY <2>5, OneChange
    <2>7. HowMany(inv, id) = 0 /\ Bag!Less(HowMany(inv, id) + n, Cap) = n
      BY <1>0, <1>2 DEF HowMany, Bag!Less
    <2>8. \A x \in Ids : HowMany(Add(inv, id, n), x) =
               IF x = id THEN Bag!Less(HowMany(inv, id) + n, Cap) ELSE HowMany(inv, x)
      BY <2>2, <2>3, <2>4, <2>6, <2>7
    <2>9. QED
      BY <2>4, <2>6, <2>8 DEF Counts
  <1>3. QED
    BY <1>1, <1>2

LEMMA TakeCounts ==
  ASSUME NEW inv, InvOK(inv), NEW id \in Ids, NEW n \in 0 .. Cap
  PROVE  /\ InvOK(Take(inv, id, n))
         /\ Counts(Take(inv, id, n)) = [Counts(inv) EXCEPT ![id] = IF n < @ THEN @ - n ELSE 0]
  <1>0. Cap \in Nat /\ None \notin Stacks
    BY ItemsAssumption
  <1>1. CASE At(inv, id) # {}
    <2>1. PICK p \in Place : /\ inv[p] # None /\ inv[p].id = id /\ HowMany(inv, id) = inv[p].n
                             /\ Min(At(inv, id)) = p
      BY <1>1, SomewhereOrNot
    <2> DEFINE e == IF n < inv[p].n THEN [id |-> id, n |-> inv[p].n - n] ELSE None
    <2>2. inv[p] \in Stacks /\ inv[p].n \in 0 .. Cap
      BY <2>1, EntryIs
    <2>3. /\ e \in {None} \cup Stacks
          /\ n < inv[p].n => e # None /\ e.id = id /\ e.n = inv[p].n - n
          /\ ~(n < inv[p].n) => e = None
      BY <1>0, <2>2 DEF Stacks
    <2>4. Take(inv, id, n) = [inv EXCEPT ![p] = e]
      BY <1>1, <2>1 DEF Take
    <2> HIDE DEF e
    <2>5. e # None => \A q \in Place : q # p /\ inv[q] # None => inv[q].id # e.id
      BY <2>1, <2>3 DEF InvOK, OnePlaceEach
    <2>6. /\ InvOK([inv EXCEPT ![p] = e])
          /\ \A x \in Ids : HowMany([inv EXCEPT ![p] = e], x) =
               IF e # None /\ e.id = x THEN e.n
               ELSE IF inv[p] # None /\ inv[p].id = x THEN 0 ELSE HowMany(inv, x)
      BY <2>3, <2>5, OneChange
    <2>7. \A x \in Ids : HowMany(Take(inv, id, n), x) =
               IF x = id THEN IF n < HowMany(inv, id) THEN HowMany(inv, id) - n ELSE 0
               ELSE HowMany(inv, x)
      BY <2>1, <2>3, <2>4, <2>6
    <2>8. QED
      BY <2>4, <2>6, <2>7 DEF Counts
  <1>2. CASE At(inv, id) = {}
    <2>1. Take(inv, id, n) = inv
      BY <1>2 DEF Take
    <2>2. HowMany(inv, id) = 0
      BY <1>2 DEF HowMany
    <2>3. QED
      BY <2>1, <2>2 DEF Counts
  <1>3. QED
    BY <1>1, <1>2

\* Two places that are exchanged: the numbers stay.
LEMMA SwapCounts ==
  ASSUME NEW inv, InvOK(inv), NEW i \in Place, NEW j \in Place
  PROVE  /\ InvOK(Swapped(inv, i, j))
         /\ \A p \in Place : Swapped(inv, i, j)[p] =
              IF p = j THEN inv[i] ELSE IF p = i THEN inv[j] ELSE inv[p]
         /\ Counts(Swapped(inv, i, j)) = Counts(inv)
  <1> DEFINE new == Swapped(inv, i, j)
  <1>1. /\ new \in Inventory
        /\ \A p \in Place : new[p] = IF p = j THEN inv[i] ELSE IF p = i THEN inv[j] ELSE inv[p]
    BY DEF Swapped, InvOK, Inventory
  <1> HIDE DEF new
  <1>2. InvOK(new)
    BY <1>1 DEF InvOK, OnePlaceEach
  <1>3. ASSUME NEW id \in Ids
        PROVE  HowMany(new, id) = HowMany(inv, id)
    <2>1. CASE \E p \in Place : inv[p] # None /\ inv[p].id = id
      <3>1. PICK p \in Place : inv[p] # None /\ inv[p].id = id
        BY <2>1
      <3>2. PICK q \in Place : new[q] = inv[p]
        BY <1>1
      <3>3. HowMany(inv, id) = inv[p].n
        BY <3>1, CountIs
      <3>4. HowMany(new, id) = new[q].n
        BY <1>2, <3>1, <3>2, CountIs
      <3>5. QED
        BY <3>2, <3>3, <3>4
    <2>2. CASE \A p \in Place : inv[p] # None => inv[p].id # id
      <3>1. \A p \in Place : new[p] # None => new[p].id # id
        BY <1>1, <2>2
      <3>2. QED
        BY <1>2, <2>2, <3>1, CountIs
    <2>3. QED
      BY <2>1, <2>2
  <1>4. Counts(new) = Counts(inv)
    BY <1>3 DEF Counts
  <1>5. QED
    BY <1>1, <1>2, <1>4 DEF new

\* CLITM empties the place of every item.
LEMMA ClearCounts ==
  ASSUME NEW inv, InvOK(inv), NEW new,
         new = [p \in Place |-> IF inv[p] # None /\ p = Min(At(inv, inv[p].id)) THEN None ELSE inv[p]]
  PROVE  InvOK(new) /\ Counts(new) = [id \in Ids |-> 0]
  <1>1. \A p \in Place : new[p] = None
    BY CountIs
  <1>2. InvOK(new)
    BY <1>1 DEF InvOK, Inventory, OnePlaceEach
  <1>3. \A id \in Ids : HowMany(new, id) = 0
    BY <1>1, <1>2, CountIs
  <1>4. QED
    BY <1>2, <1>3 DEF Counts

\* FLITM gives every item its place, with all there can be of it.
LEMMA FillCounts ==
  ASSUME NEW inv, InvOK(inv), NEW new \in [Missing(inv) -> FreePlaces(inv)],
         \A a, b \in Missing(inv) : new[a] = new[b] => a = b
  PROVE  InvOK(Filled(inv, new)) /\ Counts(Filled(inv, new)) = [id \in Ids |-> Cap]
  <1> DEFINE g == Filled(inv, new)
             Here(p) == CHOOSE id \in Missing(inv) : new[id] = p
  <1>0. Cap \in Nat /\ Cap \in 0 .. Cap /\ None \notin Stacks
    BY ItemsAssumption
  <1>1. ASSUME NEW p \in Place, inv[p] # None
        PROVE  /\ g[p] \in Stacks /\ g[p] # None /\ g[p].id = inv[p].id /\ g[p].n = Cap
               /\ g[p].id \notin Missing(inv)
    <2>1. inv[p] \in Stacks /\ Min(At(inv, inv[p].id)) = p /\ At(inv, inv[p].id) # {}
      BY <1>1, EntryIs, CountIs
    <2>2. g[p] = [inv[p] EXCEPT !.n = Cap]
      BY <1>1, <2>1 DEF Filled
    <2>3. [inv[p] EXCEPT !.n = Cap] \in Stacks /\ [inv[p] EXCEPT !.n = Cap].id = inv[p].id
          /\ [inv[p] EXCEPT !.n = Cap].n = Cap
      BY <1>0, <2>1 DEF Stacks
    <2>4. inv[p].id \notin Missing(inv)
      BY <2>1 DEF Missing
    <2>5. QED
      BY <1>0, <2>2, <2>3, <2>4
  <1>2. ASSUME NEW p \in Place, inv[p] = None
        PROVE  \/ g[p] = None /\ \A id \in Missing(inv) : new[id] # p
               \/ /\ g[p] \in Stacks /\ g[p] # None /\ g[p].n = Cap
                  /\ g[p].id \in Missing(inv) /\ new[g[p].id] = p
    <2>1. CASE \E id \in Missing(inv) : new[id] = p
      <3>1. Here(p) \in Missing(inv) /\ new[Here(p)] = p
        BY <2>1
      <3>2. g[p] = [id |-> Here(p), n |-> Cap]
        BY <1>2, <2>1 DEF Filled
      <3> HIDE DEF g, Here
      <3>3. Here(p) \in Ids
        BY <3>1 DEF Missing
      <3>4. g[p] \in Stacks
        BY <1>0, <3>2, <3>3 DEF Stacks
      <3>5. QED
        BY <1>0, <3>1, <3>2, <3>4
    <2>2. CASE \A id \in Missing(inv) : new[id] # p
      BY <1>2, <2>2 DEF Filled
    <2>3. QED
      BY <2>1, <2>2
  <1>3. DOMAIN g = Place /\ g = [p \in Place |-> g[p]]
    BY DEF Filled
  <1> HIDE DEF g
  <1>4. \A p \in Place : g[p] \in {None} \cup Stacks /\ (g[p] # None => g[p].n = Cap)
    BY <1>1, <1>2
  <1>5. OnePlaceEach(g)
    <2> SUFFICES ASSUME NEW p \in Place, NEW q \in Place, g[p] # None, g[q] # None, g[p].id = g[q].id
                 PROVE  p = q
      BY DEF OnePlaceEach
    <2>1. CASE inv[p] # None /\ inv[q] # None
      BY <1>1, <2>1 DEF InvOK, OnePlaceEach
    <2>2. CASE inv[p] = None /\ inv[q] = None
      BY <1>2, <2>2
    <2>3. CASE inv[p] = None /\ inv[q] # None
      BY <1>1, <1>2, <2>3
    <2>4. CASE inv[p] # None /\ inv[q] = None
      BY <1>1, <1>2, <2>4
    <2>5. QED
      BY <2>1, <2>2, <2>3, <2>4
  <1>6. InvOK(g)
    BY <1>3, <1>4, <1>5 DEF InvOK, Inventory
  <1>7. ASSUME NEW id \in Ids
        PROVE  \E p \in Place : g[p] # None /\ g[p].id = id
    <2>1. CASE id \in Missing(inv)
      <3>1. new[id] \in Place /\ inv[new[id]] = None
        BY <2>1 DEF FreePlaces
      <3>2. g[new[id]] # None /\ g[new[id]].id \in Missing(inv) /\ new[g[new[id]].id] = new[id]
        BY <1>2, <2>1, <3>1
      <3>3. QED
        BY <2>1, <3>1, <3>2
    <2>2. CASE id \notin Missing(inv)
      <3>1. PICK p \in Place : inv[p] # None /\ inv[p].id = id
        BY <2>2 DEF Missing, At
      <3>2. QED
        BY <1>1, <3>1
    <2>3. QED
      BY <2>1, <2>2
  <1>8. \A id \in Ids : HowMany(g, id) = Cap
    BY <1>4, <1>6, <1>7, CountIs
  <1>9. QED
    BY <1>6, <1>8 DEF Counts, g

----------------------------------------------------------------------------
(***************************************************************************)
(* Quicksort: what a range and the stack of ranges are.                    *)
(***************************************************************************)
Ranges == [lo : Nat, hi : Nat, i : Nat, j : Nat]

\* A range of two places or more, of which i and j have left what is between.
RangeOK(r) == /\ r.lo < r.hi /\ r.hi < Places
              /\ r.lo < r.i /\ r.i <= r.j + 1 /\ r.j <= r.hi
\* What i and j have gone past is on its side of the pivot.
Pivoted(K, r) ==
    \A p \in Place : /\ r.lo < p /\ p < r.i => K[p] <= K[r.lo]
                     /\ r.j < p /\ p <= r.hi => K[r.lo] <= K[p]
Disjoint(st) ==
    \A k, l \in 1 .. Len(st) : l < k => st[l].hi < st[k].lo \/ st[k].hi < st[l].lo
\* Two places in the wrong order are in a range still to be sorted.
Apart(K, st) ==
    \A p, q \in Place : p < q => \/ K[p] <= K[q]
                                 \/ \E k \in 1 .. Len(st) : st[k].lo <= p /\ q <= st[k].hi
\* The range at a place of the stack is not longer than what is left of all
\* places when they are halved as often as there are ranges below it.
Halved == CHOOSE h \in Halving : h[Depth] = 0
Short(st) == /\ Len(st) <= Depth
             /\ \A k \in 1 .. Len(st) : st[k].hi - st[k].lo < Halved[k - 1]

RangesOK(st) == /\ st \in Seq(Ranges) /\ Disjoint(st) /\ Short(st)
                /\ \A k \in 1 .. Len(st) : RangeOK(st[k])

\* What the comparator sees of a place.
Key == [p \in Place |-> Rank(order, items[p])]

LEMMA RankType ==
  ASSUME NEW mode, NEW e \in {None} \cup Stacks
  PROVE  Rank(mode, e) \in Int
  <1>1. ASSUME e # None
        PROVE  e.id \in Nat /\ e.n \in Int /\ NameOrder[e.id] \in Int
    <2>1. e.id \in Ids /\ e.n \in 0 .. Cap
      BY <1>1 DEF Stacks
    <2>2. Ids \subseteq Nat /\ Cap \in Nat /\ NameOrder \in [Ids -> Int]
      BY ItemsAssumption
    <2>3. e.id \in Nat
      BY <2>1, <2>2
    <2>4. e.n \in Int
      BY <2>1, <2>2
    <2>5. NameOrder[e.id] \in Int
      BY <2>1, <2>2
    <2>6. QED
      BY <2>3, <2>4, <2>5
  <1>2. CASE mode = "type"
    BY <1>1, <1>2 DEF Rank, NoId
  <1>3. CASE mode = "name"
    BY <1>1, <1>3 DEF Rank, AtEnd
  <1>4. CASE mode = "most"
    BY <1>1, <1>4 DEF Rank
  <1>5. CASE mode = "least"
    BY <1>1, <1>5 DEF Rank, AtEnd
  <1>6. CASE mode \notin {"type", "name", "most", "least"}
    BY <1>6 DEF Rank
  <1>7. QED
    BY <1>2, <1>3, <1>4, <1>5, <1>6

\* What has no higher rank may lie before, in the sense of the menu's orders.
LEMMA RanksInOrder ==
  ASSUME NEW mode, NEW e \in {None} \cup Stacks, NEW f \in {None} \cup Stacks,
         Rank(mode, e) <= Rank(mode, f)
  PROVE  InOrder(mode, e, f)
  <1>1. ASSUME NEW x \in {e, f}, x # None
        PROVE  /\ x.id \in Int /\ x.id < NoId /\ x.n \in Int /\ 0 <= x.n /\ x.n < AtEnd
               /\ NameOrder[x.id] \in Int /\ NameOrder[x.id] < AtEnd
    <2>1. x.id \in Ids /\ x.n \in 0 .. Cap
      BY <1>1 DEF Stacks
    <2>2. Cap \in 1 .. AtEnd - 1 /\ Ids \subseteq 0 .. NoId - 1 /\ AtEnd \in Nat /\ NoId \in Nat
      BY ItemsAssumption DEF AtEnd, NoId
    <2>3. NameOrder[x.id] \in Int /\ NameOrder[x.id] < AtEnd
      <3>1. NameOrder \in [Ids -> Int] /\ \A id \in Ids : NameOrder[id] < AtEnd
        BY ItemsAssumption
      <3>2. QED
        BY <2>1, <3>1
    <2>4. x.id \in Int /\ x.id < NoId
      <3>1. \A id \in Ids : id \in 0 .. NoId - 1
        BY <2>2
      <3>2. \A id \in 0 .. NoId - 1 : id \in Int /\ id < NoId
        BY <2>2
      <3>3. QED
        BY <2>1, <3>1, <3>2
    <2>5. x.n \in Int /\ 0 <= x.n /\ x.n < AtEnd
      <3>1. \A c, top \in Int : c \in 1 .. top - 1 => \A k \in 0 .. c : k \in Int /\ 0 <= k /\ k < top
        OBVIOUS
      <3>2. QED
        BY <2>1, <2>2, <3>1
    <2>6. QED
      BY <2>3, <2>4, <2>5
  <1>2. CASE mode = "type"
    BY <1>1, <1>2 DEF Rank, InOrder, NoId
  <1>3. CASE mode = "name"
    BY <1>1, <1>3 DEF Rank, InOrder, AtEnd
  <1>4. CASE mode = "most"
    BY <1>1, <1>4 DEF Rank, InOrder
  <1>5. CASE mode = "least"
    BY <1>1, <1>5 DEF Rank, InOrder, AtEnd
  <1>6. CASE mode \notin {"type", "name", "most", "least"}
    BY <1>6 DEF Rank, InOrder
  <1>7. QED
    BY <1>2, <1>3, <1>4, <1>5, <1>6

LEMMA KeyType ==
  ASSUME InvOK(items)
  PROVE  /\ Key \in [Place -> Int]
         /\ \A p, q \in Place : After(items, order, p, q) <=> Key[p] > Key[q]
  <1>1. \A p \in Place : items[p] \in {None} \cup Stacks
    BY DEF InvOK, Inventory
  <1>2. QED
    BY <1>1, RankType DEF Key, After

LEMMA NextUpIs ==
  ASSUME NEW a, NEW mode, NEW lo, NEW i \in Nat, NEW j \in Nat, i <= j
  PROVE  /\ NextUp(a, mode, lo, i, j) \in i .. j
         /\ \A p \in i .. NextUp(a, mode, lo, i, j) - 1 : ~After(a, mode, p, lo)
         /\ NextUp(a, mode, lo, i, j) = j \/ After(a, mode, NextUp(a, mode, lo, i, j), lo)
  <1> DEFINE S == {k \in i .. j : k = j \/ After(a, mode, k, lo)}
             up == NextUp(a, mode, lo, i, j)
  <1>1. S \in SUBSET Nat /\ j \in S
    OBVIOUS
  <1>2. up = Min(S)
    BY DEF NextUp
  <1>3. Min(S) \in S /\ \A n \in S : Min(S) <= n
    BY <1>1, LeastIs
  <1> HIDE DEF up
  <1>4. up \in i .. j /\ (up = j \/ After(a, mode, up, lo)) /\ \A n \in S : up <= n
    BY <1>2, <1>3
  <1>5. \A p \in i .. up - 1 : ~After(a, mode, p, lo)
    BY <1>4
  <1>6. QED
    BY <1>4, <1>5 DEF up

LEMMA NextDownIs ==
  ASSUME NEW a, NEW mode, NEW lo, NEW i \in Nat, NEW j \in Nat, 1 <= i, i <= j + 1
  PROVE  /\ NextDown(a, mode, lo, i, j) \in i - 1 .. j
         /\ \A p \in NextDown(a, mode, lo, i, j) + 1 .. j : ~After(a, mode, lo, p)
         /\ NextDown(a, mode, lo, i, j) = i - 1 \/ After(a, mode, lo, NextDown(a, mode, lo, i, j))
  <1> DEFINE S == {k \in i - 1 .. j : k = i - 1 \/ After(a, mode, lo, k)}
             down == NextDown(a, mode, lo, i, j)
  <1>1. S \in SUBSET Nat /\ i - 1 \in S /\ \A n \in S : n <= j
    OBVIOUS
  <1>2. down = Max(S)
    BY DEF NextDown
  <1>3. Max(S) \in S /\ \A n \in S : n <= Max(S)
    BY <1>1, GreatestIs
  <1> HIDE DEF down
  <1>4. down \in i - 1 .. j /\ (down = i - 1 \/ After(a, mode, lo, down)) /\ \A n \in S : n <= down
    BY <1>2, <1>3
  <1>5. \A p \in down + 1 .. j : ~After(a, mode, lo, p)
    BY <1>4
  <1>6. QED
    BY <1>4, <1>5 DEF down

----------------------------------------------------------------------------
(***************************************************************************)
(* The stack of ranges: its top, and what comes in its place.              *)
(***************************************************************************)
LEMMA HalvedIs ==
  /\ Depth \in Nat /\ Halved[0] = Places /\ Halved[Depth] = 0
  /\ \A k \in 0 .. Depth : Halved[k] \in Nat
  /\ \A k \in 1 .. Depth : Halved[k] = Halved[k - 1] \div 2
  <1>1. Halved \in Halving /\ Halved[Depth] = 0
    BY ItemsAssumption DEF Halved
  <1>2. Places \in Nat /\ Depth \in Nat
    BY ItemsAssumption
  <1>3. Halved \in [0 .. Depth -> 0 .. Places]
    BY <1>1 DEF Halving
  <1>4. QED
    BY <1>1, <1>2, <1>3 DEF Halving

\* A range of two places or more under which there are k others: k + 1 is less
\* than Depth.
LEMMA RoomForIt ==
  ASSUME NEW k \in 0 .. Depth, NEW d \in Nat, d >= 1, d < Halved[k]
  PROVE  k + 1 < Depth
  <1>1. Depth \in Nat /\ Halved[k] \in Nat /\ Halved[k] >= 2
    BY HalvedIs
  <1>2. k # Depth
    BY <1>1, HalvedIs
  <1>3. Halved[k + 1] = Halved[k] \div 2
    BY <1>1, <1>2, HalvedIs
  <1>4. Halved[k + 1] >= 1
    BY <1>1, <1>3
  <1>5. k + 1 # Depth
    BY <1>4, HalvedIs
  <1>6. QED
    BY <1>1, <1>2, <1>5

LEMMA TopIs ==
  ASSUME NEW st \in Seq(Ranges), st # << >>
  PROVE  /\ Len(st) \in Nat \ {0} /\ st[Len(st)] \in Ranges
         /\ SubSeq(st, 1, Len(st) - 1) \in Seq(Ranges)
         /\ Len(SubSeq(st, 1, Len(st) - 1)) = Len(st) - 1
         /\ \A k \in 1 .. Len(st) - 1 : SubSeq(st, 1, Len(st) - 1)[k] = st[k]
  <1> DEFINE n == Len(st)
             s == SubSeq(st, 1, n - 1)
  <1>1. n \in Nat \ {0} /\ \A k \in 1 .. n : st[k] \in Ranges
    OBVIOUS
  <1> HIDE DEF n
  <1>2. n - 1 \in Int /\ \A k \in 1 .. n - 1 : st[k] \in Ranges
    BY <1>1
  <1>3. /\ s \in Seq(Ranges)
        /\ Len(s) = IF 1 <= n - 1 THEN n - 1 - 1 + 1 ELSE 0
        /\ \A k \in 1 .. n - 1 - 1 + 1 : s[k] = st[1 + k - 1]
    BY <1>2, SubSeqProperties
  <1> HIDE DEF s
  <1>4. \A k \in 1 .. n - 1 : s[k] = st[k]
    <2> TAKE k \in 1 .. n - 1
    <2>1. k \in 1 .. n - 1 - 1 + 1 /\ 1 + k - 1 = k
      BY <1>1
    <2>2. QED
      BY <1>3, <2>1
  <1>5. Len(s) = n - 1
    BY <1>1, <1>3
  <1>6. QED
    BY <1>1, <1>3, <1>4, <1>5 DEF n, s

LEMMA TwoInOrder ==
  ASSUME NEW a, NEW b
  PROVE  << a >> \o << b >> = << a, b >>
  <1> DEFINE s == << a >> \o << b >>
  <1>1. << a >> \in Seq({a, b}) /\ << b >> \in Seq({a, b}) /\ Len(<< a >>) = 1 /\ Len(<< b >>) = 1
    OBVIOUS
  <1>2. s \in Seq({a, b}) /\ Len(s) = 2
    BY <1>1, ConcatProperties
  <1>3. \A k \in 1 .. 2 : s[k] = IF k <= 1 THEN << a >>[k] ELSE << b >>[k - 1]
    BY <1>1, ConcatProperties
  <1> HIDE DEF s
  <1>4. s[1] = a /\ s[2] = b
    BY <1>3
  <1>5. s = << a, b >>
    BY <1>2, <1>4
  <1>6. QED
    BY <1>5 DEF s

\* What is left of a range: both parts, the longer one first, or those of two
\* places or more.
LEMMA PartsIs ==
  ASSUME NEW r \in Ranges, RangeOK(r), r.i >= r.j
  PROVE  LET L == Span(r.lo, r.j - 1)
             R == Span(r.i, r.hi)
         IN  \/ Parts(r) = << >> /\ ~(r.lo < r.j - 1) /\ ~(r.i < r.hi)
             \/ Parts(r) = << L >> /\ r.lo < r.j - 1 /\ ~(r.i < r.hi)
             \/ Parts(r) = << R >> /\ ~(r.lo < r.j - 1) /\ r.i < r.hi
             \/ /\ Parts(r) = << L, R >> /\ r.lo < r.j - 1 /\ r.i < r.hi
                /\ r.hi - r.i <= r.j - 1 - r.lo
             \/ /\ Parts(r) = << R, L >> /\ r.lo < r.j - 1 /\ r.i < r.hi
                /\ r.j - 1 - r.lo <= r.hi - r.i
  <1> DEFINE L == Span(r.lo, r.j - 1)
             R == Span(r.i, r.hi)
  <1>1. /\ SpanOf(r.lo, r.j - 1) = IF r.lo < r.j - 1 THEN << L >> ELSE << >>
        /\ SpanOf(r.i, r.hi) = IF r.i < r.hi THEN << R >> ELSE << >>
    BY DEF SpanOf
  <1> HIDE DEF L, R
  <1>2. /\ << >> \o << >> = << >> /\ << L >> \o << >> = << L >> /\ << >> \o << L >> = << L >>
        /\ << R >> \o << >> = << R >> /\ << >> \o << R >> = << R >>
    OBVIOUS
  <1>3. << L >> \o << R >> = << L, R >> /\ << R >> \o << L >> = << R, L >>
    BY TwoInOrder
  <1>4. r.lo \in Nat /\ r.hi \in Nat /\ r.i \in Nat /\ r.j \in Nat
    BY DEF Ranges
  <1>5. \/ Parts(r) = << >> /\ ~(r.lo < r.j - 1) /\ ~(r.i < r.hi)
        \/ Parts(r) = << L >> /\ r.lo < r.j - 1 /\ ~(r.i < r.hi)
        \/ Parts(r) = << R >> /\ ~(r.lo < r.j - 1) /\ r.i < r.hi
        \/ /\ Parts(r) = << L, R >> /\ r.lo < r.j - 1 /\ r.i < r.hi
           /\ r.hi - r.i <= r.j - 1 - r.lo
        \/ /\ Parts(r) = << R, L >> /\ r.lo < r.j - 1 /\ r.i < r.hi
           /\ r.j - 1 - r.lo <= r.hi - r.i
    <2>1. CASE r.j - 1 - r.lo < r.hi - r.i
      <3>1. Parts(r) = SpanOf(r.i, r.hi) \o SpanOf(r.lo, r.j - 1)
        BY <2>1 DEF Parts
      <3>2. r.j - 1 - r.lo <= r.hi - r.i
        BY <1>4, <2>1
      <3>3. CASE r.i < r.hi
        BY <1>1, <1>2, <1>3, <3>1, <3>2, <3>3
      <3>4. CASE ~(r.i < r.hi)
        BY <1>1, <1>2, <1>3, <3>1, <3>2, <3>4
      <3>5. QED
        BY <3>3, <3>4
    <2>2. CASE ~(r.j - 1 - r.lo < r.hi - r.i)
      <3>1. Parts(r) = SpanOf(r.lo, r.j - 1) \o SpanOf(r.i, r.hi)
        BY <2>2 DEF Parts
      <3>2. r.hi - r.i <= r.j - 1 - r.lo
        BY <1>4, <2>2
      <3>3. CASE r.i < r.hi
        BY <1>1, <1>2, <1>3, <3>1, <3>2, <3>3
      <3>4. CASE ~(r.i < r.hi)
        BY <1>1, <1>2, <1>3, <3>1, <3>2, <3>4
      <3>5. QED
        BY <3>3, <3>4
    <2>3. QED
      BY <2>1, <2>2
  <1>6. QED
    BY <1>5 DEF L, R

LEMMA PartsAre ==
  ASSUME NEW r \in Ranges, RangeOK(r), r.i >= r.j
  PROVE  /\ Parts(r) \in Seq(Ranges) /\ Len(Parts(r)) \in 0 .. 2
         /\ \A k \in 1 .. Len(Parts(r)) :
              /\ RangeOK(Parts(r)[k]) /\ r.lo <= Parts(r)[k].lo /\ Parts(r)[k].hi <= r.hi
              /\ Parts(r)[k].i = Parts(r)[k].lo + 1 /\ Parts(r)[k].j = Parts(r)[k].hi
         /\ Len(Parts(r)) = 2 =>
              /\ Parts(r)[1].hi < Parts(r)[2].lo \/ Parts(r)[2].hi < Parts(r)[1].lo
              /\ 2 * (Parts(r)[2].hi - Parts(r)[2].lo) < r.hi - r.lo
         /\ r.lo < r.j - 1 => \E k \in 1 .. Len(Parts(r)) : Parts(r)[k] = Span(r.lo, r.j - 1)
         /\ r.i < r.hi => \E k \in 1 .. Len(Parts(r)) : Parts(r)[k] = Span(r.i, r.hi)
  <1> DEFINE L == Span(r.lo, r.j - 1)
             R == Span(r.i, r.hi)
             P == Parts(r)
             Whole(x) == /\ x \in Ranges /\ RangeOK(x) /\ r.lo <= x.lo /\ x.hi <= r.hi
                         /\ x.i = x.lo + 1 /\ x.j = x.hi
             Goal(s) == /\ s \in Seq(Ranges) /\ Len(s) \in 0 .. 2
                        /\ \A k \in 1 .. Len(s) : Whole(s[k])
                        /\ Len(s) = 2 => /\ s[1].hi < s[2].lo \/ s[2].hi < s[1].lo
                                         /\ 2 * (s[2].hi - s[2].lo) < r.hi - r.lo
                        /\ r.lo < r.j - 1 => \E k \in 1 .. Len(s) : s[k] = L
                        /\ r.i < r.hi => \E k \in 1 .. Len(s) : s[k] = R
  <1>1. /\ r.lo \in Nat /\ r.hi \in Nat /\ r.i \in Nat /\ r.j \in Nat /\ Places \in Nat
        /\ r.lo < r.hi /\ r.hi < Places /\ r.lo < r.i /\ r.i <= r.j + 1 /\ r.j <= r.hi
    BY ItemsAssumption DEF Ranges, RangeOK
  <1>2. r.lo < r.j - 1 => Whole(L)
    BY <1>1 DEF Span, Ranges, RangeOK
  <1>3. r.i < r.hi => Whole(R)
    BY <1>1 DEF Span, Ranges, RangeOK
  <1>4. L.lo = r.lo /\ L.hi = r.j - 1 /\ R.lo = r.i /\ R.hi = r.hi
    BY DEF Span
  <1>5. \/ P = << >> /\ ~(r.lo < r.j - 1) /\ ~(r.i < r.hi)
        \/ P = << L >> /\ r.lo < r.j - 1 /\ ~(r.i < r.hi)
        \/ P = << R >> /\ ~(r.lo < r.j - 1) /\ r.i < r.hi
        \/ /\ P = << L, R >> /\ r.lo < r.j - 1 /\ r.i < r.hi
           /\ r.hi - r.i <= r.j - 1 - r.lo
        \/ /\ P = << R, L >> /\ r.lo < r.j - 1 /\ r.i < r.hi
           /\ r.j - 1 - r.lo <= r.hi - r.i
    BY PartsIs
  <1>6. \A x : Whole(x) => x \in Ranges
    OBVIOUS
  <1> HIDE DEF L, R, P, Whole
  <1>7. Goal(P)
    <2>1. CASE P = << >> /\ ~(r.lo < r.j - 1) /\ ~(r.i < r.hi)
      BY <2>1
    <2>2. CASE P = << L >> /\ r.lo < r.j - 1 /\ ~(r.i < r.hi)
      BY <1>2, <1>6, <2>2
    <2>3. CASE P = << R >> /\ ~(r.lo < r.j - 1) /\ r.i < r.hi
      BY <1>3, <1>6, <2>3
    <2>4. CASE /\ P = << L, R >> /\ r.lo < r.j - 1 /\ r.i < r.hi
               /\ r.hi - r.i <= r.j - 1 - r.lo
      <3>1. L.hi < R.lo /\ 2 * (R.hi - R.lo) < r.hi - r.lo
        BY <1>1, <1>4, <2>4
      <3>2. P \in Seq(Ranges) /\ Len(P) = 2 /\ P[1] = L /\ P[2] = R
        BY <1>2, <1>3, <1>6, <2>4
      <3>3. QED
        BY <1>2, <1>3, <2>4, <3>1, <3>2
    <2>5. CASE /\ P = << R, L >> /\ r.lo < r.j - 1 /\ r.i < r.hi
               /\ r.j - 1 - r.lo <= r.hi - r.i
      <3>1. L.hi < R.lo /\ 2 * (L.hi - L.lo) < r.hi - r.lo
        BY <1>1, <1>4, <2>5
      <3>2. P \in Seq(Ranges) /\ Len(P) = 2 /\ P[1] = R /\ P[2] = L
        BY <1>2, <1>3, <1>6, <2>5
      <3>3. QED
        BY <1>2, <1>3, <2>5, <3>1, <3>2
    <2>6. QED
      BY <1>5, <2>1, <2>2, <2>3, <2>4, <2>5
  <1>8. QED
    BY <1>7 DEF L, R, P, Whole

\* The parts in the range's place: the stack keeps its form, and has room.
LEMMA SplitRanges ==
  ASSUME NEW st, RangesOK(st), st # << >>, st[Len(st)].i >= st[Len(st)].j
  PROVE  LET r    == st[Len(st)]
             more == SubSeq(st, 1, Len(st) - 1) \o Parts(r)
         IN  /\ RangesOK(more) /\ Len(more) < Depth
             /\ \A k \in 1 .. Len(st) - 1 : k \in 1 .. Len(more) /\ more[k] = st[k]
             /\ \A k \in 1 .. Len(more) :
                  k \in 1 .. Len(st) - 1 \/ (more[k].i = more[k].lo + 1 /\ more[k].j = more[k].hi)
             /\ r.lo < r.j - 1 => \E k \in 1 .. Len(more) : more[k].lo = r.lo /\ more[k].hi = r.j - 1
             /\ r.i < r.hi => \E k \in 1 .. Len(more) : more[k].lo = r.i /\ more[k].hi = r.hi
  <1> DEFINE n == Len(st)
             r == st[n]
             b == SubSeq(st, 1, n - 1)
             P == Parts(r)
             more == b \o P
  <1>1. /\ n \in Nat \ {0} /\ r \in Ranges /\ b \in Seq(Ranges) /\ Len(b) = n - 1
        /\ \A k \in 1 .. n - 1 : b[k] = st[k]
        /\ RangeOK(r) /\ n \in 1 .. n
    <2>1. st \in Seq(Ranges) /\ \A k \in 1 .. Len(st) : RangeOK(st[k])
      BY DEF RangesOK
    <2>2. QED
      BY <2>1, TopIs
  <1>2. r.i >= r.j
    OBVIOUS
  <1>3. /\ P \in Seq(Ranges) /\ Len(P) \in 0 .. 2
        /\ \A k \in 1 .. Len(P) : /\ RangeOK(P[k]) /\ r.lo <= P[k].lo /\ P[k].hi <= r.hi
                                  /\ P[k].i = P[k].lo + 1 /\ P[k].j = P[k].hi
        /\ Len(P) = 2 => /\ P[1].hi < P[2].lo \/ P[2].hi < P[1].lo
                         /\ 2 * (P[2].hi - P[2].lo) < r.hi - r.lo
        /\ r.lo < r.j - 1 => \E k \in 1 .. Len(P) : P[k] = Span(r.lo, r.j - 1)
        /\ r.i < r.hi => \E k \in 1 .. Len(P) : P[k] = Span(r.i, r.hi)
    <2> HIDE DEF r
    <2>1. QED
      BY <1>1, <1>2, PartsAre
  <1>4. /\ more \in Seq(Ranges) /\ Len(more) = n - 1 + Len(P)
        /\ \A k \in 1 .. n - 1 + Len(P) : more[k] = IF k <= n - 1 THEN b[k] ELSE P[k - (n - 1)]
    <2>1. b \in Seq(Ranges) /\ P \in Seq(Ranges) /\ Len(b) = n - 1
      BY <1>1, <1>3
    <2> HIDE DEF b, P, n, r
    <2>2. /\ more \in Seq(Ranges) /\ Len(more) = Len(b) + Len(P)
          /\ \A k \in 1 .. Len(b) + Len(P) : more[k] = IF k <= Len(b) THEN b[k] ELSE P[k - Len(b)]
      BY <2>1, ConcatProperties
    <2>3. QED
      BY <2>1, <2>2
  <1>5. /\ \A k, l \in 1 .. n : l < k => st[l].hi < st[k].lo \/ st[k].hi < st[l].lo
        /\ n <= Depth
        /\ \A k \in 1 .. n : RangeOK(st[k]) /\ st[k].hi - st[k].lo < Halved[k - 1]
    BY DEF RangesOK, Disjoint, Short
  <1> HIDE DEF n, r, b, P, more
  <1>6. \A k \in 1 .. Len(more) :
           \/ k \in 1 .. n - 1 /\ more[k] = st[k]
           \/ k \in n .. n + 1 /\ k - (n - 1) \in 1 .. Len(P) /\ more[k] = P[k - (n - 1)]
    <2> TAKE k \in 1 .. Len(more)
    <2>1. n \in Nat \ {0} /\ Len(P) \in 0 .. 2 /\ Len(more) = n - 1 + Len(P)
      BY <1>1, <1>3, <1>4
    <2>2. k \in 1 .. n - 1 + Len(P)
      BY <2>1
    <2>3. more[k] = IF k <= n - 1 THEN b[k] ELSE P[k - (n - 1)]
      BY <1>4, <2>2
    <2>4. CASE k <= n - 1
      <3>1. k \in 1 .. n - 1
        BY <2>1, <2>2, <2>4
      <3>2. QED
        BY <1>1, <2>3, <2>4, <3>1
    <2>5. CASE ~(k <= n - 1)
      <3> DEFINE m == Len(P)
      <3>0. n \in Nat \ {0} /\ m \in 0 .. 2 /\ k \in 1 .. n - 1 + m
        BY <2>1, <2>2
      <3> HIDE DEF m
      <3>1. k \in n .. n + 1 /\ k - (n - 1) \in 1 .. m
        BY <3>0, <2>5
      <3>2. QED
        BY <2>3, <2>5, <3>1 DEF m
    <2>6. QED
      BY <2>4, <2>5
  <1>7. /\ \A k \in 1 .. Len(P) : n - 1 + k \in 1 .. Len(more) /\ more[n - 1 + k] = P[k]
        /\ \A k \in 1 .. n - 1 : k \in 1 .. Len(more) /\ more[k] = st[k]
    <2>1. ASSUME NEW k \in 1 .. Len(P)
          PROVE  n - 1 + k \in 1 .. Len(more) /\ more[n - 1 + k] = P[k]
      <3>1. n \in Nat \ {0} /\ Len(P) \in 0 .. 2 /\ Len(more) = n - 1 + Len(P)
        BY <1>1, <1>3, <1>4
      <3> DEFINE x == n - 1 + k
      <3>2. /\ x \in 1 .. Len(more) /\ x \in 1 .. n - 1 + Len(P)
            /\ ~(x <= n - 1) /\ x - (n - 1) = k
        BY <3>1
      <3> HIDE DEF x
      <3>3. more[x] = IF x <= n - 1 THEN b[x] ELSE P[x - (n - 1)]
        BY <1>4, <3>2
      <3>4. x \in 1 .. Len(more) /\ more[x] = P[k]
        BY <3>2, <3>3
      <3>5. QED
        BY <3>4 DEF x
    <2>2. QED
      BY <1>1, <1>3, <1>4, <2>1
  <1>8. /\ \A k \in 1 .. Len(P) : P[k] \in Ranges
        /\ \A k \in 1 .. n : st[k] \in Ranges
        /\ \A k \in 1 .. Len(more) : more[k] \in Ranges
    BY <1>3, <1>4 DEF RangesOK, n
  <1>9. \A k \in 1 .. Len(more) : RangeOK(more[k])
    BY <1>1, <1>3, <1>5, <1>6
  <1>10. Disjoint(more)
    <2> SUFFICES ASSUME NEW k \in 1 .. Len(more), NEW l \in 1 .. Len(more), l < k
                 PROVE  more[l].hi < more[k].lo \/ more[k].hi < more[l].lo
      BY DEF Disjoint
    <2>1. CASE k \in 1 .. n - 1
      <3>1. l \in 1 .. n - 1 /\ k \in 1 .. n /\ l \in 1 .. n
        BY <1>1, <2>1
      <3>2. more[k] = st[k] /\ more[l] = st[l]
        BY <1>7, <2>1, <3>1
      <3>3. QED
        BY <1>5, <3>1, <3>2
    <2>2. CASE k \notin 1 .. n - 1 /\ l \in 1 .. n - 1
      <3>1. k - (n - 1) \in 1 .. Len(P) /\ more[k] = P[k - (n - 1)] /\ more[l] = st[l]
        BY <1>6, <1>7, <2>2
      <3>2. r.lo <= more[k].lo /\ more[k].hi <= r.hi
        BY <1>3, <3>1
      <3>3. st[l].hi < r.lo \/ r.hi < st[l].lo
        <4>1. l \in 1 .. n /\ n \in 1 .. n /\ l < n
          BY <1>1, <2>2
        <4>2. QED
          BY <1>5, <4>1 DEF r
      <3>4. more[k] \in Ranges /\ st[l] \in Ranges /\ r \in Ranges
        <4>1. l \in 1 .. n
          BY <1>1, <2>2
        <4>2. QED
          BY <1>1, <1>8, <4>1
      <3>5. /\ more[k].lo \in Nat /\ more[k].hi \in Nat /\ r.lo \in Nat /\ r.hi \in Nat
            /\ st[l].lo \in Nat /\ st[l].hi \in Nat
        BY <3>4 DEF Ranges
      <3>6. CASE st[l].hi < r.lo
        <4>1. st[l].hi < more[k].lo
          BY <3>2, <3>5, <3>6
        <4>2. QED
          BY <3>1, <4>1
      <3>7. CASE r.hi < st[l].lo
        <4>1. more[k].hi < st[l].lo
          BY <3>2, <3>5, <3>7
        <4>2. QED
          BY <3>1, <4>1
      <3>8. QED
        BY <3>3, <3>6, <3>7
    <2>3. CASE k \notin 1 .. n - 1 /\ l \notin 1 .. n - 1
      <3>1. l = n /\ k = n + 1
        BY <1>1, <1>6, <2>3
      <3>2. Len(P) = 2 /\ more[l] = P[1] /\ more[k] = P[2]
        <4>1. k - (n - 1) = 2 /\ l - (n - 1) = 1
          BY <1>1, <3>1
        <4>2. QED
          BY <1>3, <1>6, <2>3, <4>1
      <3>3. QED
        BY <1>3, <3>2
    <2>4. QED
      BY <2>1, <2>2, <2>3
  <1>11. /\ Len(more) < Depth
         /\ \A k \in 1 .. Len(more) : more[k].hi - more[k].lo < Halved[k - 1]
    <2>1. /\ Depth \in Nat /\ Places \in Nat /\ n - 1 \in 0 .. Depth
          /\ \A k \in 0 .. Depth : Halved[k] \in Nat
      BY <1>1, <1>5, HalvedIs, ItemsAssumption
    <2>2. r.hi - r.lo \in Nat /\ r.hi - r.lo >= 1 /\ r.hi - r.lo < Halved[n - 1]
      <3>1. RangeOK(r) /\ r.hi - r.lo < Halved[n - 1]
        BY <1>1, <1>5 DEF r
      <3>2. QED
        BY <1>1, <3>1 DEF RangeOK, Ranges
    <2>3. n < Depth
      BY <1>1, <2>1, <2>2, RoomForIt
    <2>4. Halved[n] = Halved[n - 1] \div 2 /\ Halved[n] \in Nat /\ Halved[n - 1] \in Nat
      BY <1>1, <2>1, <2>3, HalvedIs
    <2>5. ASSUME Len(P) = 2
          PROVE  P[2].hi - P[2].lo < Halved[n] /\ n + 1 < Depth
      <3>1. /\ P[2] \in Ranges /\ RangeOK(P[2]) /\ 2 * (P[2].hi - P[2].lo) < r.hi - r.lo
        BY <1>3, <1>8, <2>5
      <3> DEFINE d == P[2].hi - P[2].lo
                 h == Halved[n - 1]
                 g == Halved[n]
                 e == r.hi - r.lo
      <3>2. d \in Nat /\ d >= 1
        BY <3>1 DEF Ranges, RangeOK
      <3>3. 2 * d < e /\ e < h /\ g = h \div 2 /\ g \in Nat /\ h \in Nat /\ e \in Nat
        BY <2>2, <2>4, <3>1
      <3> HIDE DEF d, h, g, e
      <3>4. d < g
        BY <3>2, <3>3
      <3>5. n \in 0 .. Depth
        BY <1>1, <1>5, <2>1
      <3>6. n + 1 < Depth
        BY <3>2, <3>4, <3>5, RoomForIt DEF g
      <3>7. QED
        BY <3>4, <3>6 DEF d, g
    <2>6. Len(more) < Depth
      <3> DEFINE m == Len(P)
                 w == Len(more)
      <3>1. n \in Nat \ {0} /\ m \in 0 .. 2 /\ w = n - 1 + m /\ Depth \in Nat /\ n < Depth
        BY <1>1, <1>3, <1>4, <2>1, <2>3
      <3>2. m = 2 => n + 1 < Depth
        BY <2>5
      <3> HIDE DEF m, w
      <3>3. w < Depth
        BY <3>1, <3>2
      <3>4. QED
        BY <3>3 DEF w
    <2>7. ASSUME NEW k \in 1 .. Len(more)
          PROVE  more[k].hi - more[k].lo < Halved[k - 1]
      <3>1. CASE k \in 1 .. n - 1
        BY <1>1, <1>5, <1>7, <3>1
      <3>2. CASE k = n
        <4>1. k - (n - 1) = 1 /\ k \notin 1 .. n - 1
          BY <1>1, <3>2
        <4>2. 1 \in 1 .. Len(P) /\ more[k] = P[1]
          BY <1>6, <4>1
        <4>3. P[1] \in Ranges /\ r.lo <= P[1].lo /\ P[1].hi <= r.hi
          BY <1>3, <1>8, <4>2
        <4>4. P[1].hi - P[1].lo <= r.hi - r.lo /\ P[1].hi - P[1].lo \in Int
          BY <1>1, <4>3 DEF Ranges
        <4>5. QED
          BY <2>1, <2>2, <3>2, <4>2, <4>4
      <3>3. CASE k \notin 1 .. n - 1 /\ k # n
        <4>1. k = n + 1 /\ k - (n - 1) \in 1 .. Len(P) /\ more[k] = P[k - (n - 1)]
          BY <1>1, <1>6, <3>3
        <4>2. k - (n - 1) = 2 /\ k - 1 = n
          BY <1>1, <4>1
        <4>3. Len(P) = 2
          BY <1>3, <4>1, <4>2
        <4>4. QED
          BY <2>5, <4>1, <4>2, <4>3
      <3>4. QED
        BY <3>1, <3>2, <3>3
    <2>8. QED
      BY <2>6, <2>7
  <1>12. RangesOK(more)
    <2>1. Len(more) \in Nat /\ Depth \in Nat
      BY <1>4, HalvedIs
    <2>2. QED
      BY <1>4, <1>9, <1>10, <1>11, <2>1 DEF RangesOK, Short
  <1>13. \A k \in 1 .. Len(more) :
           k \in 1 .. n - 1 \/ (more[k].i = more[k].lo + 1 /\ more[k].j = more[k].hi)
    BY <1>3, <1>6
  <1>14. /\ r.lo < r.j - 1 => \E k \in 1 .. Len(more) : more[k].lo = r.lo /\ more[k].hi = r.j - 1
         /\ r.i < r.hi => \E k \in 1 .. Len(more) : more[k].lo = r.i /\ more[k].hi = r.hi
    BY <1>3, <1>7 DEF Span
  <1>15. QED
    BY <1>7, <1>11, <1>12, <1>13, <1>14 DEF n, r, b, P, more

----------------------------------------------------------------------------
(***************************************************************************)
(* A turn of the sort: what is outside the range at hand is not touched.   *)
(***************************************************************************)

\* Before, behind and beside the numbers from lo to hi.
LEMMA BeforeIt ==
  ASSUME NEW lo \in Nat, NEW hi \in Nat, NEW p \in Nat, NEW q \in Nat, NEW x \in Nat,
         p < q, ~(lo <= p /\ p <= hi), lo <= q, q <= hi, lo <= x
  PROVE  p < x /\ p < lo
  OBVIOUS
LEMMA BehindIt ==
  ASSUME NEW lo \in Nat, NEW hi \in Nat, NEW p \in Nat, NEW q \in Nat, NEW x \in Nat,
         p < q, ~(lo <= q /\ q <= hi), lo <= p, p <= hi, x <= hi
  PROVE  x < q /\ hi < q
  OBVIOUS
LEMMA BesideIt ==
  ASSUME NEW lo \in Nat, NEW hi \in Nat, NEW l \in Nat, NEW h \in Nat,
         lo < hi, h < lo \/ hi < l, NEW p \in Nat, NEW q \in Nat, l <= p, q <= h
  PROVE  /\ ~(p < lo /\ lo <= q)
         /\ ~(p <= hi /\ hi < q)
  OBVIOUS

\* What places hold moves inside lo .. hi only; two of these places in the wrong
\* order are in a range still to be sorted.
Permuted(K, K2, lo, hi) ==
    \A p \in Place : /\ ~(lo <= p /\ p <= hi) => K2[p] = K[p]
                     /\ lo <= p /\ p <= hi =>
                           \E x \in Place : lo <= x /\ x <= hi /\ K2[p] = K[x]
ApartInside(K, st, lo, hi) ==
    \A p, q \in Place : lo <= p /\ p < q /\ q <= hi =>
        K[p] <= K[q] \/ \E k \in 1 .. Len(st) : st[k].lo <= p /\ q <= st[k].hi

SameBelow(st, new) ==
    \A k \in 1 .. Len(st) - 1 :
        k \in 1 .. Len(new) /\ new[k].lo = st[k].lo /\ new[k].hi = st[k].hi

\* A permutation inside the range at hand leaves what is outside apart.
LEMMA RangeChange ==
  ASSUME NEW K \in [Place -> Int], NEW K2 \in [Place -> Int],
         NEW st, RangesOK(st), st # << >>, Apart(K, st),
         NEW lo \in Nat, NEW hi \in Nat, lo = st[Len(st)].lo, hi = st[Len(st)].hi,
         NEW new, SameBelow(st, new),
         Permuted(K, K2, lo, hi), ApartInside(K2, new, lo, hi)
  PROVE  Apart(K2, new)
  <1> DEFINE n == Len(st)
             Lo(k) == st[k].lo
             Hi(k) == st[k].hi
  <1>1. /\ n \in Nat \ {0} /\ n \in 1 .. n /\ st[n] \in Ranges /\ Places \in Nat
        /\ \A k \in 1 .. n : st[k] \in Ranges
        /\ \A k \in 1 .. n - 1 : k \in 1 .. n /\ k < n
        /\ \A k \in 1 .. n : k \in 1 .. n - 1 \/ k = n
    BY TopIs, ItemsAssumption DEF RangesOK
  <1>2. \A k \in 1 .. n - 1 : Hi(k) < lo \/ hi < Lo(k)
    <2> TAKE k \in 1 .. n - 1
    <2>1. k \in 1 .. n /\ n \in 1 .. n /\ k < n
      BY <1>1
    <2>2. QED
      BY <2>1 DEF RangesOK, Disjoint
  <1>3. /\ lo < hi /\ \A k \in 1 .. n - 1 : Lo(k) \in Nat /\ Hi(k) \in Nat
    <2>1. RangeOK(st[n])
      BY <1>1 DEF RangesOK
    <2>2. QED
      BY <1>1, <2>1 DEF Ranges, RangeOK
  <1>4. \A p \in Place : p \in Nat
    BY <1>1 DEF Place
  <1>5. ASSUME NEW p \in Place, NEW q \in Place, p < q
        PROVE  \/ K[p] <= K[q]
               \/ lo <= p /\ q <= hi
               \/ \E k \in 1 .. n - 1 : Lo(k) <= p /\ q <= Hi(k)
    BY <1>1, <1>5 DEF Apart
  <1>6. \A k \in 1 .. n - 1 : k \in 1 .. Len(new) /\ new[k].lo = Lo(k) /\ new[k].hi = Hi(k)
    BY DEF SameBelow
  <1> SUFFICES ASSUME NEW p \in Place, NEW q \in Place, p < q
               PROVE  \/ K2[p] <= K2[q]
                      \/ \E k \in 1 .. Len(new) : new[k].lo <= p /\ q <= new[k].hi
    BY DEF Apart
  <1> HIDE DEF Lo, Hi
  <1>7. CASE (lo <= p /\ p <= hi) /\ (lo <= q /\ q <= hi)
    BY <1>7 DEF ApartInside
  <1>8. CASE ~(lo <= p /\ p <= hi) /\ (lo <= q /\ q <= hi)
    <2>1. PICK x \in Place : lo <= x /\ x <= hi /\ K2[q] = K[x]
      BY <1>8 DEF Permuted
    <2>2. p \in Nat /\ q \in Nat /\ x \in Nat
      BY <1>4
    <2>3. p < x /\ p < lo
      BY <1>8, <2>1, <2>2, BeforeIt
    <2>4. ASSUME NEW k \in 1 .. n - 1, Lo(k) <= p, x <= Hi(k)
          PROVE  FALSE
      BY <1>2, <1>3, <2>1, <2>2, <2>3, <2>4, BesideIt
    <2>5. ~(lo <= p)
      BY <2>2, <2>3
    <2>6. K[p] <= K[x]
      BY <1>5, <2>3, <2>4, <2>5
    <2>7. QED
      BY <1>8, <2>1, <2>6 DEF Permuted
  <1>9. CASE (lo <= p /\ p <= hi) /\ ~(lo <= q /\ q <= hi)
    <2>1. PICK x \in Place : lo <= x /\ x <= hi /\ K2[p] = K[x]
      BY <1>9 DEF Permuted
    <2>2. p \in Nat /\ q \in Nat /\ x \in Nat
      BY <1>4
    <2>3. x < q /\ hi < q
      BY <1>9, <2>1, <2>2, BehindIt
    <2>4. ASSUME NEW k \in 1 .. n - 1, Lo(k) <= x, q <= Hi(k)
          PROVE  FALSE
      BY <1>2, <1>3, <2>1, <2>2, <2>3, <2>4, BesideIt
    <2>5. ~(q <= hi)
      BY <2>2, <2>3
    <2>6. K[x] <= K[q]
      BY <1>5, <2>3, <2>4, <2>5
    <2>7. QED
      BY <1>9, <2>1, <2>6 DEF Permuted
  <1>10. CASE ~(lo <= p /\ p <= hi) /\ ~(lo <= q /\ q <= hi)
    <2>1. K2[p] = K[p] /\ K2[q] = K[q]
      BY <1>10 DEF Permuted
    <2>2. CASE K[p] <= K[q]
      BY <2>1, <2>2
    <2>3. CASE \E k \in 1 .. n - 1 : Lo(k) <= p /\ q <= Hi(k)
      BY <1>6, <2>3
    <2>4. CASE lo <= p /\ q <= hi
      <3>1. p \in Nat /\ q \in Nat
        BY <1>4
      <3>2. QED
        BY <1>10, <2>4, <3>1
    <2>5. QED
      BY <1>5, <2>2, <2>3, <2>4
  <1>11. QED
    BY <1>7, <1>8, <1>9, <1>10

\* The ranges below the one at hand are where nothing moves.
LEMMA PivotedElsewhere ==
  ASSUME NEW K, NEW K2, NEW st, RangesOK(st), st # << >>,
         NEW n, n = Len(st), NEW r, r = st[n],
         \A p \in Place : ~(r.lo <= p /\ p <= r.hi) => K2[p] = K[p],
         NEW k \in 1 .. n - 1, Pivoted(K, st[k])
  PROVE  Pivoted(K2, st[k])
  <1>1. /\ n \in Nat \ {0} /\ n \in 1 .. n /\ r \in Ranges /\ Places \in Nat
        /\ k \in 1 .. n /\ st[k] \in Ranges /\ k < n
    BY TopIs, ItemsAssumption DEF RangesOK
  <1>2. st[k].hi < r.lo \/ r.hi < st[k].lo
    BY <1>1 DEF RangesOK, Disjoint
  <1>3. RangeOK(st[k])
    BY <1>1 DEF RangesOK
  <1> DEFINE s == st[k]
  <1>4. /\ s.lo \in Nat /\ s.hi \in Nat /\ s.i \in Nat /\ s.j \in Nat
        /\ r.lo \in Nat /\ r.hi \in Nat /\ \A p \in Place : p \in Nat
        /\ s.lo < s.hi /\ s.hi < Places /\ s.lo < s.i /\ s.i <= s.j + 1 /\ s.j <= s.hi
        /\ s.lo \in Place
    BY <1>1, <1>3 DEF Ranges, RangeOK, Place
  <1>5. s.hi < r.lo \/ r.hi < s.lo
    BY <1>2
  <1>6. Pivoted(K, s)
    OBVIOUS
  <1> HIDE DEF s
  <1>7. \A p \in Place : s.lo <= p /\ p <= s.hi => K2[p] = K[p]
    BY <1>4, <1>5
  <1>8. K2[s.lo] = K[s.lo]
    BY <1>4, <1>7
  <1>9. Pivoted(K2, s)
    <2> SUFFICES ASSUME NEW p \in Place
                 PROVE  /\ s.lo < p /\ p < s.i => K2[p] <= K2[s.lo]
                        /\ s.j < p /\ p <= s.hi => K2[s.lo] <= K2[p]
      BY DEF Pivoted
    <2>1. /\ s.lo < p /\ p < s.i => K[p] <= K[s.lo] /\ s.lo <= p /\ p <= s.hi
          /\ s.j < p /\ p <= s.hi => K[s.lo] <= K[p] /\ s.lo <= p
      <3>1. p \in Nat /\ s.lo \in Nat /\ s.hi \in Nat /\ s.i \in Nat /\ s.j \in Nat
        BY <1>4
      <3>2. s.lo < s.i /\ s.i <= s.j + 1 /\ s.j <= s.hi
        BY <1>4
      <3>3. /\ s.lo < p /\ p < s.i => K[p] <= K[s.lo]
            /\ s.j < p /\ p <= s.hi => K[s.lo] <= K[p]
        BY <1>6 DEF Pivoted
      <3>4. QED
        BY <3>1, <3>2, <3>3
    <2>2. QED
      BY <1>7, <1>8, <2>1
  <1>10. QED
    BY <1>9 DEF s

LEMMA KeySwapped ==
  ASSUME InvOK(items), NEW a \in Place, NEW b \in Place, a # b,
         items' = Swapped(items, a, b), order' = order
  PROVE  /\ InvOK(items') /\ Counts(items') = Counts(items)
         /\ Key' \in [Place -> Int] /\ Key'[a] = Key[b] /\ Key'[b] = Key[a]
         /\ \A p \in Place : p # a /\ p # b => Key'[p] = Key[p]
  <1>1. InvOK(items') /\ Counts(items') = Counts(items)
    BY SwapCounts
  <1>2. /\ items'[a] = items[b] /\ items'[b] = items[a]
        /\ \A p \in Place : p # a /\ p # b => items'[p] = items[p]
    BY DEF Swapped, InvOK, Inventory
  <1>3. \A p \in Place : items'[p] \in {None} \cup Stacks
    BY <1>1 DEF InvOK, Inventory
  <1>4. \A p \in Place : Rank(order', items'[p]) \in Int
    BY <1>3, RankType
  <1>5. QED
    BY <1>1, <1>2, <1>4 DEF Key

LEMMA TopReplaced ==
  ASSUME NEW st, RangesOK(st), st # << >>, NEW n, n = Len(st),
         NEW r2 \in Ranges, RangeOK(r2), r2.lo = st[n].lo, r2.hi = st[n].hi
  PROVE  LET new == Append(SubSeq(st, 1, Len(st) - 1), r2)
         IN  /\ RangesOK(new) /\ Len(new) = n /\ new[n] = r2
             /\ \A k \in 1 .. n - 1 : new[k] = st[k]
  <1> DEFINE b == SubSeq(st, 1, Len(st) - 1)
             new == Append(b, r2)
  <1>1. /\ n \in Nat \ {0} /\ b \in Seq(Ranges) /\ Len(b) = n - 1
        /\ \A k \in 1 .. n - 1 : b[k] = st[k]
    BY TopIs DEF RangesOK
  <1> HIDE DEF b
  <1>2. /\ new \in Seq(Ranges) /\ Len(new) = n - 1 + 1
        /\ \A k \in 1 .. n - 1 : new[k] = b[k]
        /\ new[n - 1 + 1] = r2
    BY <1>1, AppendProperties
  <1> HIDE DEF new
  <1>3. Len(new) = n /\ new[n] = r2 /\ \A k \in 1 .. n - 1 : new[k] = st[k]
    BY <1>1, <1>2
  <1>4. \A k \in 1 .. n : k \in 1 .. n - 1 \/ k = n
    BY <1>1
  <1>5. \A k \in 1 .. n : new[k].lo = st[k].lo /\ new[k].hi = st[k].hi /\ RangeOK(new[k])
    BY <1>3, <1>4 DEF RangesOK
  <1>6. Disjoint(new) /\ Short(new)
    BY <1>3, <1>5 DEF RangesOK, Disjoint, Short
  <1>7. RangesOK(new)
    BY <1>2, <1>3, <1>5, <1>6 DEF RangesOK
  <1>8. QED
    BY <1>3, <1>7 DEF new, b

SortInv == /\ RangesOK(stack)
           /\ \A k \in 1 .. Len(stack) : Pivoted(Key, stack[k])
           /\ order # None => Apart(Key, stack)
           /\ order = None => stack = << >>

\* The range at hand, and its numbers.
LEMMA AtHand ==
  ASSUME InvOK(items), SortInv, stack # << >>, NEW n, n = Len(stack)
  PROVE  /\ n \in Nat \ {0} /\ n \in 1 .. n /\ Top = stack[n] /\ stack[n] \in Ranges
         /\ RangeOK(Top) /\ Pivoted(Key, Top) /\ order # None /\ Apart(Key, stack)
         /\ Top.lo \in Nat /\ Top.hi \in Nat /\ Top.i \in Nat /\ Top.j \in Nat
         /\ Top.lo < Top.hi /\ Top.hi < Places /\ Top.lo < Top.i /\ Top.i <= Top.j + 1
         /\ Top.j <= Top.hi /\ Top.lo \in Place /\ Top.hi \in Place /\ Places \in Nat
         /\ \A p \in Place : p \in Nat
         /\ \A p \in Nat : p <= Top.hi => p \in Place
  <1>1. /\ n \in Nat \ {0} /\ n \in 1 .. n /\ Top = stack[n] /\ stack[n] \in Ranges
    BY TopIs DEF SortInv, RangesOK, Top
  <1>2. /\ RangeOK(Top) /\ Pivoted(Key, Top) /\ order # None /\ Apart(Key, stack)
    BY <1>1 DEF SortInv, RangesOK
  <1>3. Places \in Nat /\ \A p \in Place : p \in Nat
    BY ItemsAssumption DEF Place
  <1>4. /\ Top.lo \in Nat /\ Top.hi \in Nat /\ Top.i \in Nat /\ Top.j \in Nat
        /\ Top.lo < Top.hi /\ Top.hi < Places /\ Top.lo < Top.i /\ Top.i <= Top.j + 1
        /\ Top.j <= Top.hi
    BY <1>1, <1>2 DEF Ranges, RangeOK
  <1>5. \A p \in Nat : p <= Top.hi => p \in Place
    BY <1>3, <1>4 DEF Place
  <1>6. Top.lo \in Place /\ Top.hi \in Place
    BY <1>4, <1>5
  <1>7. QED
    BY <1>1, <1>2, <1>3, <1>4, <1>5, <1>6

\* Where i and j stop, and what they have gone past.
LEMMA UpAndDown ==
  ASSUME InvOK(items), SortInv, stack # << >>, Top.i < Top.j,
         NEW up, up = NextUp(items, order, Top.lo, Top.i, Top.j),
         NEW down, down = NextDown(items, order, Top.lo, up, Top.j)
  PROVE  /\ up \in Nat /\ down \in Nat /\ Top.i <= up /\ up <= Top.j
         /\ up - 1 <= down /\ down <= Top.j /\ up \in Place /\ down \in Place
         /\ \A p \in Place : Top.lo < p /\ p < up => Key[p] <= Key[Top.lo]
         /\ \A p \in Place : down < p /\ p <= Top.hi => Key[Top.lo] <= Key[p]
         /\ up < down => Key[up] > Key[Top.lo] /\ Key[down] < Key[Top.lo]
  <1> DEFINE lo == Top.lo
             hi == Top.hi
             i == Top.i
             j == Top.j
  <1>1. /\ lo \in Nat /\ hi \in Nat /\ i \in Nat /\ j \in Nat /\ lo < hi /\ lo < i /\ j <= hi
        /\ lo \in Place /\ \A p \in Place : p \in Nat
        /\ \A p \in Nat : p <= hi => p \in Place
        /\ Pivoted(Key, Top) /\ i < j
    BY AtHand
  <1>2. /\ Key \in [Place -> Int]
        /\ \A p, q \in Place : After(items, order, p, q) <=> Key[p] > Key[q]
    BY KeyType
  <1>3. /\ \A p \in Place : lo < p /\ p < i => Key[p] <= Key[lo]
        /\ \A p \in Place : j < p /\ p <= hi => Key[lo] <= Key[p]
    BY <1>1 DEF Pivoted
  <1>4. up = NextUp(items, order, lo, i, j) /\ down = NextDown(items, order, lo, up, j)
    OBVIOUS
  <1> HIDE DEF lo, hi, i, j
  <1>5. /\ up \in i .. j
        /\ \A p \in i .. up - 1 : ~After(items, order, p, lo)
        /\ up = j \/ After(items, order, up, lo)
    <2>1. i <= j
      BY <1>1
    <2>2. QED
      BY <1>1, <1>4, <2>1, NextUpIs
  <1>6. /\ down \in up - 1 .. j
        /\ \A p \in down + 1 .. j : ~After(items, order, lo, p)
        /\ down = up - 1 \/ After(items, order, lo, down)
    <2>1. up \in Nat /\ 1 <= up /\ up <= j + 1
      BY <1>1, <1>5
    <2>2. QED
      BY <1>1, <1>4, <2>1, NextDownIs
  <1>7. /\ up \in Nat /\ down \in Nat /\ i <= up /\ up <= j
        /\ up - 1 <= down /\ down <= j /\ up \in Place /\ down \in Place
    BY <1>1, <1>5, <1>6
  <1>8. ASSUME NEW p \in Place, lo < p, p < up
        PROVE  Key[p] <= Key[lo]
    <2>1. CASE p < i
      BY <1>3, <1>8, <2>1
    <2>2. CASE ~(p < i)
      <3>1. p \in i .. up - 1
        BY <1>1, <1>7, <1>8, <2>2
      <3>2. ~(Key[p] > Key[lo])
        BY <1>1, <1>2, <1>5, <3>1
      <3>3. Key[p] \in Int /\ Key[lo] \in Int
        BY <1>1, <1>2
      <3>4. QED
        BY <3>2, <3>3
    <2>3. QED
      BY <2>1, <2>2
  <1>9. ASSUME NEW p \in Place, down < p, p <= hi
        PROVE  Key[lo] <= Key[p]
    <2>1. CASE j < p
      BY <1>3, <1>9, <2>1
    <2>2. CASE ~(j < p)
      <3>1. p \in down + 1 .. j
        BY <1>1, <1>7, <1>9, <2>2
      <3>2. ~(Key[lo] > Key[p])
        BY <1>1, <1>2, <1>6, <3>1
      <3>3. Key[p] \in Int /\ Key[lo] \in Int
        BY <1>1, <1>2
      <3>4. QED
        BY <3>2, <3>3
    <2>3. QED
      BY <2>1, <2>2
  <1>10. ASSUME up < down
         PROVE  Key[up] > Key[lo] /\ Key[down] < Key[lo]
    <2>1. up # j /\ down # up - 1
      BY <1>1, <1>7, <1>10
    <2>2. Key[up] > Key[lo] /\ Key[lo] > Key[down]
      BY <1>1, <1>2, <1>5, <1>6, <1>7, <2>1
    <2>3. Key[lo] \in Int /\ Key[down] \in Int
      BY <1>1, <1>2, <1>7
    <2>4. QED
      BY <2>2, <2>3
  <1>11. QED
    BY <1>7, <1>8, <1>9, <1>10 DEF lo, hi, i, j

\* The other ranges after a turn of the range at hand.
LEMMA BelowPivoted ==
  ASSUME SortInv, stack # << >>, NEW n, n = Len(stack), NEW K2,
         Permuted(Key, K2, stack[n].lo, stack[n].hi), NEW k \in 1 .. n - 1
  PROVE  Pivoted(K2, stack[k])
  <1>1. n \in Nat \ {0} /\ k \in 1 .. n
    BY TopIs DEF SortInv, RangesOK
  <1>2. Pivoted(Key, stack[k]) /\ RangesOK(stack)
    BY <1>1 DEF SortInv
  <1>3. \A p \in Place : ~(stack[n].lo <= p /\ p <= stack[n].hi) => K2[p] = Key[p]
    BY DEF Permuted
  <1> HIDE DEF Key
  <1>4. QED
    BY <1>2, <1>3, PivotedElsewhere

LEMMA AfterTurn ==
  ASSUME InvOK(items), SortInv, stack # << >>, NEW r2 \in Ranges, RangeOK(r2),
         r2.lo = Top.lo, r2.hi = Top.hi, stack' = Append(Below, r2),
         Key' \in [Place -> Int], Permuted(Key, Key', Top.lo, Top.hi), Pivoted(Key', r2),
         order' = order
  PROVE  SortInv'
  <1> DEFINE n == Len(stack)
             K2 == Key'
             new == stack'
  <1>1. /\ n \in Nat \ {0} /\ n \in 1 .. n /\ Top = stack[n]
        /\ order # None /\ Apart(Key, stack) /\ Top.lo \in Nat /\ Top.hi \in Nat
        /\ \A k \in 1 .. n : k \in 1 .. n - 1 \/ k = n
    BY AtHand
  <1>2. RangesOK(stack) /\ Key \in [Place -> Int]
    BY KeyType DEF SortInv
  <1>3. /\ RangesOK(new) /\ Len(new) = n /\ new[n] = r2
        /\ \A k \in 1 .. n - 1 : new[k] = stack[k]
    <2>1. n = Len(stack) /\ r2.lo = stack[n].lo /\ r2.hi = stack[n].hi
      BY <1>1
    <2>2. new = Append(SubSeq(stack, 1, Len(stack) - 1), r2)
      BY DEF Below
    <2> HIDE DEF n, new
    <2>3. QED
      BY <1>2, <2>1, <2>2, TopReplaced
  <1>4. Permuted(Key, K2, stack[n].lo, stack[n].hi) /\ Pivoted(K2, r2)
    BY <1>1
  <1> HIDE DEF K2
  <1>5. \A k \in 1 .. n : Pivoted(K2, new[k])
    <2> TAKE k \in 1 .. n
    <2>1. CASE k = n
      BY <1>3, <1>4, <2>1
    <2>2. CASE k \in 1 .. n - 1
      BY <1>3, <1>4, <2>2, BelowPivoted
    <2>3. QED
      BY <1>1, <2>1, <2>2
  <1>6. ApartInside(K2, new, Top.lo, Top.hi)
    BY <1>1, <1>3 DEF ApartInside
  <1>7. SameBelow(stack, new) /\ K2 \in [Place -> Int]
    BY <1>1, <1>3 DEF K2, SameBelow
  <1>8. Apart(K2, new)
    <2> DEFINE lo == Top.lo
               hi == Top.hi
    <2>1. /\ lo = stack[Len(stack)].lo /\ hi = stack[Len(stack)].hi /\ lo \in Nat /\ hi \in Nat
          /\ Permuted(Key, K2, lo, hi) /\ ApartInside(K2, new, lo, hi) /\ Apart(Key, stack)
      BY <1>1, <1>4, <1>6
    <2> HIDE DEF n, new, Key, lo, hi
    <2>2. QED
      BY <1>2, <1>7, <2>1, RangeChange
  <1>9. QED
    BY <1>1, <1>3, <1>5, <1>8 DEF SortInv, K2

Narrowed(r, i, j) == [r EXCEPT !.i = i, !.j = j]

LEMMA NarrowedIs ==
  ASSUME NEW r \in Ranges, NEW i \in Nat, NEW j \in Nat
  PROVE  /\ Narrowed(r, i, j) \in Ranges
         /\ Narrowed(r, i, j).lo = r.lo /\ Narrowed(r, i, j).hi = r.hi
         /\ Narrowed(r, i, j).i = i /\ Narrowed(r, i, j).j = j
  BY DEF Ranges, Narrowed

\* A turn that exchanges two entries, or finds that i and j have met, keeps the
\* shape of the sort and the items.
LEMMA ExchangeKeeps ==
  ASSUME InvOK(items), SortInv, SortExchange
  PROVE  InvOK(items') /\ Counts(items') = Counts(items) /\ SortInv'
  <1> DEFINE lo == Top.lo
             hi == Top.hi
             up == NextUp(items, order, Top.lo, Top.i, Top.j)
             down == NextDown(items, order, Top.lo, up, Top.j)
             K2 == Key'
  <1>0. stack # << >> /\ Top.i < Top.j
    BY DEF SortExchange, Idle
  <1>1. /\ Top \in Ranges /\ RangeOK(Top) /\ Pivoted(Key, Top) /\ order # None
        /\ lo \in Nat /\ hi \in Nat /\ Top.i \in Nat /\ Top.j \in Nat
        /\ lo < hi /\ hi < Places /\ lo < Top.i /\ Top.i <= Top.j + 1
        /\ Top.j <= hi /\ lo \in Place /\ hi \in Place /\ Places \in Nat
        /\ \A p \in Place : p \in Nat
    BY <1>0, AtHand
  <1>2. /\ up \in Nat /\ down \in Nat /\ Top.i <= up /\ up <= Top.j
        /\ up - 1 <= down /\ down <= Top.j /\ up \in Place /\ down \in Place
        /\ \A p \in Place : lo < p /\ p < up => Key[p] <= Key[lo]
        /\ \A p \in Place : down < p /\ p <= hi => Key[lo] <= Key[p]
        /\ up < down => Key[up] > Key[lo] /\ Key[down] < Key[lo]
    <2> HIDE DEF Key
    <2>1. QED
      BY <1>0, UpAndDown
  <1>3. Key \in [Place -> Int]
    BY KeyType
  <1>4. /\ order' = order
        /\ IF up < down
           THEN /\ items' = Swapped(items, up, down)
                /\ stack' = Append(Below, [Top EXCEPT !.i = up + 1, !.j = down - 1])
           ELSE /\ stack' = Append(Below, [Top EXCEPT !.i = up, !.j = down])
                /\ items' = items
    BY DEF SortExchange
  <1> HIDE DEF up, down, lo, hi
  <1>5. CASE up < down
    <2> DEFINE i2 == up + 1
               j2 == down - 1
               r2 == Narrowed(Top, i2, j2)
    <2>1. /\ InvOK(items') /\ Counts(items') = Counts(items)
          /\ K2 \in [Place -> Int] /\ K2[up] = Key[down] /\ K2[down] = Key[up]
          /\ \A p \in Place : p # up /\ p # down => K2[p] = Key[p]
      BY <1>2, <1>4, <1>5, KeySwapped
    <2>2. /\ r2 \in Ranges /\ r2.lo = lo /\ r2.hi = hi /\ r2.i = up + 1 /\ r2.j = down - 1
      <3>1. i2 \in Nat /\ j2 \in Nat
        BY <1>2, <1>5
      <3> HIDE DEF i2, j2
      <3>2. r2 \in Ranges /\ r2.lo = lo /\ r2.hi = hi /\ r2.i = i2 /\ r2.j = j2
        <4>1. Top \in Ranges
          BY <1>1
        <4>2. QED
          BY <3>1, <4>1, NarrowedIs DEF lo, hi
      <3>3. QED
        BY <3>2 DEF i2, j2
    <2>3. stack' = Append(Below, r2)
      BY <1>4, <1>5 DEF Narrowed
    <2> HIDE DEF r2, K2, Key
    <2>4. lo < up /\ up < down /\ down <= hi
      BY <1>1, <1>2, <1>5
    <2>5. RangeOK(r2)
      BY <1>1, <1>2, <1>5, <2>2, <2>4 DEF RangeOK
    <2>6. Permuted(Key, K2, lo, hi)
      <3> SUFFICES ASSUME NEW p \in Place
                   PROVE  /\ ~(lo <= p /\ p <= hi) => K2[p] = Key[p]
                          /\ lo <= p /\ p <= hi =>
                                \E x \in Place : lo <= x /\ x <= hi /\ K2[p] = Key[x]
        BY DEF Permuted
      <3>1. lo <= up /\ up <= hi /\ lo <= down /\ down <= hi
        BY <1>1, <1>2, <2>4
      <3>2. CASE p = up
        BY <1>2, <2>1, <3>1, <3>2
      <3>3. CASE p = down
        BY <1>2, <2>1, <3>1, <3>3
      <3>4. CASE p # up /\ p # down
        BY <2>1, <3>4
      <3>5. QED
        BY <3>2, <3>3, <3>4
    <2>7. K2[lo] = Key[lo]
      BY <1>1, <1>2, <2>1, <2>4
    <2>8. Pivoted(K2, r2)
      <3> SUFFICES ASSUME NEW p \in Place
                   PROVE  /\ lo < p /\ p < up + 1 => K2[p] <= K2[lo]
                          /\ down - 1 < p /\ p <= hi => K2[lo] <= K2[p]
        BY <2>2 DEF Pivoted
      <3>1. p \in Nat /\ Key[lo] \in Int /\ Key[p] \in Int /\ Key[up] \in Int /\ Key[down] \in Int
        BY <1>1, <1>2, <1>3
      <3>2. CASE p = up
        BY <1>2, <1>5, <2>1, <2>7, <3>1, <3>2
      <3>3. CASE p = down
        BY <1>2, <1>5, <2>1, <2>7, <3>1, <3>3
      <3>4. CASE p # up /\ p # down
        <4>1. K2[p] = Key[p]
          BY <2>1, <3>4
        <4>2. /\ p < up + 1 => p < up
              /\ down - 1 < p => down < p
          BY <1>2, <3>1, <3>4
        <4>3. QED
          BY <1>2, <2>7, <4>1, <4>2
      <3>5. QED
        BY <3>2, <3>3, <3>4
    <2>9. SortInv'
      BY <1>0, <1>4, <2>1, <2>2, <2>3, <2>5, <2>6, <2>8, AfterTurn DEF lo, hi, K2
    <2>10. QED
      BY <2>1, <2>9
  <1>6. CASE ~(up < down)
    <2> DEFINE r2 == Narrowed(Top, up, down)
    <2>1. items' = items /\ Counts(items') = Counts(items) /\ K2 = Key
      BY <1>4, <1>6 DEF Key
    <2>2. /\ r2 \in Ranges /\ r2.lo = lo /\ r2.hi = hi /\ r2.i = up /\ r2.j = down
      BY <1>1, <1>2, NarrowedIs DEF lo, hi
    <2>3. stack' = Append(Below, r2)
      BY <1>4, <1>6 DEF Narrowed
    <2> HIDE DEF r2, K2, Key
    <2>4. RangeOK(r2)
      BY <1>1, <1>2, <1>6, <2>2 DEF RangeOK
    <2>5. Permuted(Key, K2, lo, hi) /\ Pivoted(K2, r2)
      BY <1>2, <2>1, <2>2 DEF Permuted, Pivoted
    <2>6. SortInv'
      BY <1>0, <1>3, <1>4, <2>1, <2>2, <2>3, <2>4, <2>5, AfterTurn DEF lo, hi, K2
    <2>7. QED
      BY <2>1, <2>6
  <1>7. QED
    BY <1>5, <1>6

\* A turn that splits the range puts the pivot between its parts, and there is
\* room for them: the sort is never given up.
LEMMA SplitKeeps ==
  ASSUME InvOK(items), SortInv, SortSplit
  PROVE  /\ InvOK(items') /\ Counts(items') = Counts(items) /\ SortInv'
         /\ stack' = Below \o Parts(Top) /\ Len(stack') < Depth
  <1> DEFINE n == Len(stack)
             lo == Top.lo
             hi == Top.hi
             i == Top.i
             j == Top.j
             piv == Key[lo]
             K2 == Key'
             more == Below \o Parts(Top)
             swap == After(items, order, lo, j)
  <1>0. stack # << >> /\ i >= j
    BY DEF SortSplit, Idle
  <1>1. /\ n \in Nat \ {0} /\ n \in 1 .. n /\ Top = stack[n]
        /\ Top \in Ranges /\ RangeOK(Top) /\ Pivoted(Key, Top) /\ order # None
        /\ lo \in Nat /\ hi \in Nat /\ i \in Nat /\ j \in Nat
        /\ lo < hi /\ hi < Places /\ lo < i /\ i <= j + 1
        /\ j <= hi /\ lo \in Place /\ hi \in Place /\ Places \in Nat
        /\ \A p \in Place : p \in Nat
        /\ \A p \in Nat : p <= hi => p \in Place
        /\ Apart(Key, stack)
    BY <1>0, AtHand
  <1>2. /\ Key \in [Place -> Int]
        /\ \A p, q \in Place : After(items, order, p, q) <=> Key[p] > Key[q]
    BY KeyType
  <1>3. /\ order' = order
        /\ items' = IF swap THEN Swapped(items, lo, j) ELSE items
        /\ stack' = IF Len(more) < Depth THEN more ELSE << >>
    BY DEF SortSplit
  <1>4. /\ RangesOK(more) /\ Len(more) < Depth
        /\ \A k \in 1 .. n - 1 : k \in 1 .. Len(more) /\ more[k] = stack[k]
        /\ \A k \in 1 .. Len(more) :
             k \in 1 .. n - 1 \/ (more[k].i = more[k].lo + 1 /\ more[k].j = more[k].hi)
        /\ lo < j - 1 => \E k \in 1 .. Len(more) : more[k].lo = lo /\ more[k].hi = j - 1
        /\ i < hi => \E k \in 1 .. Len(more) : more[k].lo = i /\ more[k].hi = hi
    <2>1. RangesOK(stack) /\ stack[Len(stack)].i >= stack[Len(stack)].j
      BY <1>0, <1>1 DEF SortInv
    <2>2. QED
      BY <1>0, <2>1, SplitRanges DEF Below, Top
  <1>5. /\ \A p \in Place : lo < p /\ p < i => Key[p] <= piv
        /\ \A p \in Place : j < p /\ p <= hi => piv <= Key[p]
    BY <1>1 DEF Pivoted
  <1>6. stack' = more
    BY <1>3, <1>4
  <1>7. lo <= j /\ j \in Place
    BY <1>1
  <1> HIDE DEF lo, hi, i, j, more, n
  <1>8. /\ InvOK(items') /\ Counts(items') = Counts(items) /\ K2 \in [Place -> Int]
        /\ swap => lo # j /\ K2[lo] = Key[j] /\ K2[j] = Key[lo]
        /\ swap => \A p \in Place : p # lo /\ p # j => K2[p] = Key[p]
        /\ ~swap => K2 = Key
        /\ swap <=> Key[lo] > Key[j]
    <2>1. swap <=> Key[lo] > Key[j]
      BY <1>1, <1>2, <1>7
    <2>2. CASE swap
      <3>1. items' = Swapped(items, lo, j) /\ lo # j
        <4>1. Key[lo] \in Int
          BY <1>1, <1>2
        <4>2. QED
          BY <1>3, <2>1, <2>2, <4>1
      <3>2. QED
        BY <1>1, <1>3, <1>7, <2>1, <2>2, <3>1, KeySwapped
    <2>3. CASE ~swap
      <3>1. items' = items /\ K2 = Key
        BY <1>3, <2>3 DEF Key
      <3>2. QED
        BY <1>2, <2>1, <2>3, <3>1
    <2>4. QED
      BY <2>2, <2>3
  <1> HIDE DEF swap, K2, Key
  <1>9. piv \in Int /\ Key[j] \in Int /\ Key[lo] = piv
    BY <1>1, <1>2, <1>7
  <1> HIDE DEF piv
  <1>10. ASSUME NEW p \in Place, lo <= p, p < j
         PROVE  K2[p] <= piv
    <2>1. CASE p = lo
      BY <1>8, <1>9, <1>10, <2>1
    <2>2. CASE p # lo
      <3>1. p \in Nat /\ lo < p /\ p < i /\ p # j
        BY <1>0, <1>1, <1>10, <2>2
      <3>2. K2[p] = Key[p]
        BY <1>8, <2>2, <3>1
      <3>3. QED
        BY <1>5, <3>1, <3>2
    <2>3. QED
      BY <2>1, <2>2
  <1>11. ASSUME NEW p \in Place, j < p, p <= hi
         PROVE  piv <= K2[p]
    <2>1. p \in Nat /\ p # lo /\ p # j
      BY <1>1, <1>7, <1>11
    <2>2. K2[p] = Key[p]
      BY <1>8, <2>1
    <2>3. QED
      BY <1>5, <1>11, <2>2
  <1>12. i = j => piv <= K2[j]
    BY <1>8, <1>9
  <1>13. ASSUME i = j + 1
         PROVE  K2[j] = piv
    <2>1. CASE swap
      BY <1>8, <1>9, <2>1
    <2>2. CASE ~swap
      <3>1. K2[j] = Key[j] /\ piv <= Key[j]
        BY <1>8, <1>9, <2>2
      <3>2. CASE j = lo
        BY <1>9, <3>1, <3>2
      <3>3. CASE j # lo
        <4>1. lo < j /\ j < i
          BY <1>1, <1>7, <1>13, <3>3
        <4>2. Key[j] <= piv
          BY <1>5, <1>7, <4>1
        <4>3. QED
          BY <1>9, <3>1, <4>2
      <3>4. QED
        BY <3>2, <3>3
    <2>3. QED
      BY <2>1, <2>2
  <1>14. ApartInside(K2, more, lo, hi)
    <2> SUFFICES ASSUME NEW p \in Place, NEW q \in Place, lo <= p, p < q, q <= hi
                 PROVE  \/ K2[p] <= K2[q]
                        \/ \E k \in 1 .. Len(more) : more[k].lo <= p /\ q <= more[k].hi
      BY DEF ApartInside
    <2>1. p \in Nat /\ q \in Nat /\ K2[p] \in Int /\ K2[q] \in Int
      BY <1>1, <1>8
    <2>2. CASE q < j
      <3>1. lo < j - 1 /\ q <= j - 1
        BY <1>1, <2>1, <2>2
      <3>2. QED
        BY <1>4, <3>1
    <2>3. CASE p >= i
      <3>1. i < hi /\ i <= p
        BY <1>1, <2>1, <2>3
      <3>2. QED
        BY <1>4, <3>1
    <2>4. CASE ~(q < j) /\ ~(p >= i)
      <3>1. K2[p] <= piv
        <4>1. CASE p < j
          BY <1>10, <4>1
        <4>2. CASE ~(p < j)
          <5>1. p = j /\ i = j + 1
            BY <1>1, <2>1, <2>4, <4>2
          <5>2. QED
            BY <1>9, <1>13, <5>1
        <4>3. QED
          BY <4>1, <4>2
      <3>2. piv <= K2[q]
        <4>1. CASE j < q
          BY <1>11, <4>1
        <4>2. CASE ~(j < q)
          <5>1. q = j /\ (i = j \/ i = j + 1)
            BY <1>0, <1>1, <2>1, <2>4, <4>2
          <5>2. QED
            BY <1>9, <1>12, <1>13, <5>1
        <4>3. QED
          BY <4>1, <4>2
      <3>3. QED
        BY <1>9, <2>1, <3>1, <3>2
    <2>5. QED
      BY <2>2, <2>3, <2>4
  <1>15. Permuted(Key, K2, lo, hi)
    <2> SUFFICES ASSUME NEW p \in Place
                 PROVE  /\ ~(lo <= p /\ p <= hi) => K2[p] = Key[p]
                        /\ lo <= p /\ p <= hi =>
                              \E x \in Place : lo <= x /\ x <= hi /\ K2[p] = Key[x]
      BY DEF Permuted
    <2>1. lo <= lo /\ lo <= hi /\ lo <= j /\ j <= hi
      BY <1>1, <1>7
    <2>2. CASE swap /\ p = lo
      BY <1>7, <1>8, <2>1, <2>2
    <2>3. CASE swap /\ p = j
      BY <1>1, <1>8, <2>1, <2>3
    <2>4. CASE ~swap \/ (p # lo /\ p # j)
      BY <1>8, <2>4
    <2>5. QED
      BY <2>2, <2>3, <2>4
  <1>16. Apart(K2, more)
    <2>1. RangesOK(stack) /\ lo = stack[Len(stack)].lo /\ hi = stack[Len(stack)].hi
      BY <1>1 DEF SortInv, lo, hi, n
    <2>2. SameBelow(stack, more)
      BY <1>4 DEF SameBelow, n
    <2>3. lo \in Nat /\ hi \in Nat /\ Key \in [Place -> Int] /\ K2 \in [Place -> Int]
      BY <1>1, <1>2, <1>8
    <2>4. stack # << >> /\ Apart(Key, stack)
      BY <1>0, <1>1
    <2>5. QED
      BY <1>14, <1>15, <2>1, <2>2, <2>3, <2>4, RangeChange
  <1>17. ASSUME NEW k \in 1 .. Len(more)
         PROVE  Pivoted(K2, more[k])
    <2>1. CASE k \in 1 .. n - 1
      <3>1. Permuted(Key, K2, stack[n].lo, stack[n].hi) /\ n = Len(stack)
        BY <1>1, <1>15 DEF lo, hi, n
      <3>2. Pivoted(K2, stack[k])
        BY <1>0, <2>1, <3>1, BelowPivoted
      <3>3. QED
        BY <1>4, <2>1, <3>2
    <2>2. CASE k \notin 1 .. n - 1
      <3> DEFINE s == more[k]
      <3>1. s \in Ranges /\ s.i = s.lo + 1 /\ s.j = s.hi
        BY <1>4, <2>2 DEF RangesOK
      <3> HIDE DEF s
      <3>2. s.lo \in Nat /\ s.hi \in Nat
        BY <3>1 DEF Ranges
      <3>3. ASSUME NEW p \in Place
            PROVE  ~(s.lo < p /\ p < s.i) /\ ~(s.j < p /\ p <= s.hi)
        BY <1>1, <3>1, <3>2
      <3>4. QED
        BY <3>3 DEF Pivoted, s
    <2>3. QED
      BY <2>1, <2>2
  <1>18. SortInv'
    BY <1>1, <1>3, <1>4, <1>6, <1>16, <1>17 DEF SortInv, K2
  <1>19. QED
    BY <1>4, <1>6, <1>8, <1>18 DEF more

----------------------------------------------------------------------------
(***************************************************************************)
(* The inductive invariant, step by step.                                  *)
(***************************************************************************)
GoodsOK == /\ InvOK(items)
           /\ charm \in [Chars -> Ids \cup {None}]
           /\ order \in Modes \cup {None}
IInv == GoodsOK /\ SortInv

\* A step of the inventory is a step of the bag, or leaves the bag alone.
BagStep == Bag!Next \/ Counts(items') = Counts(items)

LEMMA NoRanges == RangesOK(<< >>)
  BY HalvedIs DEF RangesOK, Disjoint, Short

LEMMA InitInv ==
  ASSUME Init
  PROVE  IInv
  <1>1. PICK plan \in Plans : items \in plan.items /\ charm = plan.charm
    BY DEF Init
  <1>2. /\ \A inv \in plan.items : inv \in Inventory /\ OnePlaceEach(inv)
        /\ plan.charm \in [Chars -> Ids \cup {None}]
    BY ItemsAssumption
  <1>3. stack = << >> /\ order = None
    BY DEF Init
  <1>4. SortInv
    BY <1>3, NoRanges DEF SortInv
  <1>5. QED
    BY <1>1, <1>2, <1>3, <1>4 DEF IInv, GoodsOK, InvOK

\* While nothing is being sorted, items may move and change in number.
LEMMA ChangedInv ==
  ASSUME IInv, Idle, NEW inv, InvOK(inv), items' = inv, order' = None, stack' = stack,
         charm' \in [Chars -> Ids \cup {None}]
  PROVE  IInv'
  <1>1. stack' = << >>
    BY DEF Idle
  <1>2. SortInv'
    BY <1>1, NoRanges DEF SortInv
  <1>3. QED
    BY <1>2 DEF IInv, GoodsOK, InvOK

LEMMA StitmInv ==
  ASSUME IInv, NEW id \in Ids, NEW n \in Amounts, Stitm(id, n)
  PROVE  IInv' /\ BagStep
  <1>1. n \in 0 .. Cap
    BY ItemsAssumption
  <1>2. /\ Idle /\ InvOK(items) /\ items' = Add(items, id, n) /\ order' = None
        /\ stack' = stack /\ charm' = charm /\ charm \in [Chars -> Ids \cup {None}]
    BY DEF Stitm, Uses, Changed, IInv, GoodsOK
  <1>3. /\ InvOK(Add(items, id, n))
        /\ Counts(items') = [Counts(items) EXCEPT ![id] = Bag!Less(@ + n, Cap)]
    BY <1>1, <1>2, AddCounts
  <1>4. IInv'
    BY <1>2, <1>3, ChangedInv
  <1>5. Bag!Put(id, n)
    BY <1>3 DEF Bag!Put, Counts
  <1>6. QED
    BY <1>1, <1>4, <1>5 DEF BagStep, Bag!Next

LEMMA DlitmInv ==
  ASSUME IInv, NEW id \in Ids, NEW n \in Amounts, Dlitm(id, n)
  PROVE  IInv' /\ BagStep
  <1>1. n \in 0 .. Cap
    BY ItemsAssumption
  <1>2. /\ Idle /\ InvOK(items) /\ items' = Take(items, id, n) /\ order' = None
        /\ stack' = stack /\ charm' = charm /\ charm \in [Chars -> Ids \cup {None}]
    BY DEF Dlitm, Uses, Changed, IInv, GoodsOK
  <1>3. /\ InvOK(Take(items, id, n))
        /\ Counts(items') = [Counts(items) EXCEPT ![id] = IF n < @ THEN @ - n ELSE 0]
    BY <1>1, <1>2, TakeCounts
  <1>4. IInv'
    BY <1>2, <1>3, ChangedInv
  <1>5. Bag!Take(id, n)
    BY <1>3 DEF Bag!Take, Counts
  <1>6. QED
    BY <1>1, <1>4, <1>5 DEF BagStep, Bag!Next

LEMMA ClitmInv ==
  ASSUME IInv, Clitm
  PROVE  IInv' /\ BagStep
  <1>1. /\ Idle /\ InvOK(items) /\ order' = None
        /\ items' = [p \in Place |-> IF items[p] # None /\ p = Min(At(items, items[p].id))
                                    THEN None ELSE items[p]]
        /\ stack' = stack /\ charm' = charm /\ charm \in [Chars -> Ids \cup {None}]
    BY DEF Clitm, Uses, Changed, IInv, GoodsOK
  <1>2. InvOK(items') /\ Counts(items') = [id \in Ids |-> 0]
    BY <1>1, ClearCounts
  <1>3. IInv'
    BY <1>1, <1>2, ChangedInv
  <1>4. Bag!Clear
    BY <1>2 DEF Bag!Clear, Counts
  <1>5. QED
    BY <1>3, <1>4 DEF BagStep, Bag!Next

LEMMA FlitmInv ==
  ASSUME IInv, Flitm
  PROVE  IInv' /\ BagStep
  <1>1. PICK new \in [Missing(items) -> FreePlaces(items)] :
          /\ \A a, b \in Missing(items) : new[a] = new[b] => a = b
          /\ Changed(Filled(items, new))
    BY DEF Flitm
  <1>2. /\ Idle /\ InvOK(items) /\ order' = None /\ items' = Filled(items, new)
        /\ stack' = stack /\ charm' = charm /\ charm \in [Chars -> Ids \cup {None}]
    BY <1>1 DEF Flitm, Uses, Changed, IInv, GoodsOK
  <1>3. InvOK(items') /\ Counts(items') = [id \in Ids |-> Cap]
    BY <1>1, <1>2, FillCounts
  <1>4. IInv'
    BY <1>2, <1>3, ChangedInv
  <1>5. Bag!Fill
    BY <1>3 DEF Bag!Fill, Counts
  <1>6. QED
    BY <1>4, <1>5 DEF BagStep, Bag!Next

LEMMA CustomizeInv ==
  ASSUME IInv, NEW i \in Place, NEW j \in Place, Customize(i, j)
  PROVE  IInv' /\ BagStep
  <1>1. /\ Idle /\ InvOK(items) /\ order' = None /\ items' = Swapped(items, i, j)
        /\ stack' = stack /\ charm' = charm /\ charm \in [Chars -> Ids \cup {None}]
    BY DEF Customize, Uses, Changed, IInv, GoodsOK
  <1>2. InvOK(items') /\ Counts(items') = Counts(items)
    BY <1>1, SwapCounts
  <1>3. IInv'
    BY <1>1, <1>2, ChangedInv
  <1>4. QED
    BY <1>2, <1>3 DEF BagStep

\* An accessory is an item of which one is given.
LEMMA UnequipInv ==
  ASSUME IInv, NEW c \in Chars, UnequipCharacterMateria(c)
  PROVE  IInv' /\ BagStep
  <1>1. /\ Idle /\ InvOK(items) /\ stack' = stack /\ charm \in [Chars -> Ids \cup {None}]
        /\ IF charm[c] = None THEN items' = items /\ order' = order /\ charm' = charm
           ELSE /\ items' = Add(items, charm[c], 1) /\ order' = None
                /\ charm' = [charm EXCEPT ![c] = None]
    BY DEF UnequipCharacterMateria, Uses, IInv, GoodsOK
  <1>2. CASE charm[c] = None
    <2>1. items' = items /\ order' = order /\ charm' = charm /\ stack' = stack
      BY <1>1, <1>2
    <2>2. QED
      BY <2>1 DEF BagStep, IInv, GoodsOK, InvOK, SortInv, Key, Counts
  <1>3. CASE charm[c] # None
    <2>1. charm[c] \in Ids /\ charm' \in [Chars -> Ids \cup {None}] /\ 1 \in 0 .. Cap
      BY <1>1, <1>3, ItemsAssumption
    <2>2. /\ InvOK(Add(items, charm[c], 1))
          /\ Counts(items') = [Counts(items) EXCEPT ![charm[c]] = Bag!Less(@ + 1, Cap)]
      BY <1>1, <1>3, <2>1, AddCounts
    <2>3. IInv'
      BY <1>1, <1>3, <2>1, <2>2, ChangedInv
    <2>4. Bag!Put(charm[c], 1)
      BY <2>2 DEF Bag!Put, Counts
    <2>5. QED
      BY <2>1, <2>3, <2>4 DEF BagStep, Bag!Next
  <1>4. QED
    BY <1>2, <1>3

\* Before the first turn there is one range, all places, and all may be in any
\* order.
LEMMA ArrangeInv ==
  ASSUME IInv, NEW mode \in Modes, Arrange(mode)
  PROVE  IInv' /\ BagStep
  <1>1. /\ order' = mode /\ stack' = SpanOf(0, Places - 1) /\ items' = items /\ charm' = charm
    BY DEF Arrange
  <1>2. Places \in Nat /\ None \notin Modes
    BY ItemsAssumption
  <1> DEFINE K2 == Key'
             new == stack'
             last == Places - 1
  <1>3. GoodsOK' /\ BagStep
    BY <1>1 DEF IInv, GoodsOK, InvOK, BagStep, Counts
  <1>4. \A p \in Place : p \in Nat /\ p <= last
    BY <1>2 DEF Place
  <1>5. CASE 0 < last
    <2> DEFINE r == Span(0, last)
    <2>1. new = << r >>
      BY <1>1, <1>5 DEF SpanOf
    <2>2. last \in Nat /\ r \in Ranges /\ r.lo = 0 /\ r.hi = last /\ r.i = 1 /\ r.j = last
      BY <1>2, <1>5 DEF Span, Ranges
    <2> HIDE DEF r, new, K2
    <2>3. new \in Seq(Ranges) /\ Len(new) = 1 /\ new[1] = r
      BY <2>1, <2>2
    <2>4. RangeOK(r)
      BY <1>2, <1>5, <2>2 DEF RangeOK
    <2>5. Short(new)
      <3>1. Depth \in Nat /\ Halved[0] = Places /\ Depth # 0
        BY <1>2, <1>5, HalvedIs
      <3>2. r.hi - r.lo < Halved[1 - 1]
        BY <1>2, <2>2, <3>1
      <3>3. \A k \in 1 .. Len(new) : k = 1
        BY <2>3
      <3>4. QED
        BY <2>3, <3>1, <3>2, <3>3 DEF Short
    <2>6. Disjoint(new) /\ \A k \in 1 .. Len(new) : RangeOK(new[k])
      BY <2>3, <2>4 DEF Disjoint
    <2>7. \A k \in 1 .. Len(new) : Pivoted(K2, new[k])
      <3>1. Pivoted(K2, r)
        BY <1>4, <2>2 DEF Pivoted
      <3>2. QED
        BY <2>3, <3>1
    <2>8. Apart(K2, new)
      <3>1. 1 \in 1 .. Len(new) /\ \A p, q \in Place : new[1].lo <= p /\ q <= new[1].hi
        BY <1>4, <2>2, <2>3
      <3>2. QED
        BY <3>1 DEF Apart
    <2>9. SortInv'
      BY <1>1, <1>2, <2>3, <2>5, <2>6, <2>7, <2>8 DEF SortInv, RangesOK, new, K2
    <2>10. QED
      BY <1>3, <2>9 DEF IInv
  <1>6. CASE ~(0 < last)
    <2>1. new = << >>
      BY <1>1, <1>6 DEF SpanOf
    <2>2. \A p, q \in Place : ~(p < q)
      BY <1>2, <1>4, <1>6
    <2> HIDE DEF new, K2
    <2>3. Apart(K2, new)
      BY <2>2 DEF Apart
    <2>4. SortInv'
      BY <2>1, <2>3, NoRanges DEF SortInv, new, K2
    <2>5. QED
      BY <1>3, <2>4 DEF IInv
  <1>7. QED
    BY <1>5, <1>6

LEMMA SortStepInv ==
  ASSUME IInv, SortStep
  PROVE  IInv' /\ BagStep
  <1>1. InvOK(items) /\ SortInv
    BY DEF IInv, GoodsOK
  <1>2. InvOK(items') /\ Counts(items') = Counts(items) /\ SortInv'
    BY <1>1, ExchangeKeeps, SplitKeeps DEF SortStep
  <1>3. charm' = charm /\ order' = order
    BY DEF SortStep, SortExchange, SortSplit
  <1>4. QED
    BY <1>2, <1>3 DEF IInv, GoodsOK, InvOK, BagStep

\* What happens to materia leaves the items alone.
LEMMA MateriaInv ==
  ASSUME IInv, UNCHANGED <<goods, charm>>
  PROVE  IInv' /\ BagStep
  BY DEF goods, IInv, GoodsOK, InvOK, SortInv, Key, BagStep, Counts

LEMMA StepInv ==
  ASSUME IInv, [Next]_vars
  PROVE  IInv' /\ BagStep
  <1>1. CASE \E id \in Ids, n \in Amounts : Stitm(id, n) \/ Dlitm(id, n)
    BY <1>1, StitmInv, DlitmInv
  <1>2. CASE Clitm \/ Flitm \/ SortStep
    BY <1>2, ClitmInv, FlitmInv, SortStepInv
  <1>3. CASE \E i, j \in Place : Customize(i, j)
    BY <1>3, CustomizeInv
  <1>4. CASE \E mode \in Modes : Arrange(mode)
    BY <1>4, ArrangeInv
  <1>5. CASE \E c \in Chars : UnequipCharacterMateria(c)
    BY <1>5, UnequipInv
  <1>6. CASE \/ Flmat \/ StealAllMateria \/ ReturnStolenMateria
             \/ \E m \in Kinds : Smtra(m)
             \/ \E c \in Heroes : BackupCharacterMateria(c) \/ RestoreCharacterMateria(c)
    <2>1. UNCHANGED <<goods, charm>>
      BY <1>6 DEF Flmat, StealAllMateria, ReturnStolenMateria, Smtra, BackupCharacterMateria,
                  RestoreCharacterMateria
    <2>2. QED
      BY <2>1, MateriaInv
  <1>7. CASE UNCHANGED vars
    BY <1>7, MateriaInv DEF vars
  <1>8. QED
    BY <1>1, <1>2, <1>3, <1>4, <1>5, <1>6, <1>7 DEF Next

\* The inductive invariant: the inventory is in order, and so are the ranges of
\* a sort.
THEOREM ItemsInv == Spec => []IInv
  <1>1. Init => IInv
    BY InitInv
  <1>2. IInv /\ [Next]_vars => IInv'
    BY StepInv
  <1>3. QED
    BY <1>1, <1>2, PTL DEF Spec

----------------------------------------------------------------------------
(***************************************************************************)
(* Something done for each of a list, one after the other.                 *)
(***************************************************************************)
LEMMA Induct ==
  ASSUME NEW N \in Nat, NEW Good, 0 \in Good,
         \A n \in 1 .. N : n - 1 \in Good => n \in Good
  PROVE  \A n \in 0 .. N : n \in Good
  <1> DEFINE Bad == {n \in 0 .. N : n \notin Good}
  <1>1. SUFFICES ASSUME Bad # {} PROVE FALSE
    OBVIOUS
  <1>2. Bad \in SUBSET Nat
    OBVIOUS
  <1>3. PICK n \in Bad : \A k \in Bad : n <= k
    BY <1>1, <1>2, LeastThere
  <1>4. n \in 0 .. N /\ n \notin Good /\ n # 0
    OBVIOUS
  <1>5. n \in 1 .. N /\ n - 1 \in 0 .. N /\ n - 1 \notin Bad
    BY <1>3, <1>4
  <1>6. QED
    BY <1>4, <1>5

\* What holds before and is kept by every turn holds after the last one.
LEMMA EachKeeps ==
  ASSUME NEW S, NEW M, None \notin M, NEW Op \in [S \X M -> S], NEW before \in S,
         NEW ms \in Seq(M \cup {None}),
         NEW Good, <<0, before>> \in Good,
         \A n \in 1 .. Len(ms), s \in S : <<n - 1, s>> \in Good =>
             <<n, IF ms[n] = None THEN s ELSE Op[<<s, ms[n]>>]>> \in Good
  PROVE  Each(Op, before, ms) \in S /\ <<Len(ms), Each(Op, before, ms)>> \in Good
  <1> DEFINE N == Len(ms)
             Turn(n, s) == IF ms[n] = None THEN s ELSE Op[<<s, ms[n]>>]
             Partial(n) == {g \in [0 .. n -> S] : g[0] = before /\ \A k \in 1 .. n : g[k] = Turn(k, g[k - 1])}
             Reached == {n \in 0 .. N : \E g \in Partial(n) : TRUE}
  <1>1. N \in Nat /\ \A n \in 1 .. N : ms[n] \in M \cup {None}
    OBVIOUS
  <1>2. \A n \in 1 .. N, s \in S : Turn(n, s) \in S
    BY <1>1
  <1>3. 0 \in Reached
    <2> DEFINE g == [k \in 0 .. 0 |-> before]
    <2>1. g \in [0 .. 0 -> S] /\ g[0] = before /\ \A k \in 1 .. 0 : g[k] = Turn(k, g[k - 1])
      OBVIOUS
    <2> HIDE DEF g, Turn
    <2>2. g \in Partial(0)
      BY <2>1
    <2>3. QED
      BY <1>1, <2>2
  <1>4. ASSUME NEW n \in 1 .. N, n - 1 \in Reached
        PROVE  n \in Reached
    <2> HIDE DEF Turn
    <2>1. PICK g \in [0 .. n - 1 -> S] : g[0] = before /\ \A k \in 1 .. n - 1 : g[k] = Turn(k, g[k - 1])
      BY <1>4
    <2> DEFINE h == [k \in 0 .. n |-> IF k = n THEN Turn(n, g[n - 1]) ELSE g[k]]
    <2>2. g[n - 1] \in S
      BY <1>1
    <2>3. h \in [0 .. n -> S] /\ h[0] = before /\ h[n] = Turn(n, g[n - 1])
          /\ \A k \in 0 .. n - 1 : h[k] = g[k]
      BY <1>1, <1>2, <2>1, <2>2
    <2> HIDE DEF h
    <2>4. \A k \in 1 .. n : h[k] = Turn(k, h[k - 1])
      <3> SUFFICES ASSUME NEW k \in 1 .. n PROVE h[k] = Turn(k, h[k - 1])
        OBVIOUS
      <3>1. n \in Nat /\ k - 1 \in 0 .. n - 1 /\ h[k - 1] = g[k - 1]
        BY <1>1, <2>3
      <3>2. CASE k = n
        BY <2>3, <3>1, <3>2
      <3>3. CASE k # n
        BY <2>1, <2>3, <3>1, <3>3
      <3>4. QED
        BY <3>2, <3>3
    <2>5. h \in Partial(n)
      BY <2>3, <2>4
    <2>6. QED
      BY <2>5
  <1>5. PICK g \in [0 .. N -> S] : g[0] = before /\ \A k \in 1 .. N : g[k] = Turn(k, g[k - 1])
    <2> HIDE DEF Reached, N
    <2>1. \A n \in 1 .. N : n - 1 \in Reached => n \in Reached
      BY <1>4
    <2>2. N \in Nat
      BY <1>1
    <2>3. \A n \in 0 .. N : n \in Reached
      BY <1>3, <2>1, <2>2, Induct
    <2>4. N \in Reached
      BY <2>2, <2>3
    <2> HIDE DEF Partial
    <2>5. \E g : g \in Partial(N)
      BY <2>4 DEF Reached
    <2> USE DEF Partial
    <2>6. QED
      BY <2>5
  <1> DEFINE Steps(f) == [n \in 0 .. Len(ms) |->
                            IF n = 0 THEN before
                            ELSE IF ms[n] = None THEN f[n - 1] ELSE Op[<<f[n - 1], ms[n]>>]]
             after == CHOOSE f : f = Steps(f)
  <1>6. g = Steps(g)
    <2>1. \A n \in 0 .. N : n = 0 \/ n \in 1 .. N
      BY <1>1
    <2>2. QED
      BY <1>1, <1>5, <2>1
  <1>7. after = Steps(after)
    <2> HIDE DEF Steps
    <2>1. QED
      BY <1>6
  <1>8. Each(Op, before, ms) = after[N]
    BY DEF Each
  <1> HIDE DEF after
  <1>9. after[0] = before /\ \A n \in 1 .. N : after[n] = Turn(n, after[n - 1])
    BY <1>1, <1>7
  <1> DEFINE Fine == {n \in 0 .. N : after[n] \in S /\ <<n, after[n]>> \in Good}
  <1>10. 0 \in Fine
    BY <1>1, <1>9
  <1>11. ASSUME NEW n \in 1 .. N, n - 1 \in Fine
         PROVE  n \in Fine
    <2>1. after[n] = Turn(n, after[n - 1]) /\ after[n - 1] \in S /\ <<n - 1, after[n - 1]>> \in Good
      BY <1>9, <1>11
    <2>2. QED
      BY <1>1, <1>2, <2>1
  <1>12. N \in Fine
    <2> HIDE DEF Fine, N
    <2>1. \A n \in 1 .. N : n - 1 \in Fine => n \in Fine
      BY <1>11
    <2>2. N \in Nat
      BY <1>1
    <2>3. \A n \in 0 .. N : n \in Fine
      BY <1>10, <2>1, <2>2, Induct
    <2>4. QED
      BY <2>2, <2>3
  <1>13. QED
    BY <1>8, <1>12

----------------------------------------------------------------------------
(***************************************************************************)
(* Counting.                                                               *)
(***************************************************************************)
\* How many of the first n of a list are m.
UpTo(ms, n, m) == Cardinality({i \in 1 .. n : ms[i] = m})

LEMMA CountType ==
  ASSUME NEW D, IsFiniteSet(D), NEW R, NEW f \in [D -> R], NEW m
  PROVE  /\ InPlaces(f, m) \in Nat
         /\ InPlaces(f, m) = 0 <=> \A d \in D : f[d] # m
  <1> DEFINE S == {d \in D : f[d] = m}
  <1>1. S \in SUBSET D
    OBVIOUS
  <1> HIDE DEF S
  <1>2. IsFiniteSet(S)
    BY <1>1, FS_Subset
  <1>3. Cardinality(S) \in Nat /\ (Cardinality(S) = 0 <=> S = {})
    BY <1>2, FS_CardinalityType, FS_EmptySet
  <1>4. InPlaces(f, m) = Cardinality(S)
    BY DEF InPlaces, S
  <1>5. QED
    BY <1>3, <1>4 DEF S

\* One if so, none if not.
OneIf(a, b) == IF a = b THEN 1 ELSE 0

\* One place gets something else.
LEMMA CountUpdate ==
  ASSUME NEW D, IsFiniteSet(D), NEW R, NEW f \in [D -> R], NEW g \in [D -> R], NEW d \in D, NEW m,
         \A p \in D : p # d => g[p] = f[p]
  PROVE  InPlaces(g, m) = InPlaces(f, m) - OneIf(f[d], m) + OneIf(g[d], m)
  <1> DEFINE x == g[d]
             S == {p \in D : f[p] = m}
             T == {p \in D : g[p] = m}
  <1>1. g \in [D -> R] /\ \A p \in D : g[p] = IF p = d THEN x ELSE f[p]
    OBVIOUS
  <1> HIDE DEF x
  <1>2. InPlaces(f, m) = Cardinality(S) /\ InPlaces(g, m) = Cardinality(T)
    BY <1>1 DEF InPlaces
  <1>3. S \in SUBSET D /\ (d \in S <=> f[d] = m)
    OBVIOUS
  <1>4. x = m => T = S \cup {d}
    BY <1>1
  <1>5. x # m => T = S \ {d}
    BY <1>1
  <1> HIDE DEF S, T
  <1>6. IsFiniteSet(S) /\ Cardinality(S) \in Nat
    BY <1>3, FS_Subset, FS_CardinalityType
  <1>7. /\ Cardinality(S \cup {d}) = IF d \in S THEN Cardinality(S) ELSE Cardinality(S) + 1
        /\ Cardinality(S \ {d}) = IF d \in S THEN Cardinality(S) - 1 ELSE Cardinality(S)
    BY <1>6, FS_AddElement, FS_RemoveElement
  <1>8. InPlaces(g, m) = InPlaces(f, m) - (IF f[d] = m THEN 1 ELSE 0) + (IF x = m THEN 1 ELSE 0)
    <2>1. CASE x = m /\ f[d] = m
      <3>1. Cardinality(T) = Cardinality(S)
        BY <1>3, <1>4, <1>7, <2>1
      <3>2. QED
        BY <1>2, <1>6, <2>1, <3>1
    <2>2. CASE x = m /\ f[d] # m
      <3>1. Cardinality(T) = Cardinality(S) + 1
        BY <1>3, <1>4, <1>7, <2>2
      <3>2. QED
        BY <1>2, <1>6, <2>2, <3>1
    <2>3. CASE x # m /\ f[d] = m
      <3>1. Cardinality(T) = Cardinality(S) - 1
        BY <1>3, <1>5, <1>7, <2>3
      <3>2. QED
        BY <1>2, <1>6, <2>3, <3>1
    <2>4. CASE x # m /\ f[d] # m
      <3>1. Cardinality(T) = Cardinality(S)
        BY <1>3, <1>5, <1>7, <2>4
      <3>2. QED
        BY <1>2, <1>6, <2>4, <3>1
    <2>5. QED
      BY <2>1, <2>2, <2>3, <2>4
  <1>9. QED
    BY <1>8 DEF x, OneIf

LEMMA OneMore ==
  ASSUME NEW ms, NEW m, NEW N \in Nat
  PROVE  /\ UpTo(ms, 0, m) = 0
         /\ \A n \in 0 .. N : UpTo(ms, n, m) \in Nat /\ UpTo(ms, n, m) <= UpTo(ms, N, m)
         /\ \A n \in 1 .. N : UpTo(ms, n, m) = UpTo(ms, n - 1, m) + IF ms[n] = m THEN 1 ELSE 0
  <1> DEFINE S(n) == {i \in 1 .. n : ms[i] = m}
  <1>1. UpTo(ms, 0, m) = 0
    <2>1. S(0) = {}
      OBVIOUS
    <2>2. QED
      BY <2>1, FS_EmptySet DEF UpTo
  <1>2. ASSUME NEW n \in 0 .. N
        PROVE  IsFiniteSet(S(n)) /\ UpTo(ms, n, m) \in Nat /\ UpTo(ms, n, m) <= UpTo(ms, N, m)
    <2>1. n \in Int /\ N \in Int /\ S(n) \in SUBSET (1 .. n) /\ S(N) \in SUBSET (1 .. N) /\ S(n) \in SUBSET S(N)
      OBVIOUS
    <2>2. UpTo(ms, n, m) = Cardinality(S(n)) /\ UpTo(ms, N, m) = Cardinality(S(N))
      BY DEF UpTo
    <2> HIDE DEF S
    <2>3. IsFiniteSet(1 .. n) /\ IsFiniteSet(1 .. N)
      BY <2>1, FS_Interval
    <2>4. IsFiniteSet(S(n)) /\ IsFiniteSet(S(N))
      BY <2>1, <2>3, FS_Subset
    <2>5. Cardinality(S(n)) \in Nat /\ Cardinality(S(n)) <= Cardinality(S(N))
      BY <2>1, <2>4, FS_Subset, FS_CardinalityType
    <2>6. QED
      BY <2>2, <2>4, <2>5
  <1>3. ASSUME NEW n \in 1 .. N
        PROVE  UpTo(ms, n, m) = UpTo(ms, n - 1, m) + IF ms[n] = m THEN 1 ELSE 0
    <2>1. n - 1 \in 0 .. N /\ n \notin S(n - 1)
      OBVIOUS
    <2>2. S(n) = IF ms[n] = m THEN S(n - 1) \cup {n} ELSE S(n - 1)
      <3>1. \A i \in Int : i \in 1 .. n <=> i \in 1 .. n - 1 \/ i = n
        OBVIOUS
      <3>2. QED
        BY <3>1
    <2>3. UpTo(ms, n, m) = Cardinality(S(n)) /\ UpTo(ms, n - 1, m) = Cardinality(S(n - 1))
      BY DEF UpTo
    <2>4. IsFiniteSet(S(n - 1)) /\ UpTo(ms, n - 1, m) \in Nat
      BY <1>2, <2>1
    <2> HIDE DEF S
    <2>5. Cardinality(S(n - 1) \cup {n}) = Cardinality(S(n - 1)) + 1
      BY <2>1, <2>4, FS_AddElement
    <2>6. QED
      BY <2>2, <2>3, <2>4, <2>5
  <1>4. QED
    BY <1>1, <1>2, <1>3

\* Things that correspond one to one are as many.
OneToOne(f, S, T) == /\ f \in [S -> T]
                     /\ \A a, b \in S : f[a] = f[b] => a = b
                     /\ \A t \in T : \E s \in S : f[s] = t

LEMMA AsMany ==
  ASSUME NEW S, NEW T, NEW f, IsFiniteSet(S), OneToOne(f, S, T)
  PROVE  IsFiniteSet(T) /\ Cardinality(T) = Cardinality(S)
  <1>1. f \in Bijection(S, T)
    BY DEF OneToOne, Bijection, Injection, Surjection, IsInjective
  <1>2. ExistsBijection(S, T)
    BY <1>1 DEF ExistsBijection
  <1>3. QED
    BY <1>2, FS_Bijection

\* What is in one of two parts.
LEMMA TwoParts ==
  ASSUME NEW A, NEW B, IsFiniteSet(A), IsFiniteSet(B), A \cap B = {}
  PROVE  /\ Cardinality(A \cup B) = Cardinality(A) + Cardinality(B)
         /\ Cardinality(A) \in Nat /\ Cardinality(B) \in Nat
  <1>1. /\ Cardinality(A \cup B) = Cardinality(A) + Cardinality(B) - Cardinality(A \cap B)
        /\ Cardinality(A) \in Nat /\ Cardinality(B) \in Nat
    BY FS_Union, FS_CardinalityType
  <1>2. Cardinality(A \cap B) = 0
    BY FS_EmptySet
  <1>3. QED
    BY <1>1, <1>2

----------------------------------------------------------------------------
(***************************************************************************)
(* The order in which the slots are gone through has each of them once.    *)
(***************************************************************************)
LEMMA AList ==
  ASSUME NEW N \in Nat, NEW S, NEW f \in [1 .. N -> S]
  PROVE  f \in Seq(S) /\ Len(f) = N
  <1>1. f \in Seq(S)
    BY SeqDef
  <1>2. Len(f) \in Nat /\ DOMAIN f = 1 .. Len(f)
    BY <1>1, LenProperties
  <1>3. QED
    BY <1>1, <1>2

LEMMA Euclid ==
  ASSUME NEW P \in Nat \ {0}, NEW C \in Nat
  PROVE  /\ (C + 1) * P \in Nat
         /\ \A n \in 1 .. (C + 1) * P :
              /\ (n - 1) \div P \in 0 .. C /\ (n - 1) % P \in 0 .. P - 1
              /\ n - 1 = P * ((n - 1) \div P) + ((n - 1) % P)
         /\ \A c \in 0 .. C, r \in 0 .. P - 1 :
              /\ P * c + r + 1 \in 1 .. (C + 1) * P
              /\ (P * c + r) \div P = c /\ (P * c + r) % P = r
  <1>1. \A p \in Nat \ {0}, x \in Nat : /\ x \div p \in Nat /\ x % p \in 0 .. p - 1
                                        /\ x = p * (x \div p) + (x % p)
    OBVIOUS
  <1>2. \A a, b, p \in Nat : a < b => p * a + p <= p * b
    OBVIOUS
  <1>3. \A p, c \in Nat : p * c \in Nat /\ (c + 1) * p = p * c + p
    OBVIOUS
  <1>4. ASSUME NEW n \in 1 .. (C + 1) * P
        PROVE  /\ (n - 1) \div P \in 0 .. C /\ (n - 1) % P \in 0 .. P - 1
               /\ n - 1 = P * ((n - 1) \div P) + ((n - 1) % P)
    <2> DEFINE q == (n - 1) \div P
               r == (n - 1) % P
    <2>1. n - 1 \in Nat /\ n - 1 < P * C + P
      BY <1>3
    <2>2. q \in Nat /\ r \in 0 .. P - 1 /\ n - 1 = P * q + r
      BY <1>1, <2>1
    <2> HIDE DEF q, r
    <2>3. C < q => P * C + P <= P * q
      BY <1>2, <2>2
    <2>4. P * q \in Nat /\ P * C \in Nat
      BY <1>3, <2>2
    <2>5. q <= C
      BY <2>1, <2>2, <2>3, <2>4
    <2>6. QED
      BY <2>2, <2>5 DEF q, r
  <1>5. ASSUME NEW c \in 0 .. C, NEW r \in 0 .. P - 1
        PROVE  /\ P * c + r + 1 \in 1 .. (C + 1) * P
               /\ (P * c + r) \div P = c /\ (P * c + r) % P = r
    <2> DEFINE x == P * c + r
               q == x \div P
               t == x % P
    <2>1. c \in Nat /\ r \in Nat /\ P * c \in Nat /\ P * C \in Nat /\ (C + 1) * P = P * C + P
      BY <1>3
    <2>2. x \in Nat
      BY <2>1
    <2>3. q \in Nat /\ t \in 0 .. P - 1 /\ x = P * q + t
      BY <1>1, <2>2
    <2>4. x = P * c + r
      OBVIOUS
    <2> HIDE DEF x, q, t
    <2>5. P * q \in Nat
      BY <1>3, <2>3
    <2>6. q < c => P * q + P <= P * c
      BY <1>2, <2>1, <2>3
    <2>7. c < q => P * c + P <= P * q
      BY <1>2, <2>1, <2>3
    <2>8. q = c /\ t = r
      <3>1. ~(q < c) /\ ~(c < q)
        BY <2>1, <2>3, <2>4, <2>5, <2>6, <2>7
      <3>2. q = c
        BY <2>1, <2>3, <3>1
      <3>3. QED
        BY <2>1, <2>3, <2>4, <2>5, <3>2
    <2>9. P * c <= P * C
      <3>1. c < C => P * c + P <= P * C
        BY <1>2, <2>1
      <3>2. QED
        BY <2>1, <3>1
    <2>10. x + 1 \in 1 .. (C + 1) * P
      BY <2>1, <2>4, <2>9
    <2>11. QED
      BY <2>8, <2>10 DEF x, q, t
  <1>6. QED
    BY <1>3, <1>4, <1>5

LEMMA SpotIs ==
  /\ PerChar \in Nat \ {0}
  /\ \A c \in Chars, r \in 0 .. PerChar - 1 : SpotOf(c, r) \in Spots /\ SpotOf(c, r)[1] = c
  /\ \A c, d \in Chars, r, t \in 0 .. PerChar - 1 : SpotOf(c, r) = SpotOf(d, t) => c = d /\ r = t
  /\ \A s \in Spots : \E r \in 0 .. PerChar - 1 : SpotOf(s[1], r) = s
  <1>1. PerGear \in Nat \ {0} /\ PerChar \in Nat \ {0} /\ PerChar = 2 * PerGear
    BY ItemsAssumption DEF PerChar
  <1>2. \A c \in Chars, r \in 0 .. PerChar - 1 : SpotOf(c, r) \in Spots /\ SpotOf(c, r)[1] = c
    BY <1>1 DEF SpotOf, Spots, Gear, Slot
  <1>3. \A c, d \in Chars, r, t \in 0 .. PerChar - 1 : SpotOf(c, r) = SpotOf(d, t) => c = d /\ r = t
    BY <1>1 DEF SpotOf
  <1>4. ASSUME NEW s \in Spots
        PROVE  \E r \in 0 .. PerChar - 1 : SpotOf(s[1], r) = s
    <2>1. PICK c \in Chars, g \in Gear, k \in Slot : s = <<c, g, k>>
      BY DEF Spots
    <2>2. CASE g = "weapon"
      <3>1. k \in 0 .. PerChar - 1 /\ k < PerGear
        BY <1>1 DEF Slot
      <3>2. SpotOf(s[1], k) = s
        BY <2>1, <2>2, <3>1 DEF SpotOf
      <3>3. QED
        BY <3>1, <3>2
    <2>3. CASE g = "armor"
      <3>1. k + PerGear \in 0 .. PerChar - 1 /\ ~(k + PerGear < PerGear) /\ k + PerGear - PerGear = k
        BY <1>1 DEF Slot
      <3>2. SpotOf(c, k + PerGear) = <<c, "armor", k + PerGear - PerGear>>
        BY <1>1, <3>1 DEF SpotOf, Slot
      <3>3. s[1] = c /\ SpotOf(s[1], k + PerGear) = s
        BY <2>1, <2>3, <3>1, <3>2
      <3>4. QED
        BY <3>1, <3>3
    <2>4. QED
      BY <2>1, <2>2, <2>3 DEF Gear
  <1>5. QED
    BY <1>1, <1>2, <1>3, <1>4

AllSpots == (LastChar + 1) * PerChar

LEMMA UpwardsIs ==
  /\ AllSpots \in Nat /\ Len(Upwards) = AllSpots /\ Upwards \in [1 .. AllSpots -> Spots]
  /\ \A n, k \in 1 .. AllSpots : Upwards[n] = Upwards[k] => n = k
  /\ \A s \in Spots : \E n \in 1 .. AllSpots : Upwards[n] = s
  <1>1. PerChar \in Nat \ {0} /\ LastChar \in Nat /\ Chars = 0 .. LastChar
    BY SpotIs, ItemsAssumption DEF Chars
  <1>2. /\ AllSpots \in Nat
        /\ \A n \in 1 .. AllSpots :
              /\ (n - 1) \div PerChar \in Chars /\ (n - 1) % PerChar \in 0 .. PerChar - 1
              /\ n - 1 = PerChar * ((n - 1) \div PerChar) + ((n - 1) % PerChar)
        /\ \A c \in Chars, r \in 0 .. PerChar - 1 :
              /\ PerChar * c + r + 1 \in 1 .. AllSpots
              /\ (PerChar * c + r) \div PerChar = c /\ (PerChar * c + r) % PerChar = r
    BY <1>1, Euclid DEF AllSpots
  <1>3. \A n \in 1 .. AllSpots : Upwards[n] = SpotOf((n - 1) \div PerChar, (n - 1) % PerChar)
    BY DEF Upwards, AllSpots
  <1>4. Upwards \in [1 .. AllSpots -> Spots]
    <2>1. Upwards = [n \in 1 .. AllSpots |-> SpotOf((n - 1) \div PerChar, (n - 1) % PerChar)]
      BY DEF Upwards, AllSpots
    <2>2. QED
      BY <1>2, <2>1, SpotIs
  <1>5. Len(Upwards) = AllSpots
    BY <1>2, <1>4, AList
  <1>6. ASSUME NEW n \in 1 .. AllSpots, NEW k \in 1 .. AllSpots, Upwards[n] = Upwards[k]
        PROVE  n = k
    <2>1. (n - 1) \div PerChar = (k - 1) \div PerChar /\ (n - 1) % PerChar = (k - 1) % PerChar
      BY <1>2, <1>3, <1>6, SpotIs
    <2>2. n - 1 = k - 1
      BY <1>2, <2>1
    <2>3. QED
      BY <1>2, <2>2
  <1>7. ASSUME NEW s \in Spots
        PROVE  \E n \in 1 .. AllSpots : Upwards[n] = s
    <2>1. PICK r \in 0 .. PerChar - 1 : SpotOf(s[1], r) = s
      BY SpotIs
    <2> DEFINE x == PerChar * s[1] + r
    <2>2. s[1] \in Chars
      BY DEF Spots
    <2>3. x + 1 \in 1 .. AllSpots /\ x \div PerChar = s[1] /\ x % PerChar = r
      BY <1>2, <2>2
    <2> HIDE DEF x
    <2>4. x \in Int
      BY <1>1, <2>2 DEF x
    <2>5. (x + 1) - 1 = x
      BY <2>4
    <2>6. Upwards[x + 1] = SpotOf(((x + 1) - 1) \div PerChar, ((x + 1) - 1) % PerChar)
      BY <1>3, <2>3
    <2>7. Upwards[x + 1] = s
      BY <2>1, <2>3, <2>5, <2>6
    <2>8. QED
      BY <2>3, <2>7
  <1>8. QED
    BY <1>2, <1>4, <1>5, <1>6, <1>7

LEMMA DownwardsIs ==
  \A n \in 1 .. Len(Downwards) : Downwards[n] \in Spots
  <1>1. PerChar \in Nat \ {0} /\ LastChar \in Nat /\ Chars = 0 .. LastChar
    BY SpotIs, ItemsAssumption DEF Chars
  <1>2. /\ AllSpots \in Nat
        /\ \A n \in 1 .. AllSpots :
              (n - 1) \div PerChar \in 0 .. LastChar /\ (n - 1) % PerChar \in 0 .. PerChar - 1
    BY <1>1, Euclid DEF AllSpots
  <1>3. \A n \in 1 .. AllSpots : LastChar - ((n - 1) \div PerChar) \in Chars
    BY <1>1, <1>2
  <1>4. Downwards = [n \in 1 .. AllSpots |-> SpotOf(LastChar - ((n - 1) \div PerChar), (n - 1) % PerChar)]
    BY DEF Downwards, AllSpots
  <1>5. Downwards \in [1 .. AllSpots -> Spots]
    BY <1>2, <1>3, <1>4, SpotIs
  <1>6. QED
    BY <1>2, <1>5, AList

LEMMA SpotsFinite == IsFiniteSet(Spots) /\ IsFiniteSet(Pocket) /\ IsFiniteSet(Entry)
  <1>1. IsFiniteSet(1 .. AllSpots)
    BY UpwardsIs, FS_Interval
  <1>2. IsFiniteSet(Spots)
    BY <1>1, UpwardsIs, AsMany DEF OneToOne
  <1>3. Pockets \in Nat /\ Loot \in Nat
    BY ItemsAssumption
  <1>4. 0 \in Int /\ Pockets - 1 \in Int /\ Loot - 1 \in Int
    BY <1>3
  <1>5. IsFiniteSet(0 .. Pockets - 1) /\ IsFiniteSet(0 .. Loot - 1)
    BY <1>4, FS_Interval
  <1>6. QED
    BY <1>2, <1>5 DEF Pocket, Entry

----------------------------------------------------------------------------
(***************************************************************************)
(* What is worn, and the inventory of materia.                             *)
(***************************************************************************)
AllWorn == [Chars -> WornOf]
AllPockets == [Pocket -> Piece]
Flat(w) == [s \in Spots |-> WornAt(w, s)]
FlatSeen(w) == [s \in Spots |-> SeenAt(w, s)]
SeenWorn(w, m) == InPlaces(FlatSeen(w), m)
Full(pk) == \A p \in Pocket : pk[p] # None

LEMMA FlatIs ==
  ASSUME NEW w \in AllWorn
  PROVE  /\ Flat(w) \in [Spots -> Piece] /\ FlatSeen(w) \in [Spots -> Piece]
         /\ \A m : Worn(w, m) = InPlaces(Flat(w), m)
  <1>1. \A s \in Spots : WornAt(w, s) \in Piece /\ SeenAt(w, s) \in Piece
    BY DEF AllWorn, WornOf, Spots, WornAt, SeenAt, Piece
  <1>2. \A m : Worn(w, m) = InPlaces(Flat(w), m)
    BY DEF Worn, InPlaces, Flat
  <1>3. QED
    BY <1>1, <1>2 DEF Flat, FlatSeen

LEMMA WearIs ==
  ASSUME NEW w \in AllWorn, NEW s \in Spots, NEW x \in Piece
  PROVE  /\ Wear(w, s, x) \in AllWorn
         /\ Flat(Wear(w, s, x)) = [Flat(w) EXCEPT ![s] = x]
         /\ s[1] \in Seen => FlatSeen(Wear(w, s, x)) = [FlatSeen(w) EXCEPT ![s] = x]
  <1>1. PICK c \in Chars, g \in Gear, k \in Slot : s = <<c, g, k>>
    BY DEF Spots
  <1>2. s[1] = c /\ s[2] = g /\ s[3] = k
    BY <1>1
  <1>3. Wear(w, s, x) = [w EXCEPT ![c] = [w[c] EXCEPT ![g] = [w[c][g] EXCEPT ![k] = x]]]
    BY <1>2 DEF Wear
  <1>4. w[c] \in WornOf /\ w[c][g] \in [Slot -> Piece]
    BY DEF AllWorn, WornOf
  <1>5. [w[c][g] EXCEPT ![k] = x] \in [Slot -> Piece]
    BY <1>4
  <1>6. [w[c] EXCEPT ![g] = [w[c][g] EXCEPT ![k] = x]] \in WornOf
    BY <1>4, <1>5 DEF WornOf
  <1>7. Wear(w, s, x) \in AllWorn
    BY <1>3, <1>6 DEF AllWorn
  <1>8. ASSUME NEW d \in Chars, NEW h \in Gear, NEW l \in Slot
        PROVE  Wear(w, s, x)[d][h][l] = IF d = c /\ h = g /\ l = k THEN x ELSE w[d][h][l]
    BY <1>3, <1>4 DEF AllWorn, WornOf
  <1>9. \A t \in Spots : WornAt(Wear(w, s, x), t) = IF t = s THEN x ELSE WornAt(w, t)
    <2> SUFFICES ASSUME NEW t \in Spots
                 PROVE  WornAt(Wear(w, s, x), t) = IF t = s THEN x ELSE WornAt(w, t)
      OBVIOUS
    <2>1. PICK d \in Chars, h \in Gear, l \in Slot : t = <<d, h, l>>
      BY DEF Spots
    <2>2. t = s <=> d = c /\ h = g /\ l = k
      BY <1>1, <2>1
    <2>3. QED
      BY <1>8, <2>1, <2>2 DEF WornAt
  <1> HIDE DEF Wear
  <1>10. Flat(Wear(w, s, x)) = [Flat(w) EXCEPT ![s] = x]
    BY <1>9 DEF Flat
  <1>11. ASSUME s[1] \in Seen
         PROVE  FlatSeen(Wear(w, s, x)) = [FlatSeen(w) EXCEPT ![s] = x]
    <2>1. \A t \in Spots : SeenAt(Wear(w, s, x), t) = IF t = s THEN x ELSE SeenAt(w, t)
      BY <1>9, <1>11 DEF SeenAt
    <2>2. QED
      BY <2>1 DEF FlatSeen
  <1>12. QED
    BY <1>7, <1>10, <1>11

\* A slot gets a piece, or is emptied.
LEMMA WearCounts ==
  ASSUME NEW w \in AllWorn, NEW s \in Spots, NEW x \in Piece, NEW m
  PROVE  /\ Worn(w, m) \in Nat /\ SeenWorn(w, m) \in Nat
         /\ Worn(Wear(w, s, x), m) =
              Worn(w, m) - OneIf(WornAt(w, s), m) + OneIf(x, m)
         /\ s[1] \in Seen =>
              SeenWorn(Wear(w, s, x), m) =
                SeenWorn(w, m) - OneIf(WornAt(w, s), m) + OneIf(x, m)
  <1>1. /\ Flat(w) \in [Spots -> Piece] /\ FlatSeen(w) \in [Spots -> Piece]
        /\ Worn(w, m) = InPlaces(Flat(w), m)
    BY FlatIs
  <1>2. /\ Wear(w, s, x) \in AllWorn
        /\ Flat(Wear(w, s, x)) = [Flat(w) EXCEPT ![s] = x]
        /\ s[1] \in Seen => FlatSeen(Wear(w, s, x)) = [FlatSeen(w) EXCEPT ![s] = x]
    BY WearIs
  <1>3. Worn(Wear(w, s, x), m) = InPlaces(Flat(Wear(w, s, x)), m)
    BY <1>2, FlatIs
  <1>4. Flat(w)[s] = WornAt(w, s) /\ (s[1] \in Seen => FlatSeen(w)[s] = WornAt(w, s))
    BY DEF Flat, FlatSeen, SeenAt
  <1>5. InPlaces(Flat(w), m) \in Nat /\ InPlaces(FlatSeen(w), m) \in Nat
    BY <1>1, SpotsFinite, CountType
  <1> DEFINE new == Wear(w, s, x)
  <1> HIDE DEF new
  <1>6. Worn(new, m) = InPlaces(Flat(w), m) - OneIf(WornAt(w, s), m) + OneIf(x, m)
    <2>1. Flat(new) = [Flat(w) EXCEPT ![s] = x] /\ Worn(new, m) = InPlaces(Flat(new), m)
      BY <1>2, <1>3 DEF new
    <2>2. /\ Flat(new) \in [Spots -> Piece] /\ Flat(new)[s] = x
          /\ \A t \in Spots : t # s => Flat(new)[t] = Flat(w)[t]
      BY <1>1, <2>1
    <2>3. InPlaces(Flat(new), m) =
            InPlaces(Flat(w), m) - OneIf(Flat(w)[s], m) + OneIf(Flat(new)[s], m)
      <3>1. IsFiniteSet(Spots)
        BY SpotsFinite
      <3>2. Flat(w) \in [Spots -> Piece]
        BY <1>1
      <3>3. QED
        BY <2>2, <3>1, <3>2, CountUpdate
    <2>4. QED
      BY <1>4, <2>1, <2>2, <2>3
  <1>7. ASSUME s[1] \in Seen
        PROVE  SeenWorn(new, m) =
                 SeenWorn(w, m) - OneIf(WornAt(w, s), m) + OneIf(x, m)
    <2>1. FlatSeen(new) = [FlatSeen(w) EXCEPT ![s] = x]
      BY <1>2, <1>7 DEF new
    <2>2. /\ FlatSeen(new) \in [Spots -> Piece] /\ FlatSeen(new)[s] = x
          /\ \A t \in Spots : t # s => FlatSeen(new)[t] = FlatSeen(w)[t]
      BY <1>1, <2>1
    <2>3. InPlaces(FlatSeen(new), m) =
            InPlaces(FlatSeen(w), m) - OneIf(FlatSeen(w)[s], m)
                                     + OneIf(FlatSeen(new)[s], m)
      <3>1. IsFiniteSet(Spots)
        BY SpotsFinite
      <3>2. FlatSeen(w) \in [Spots -> Piece]
        BY <1>1
      <3>3. QED
        BY <2>2, <3>1, <3>2, CountUpdate
    <2>4. QED
      BY <1>4, <1>7, <2>2, <2>3 DEF SeenWorn
  <1>8. QED
    BY <1>1, <1>5, <1>6, <1>7 DEF SeenWorn, new

LEMMA PocketCounts ==
  ASSUME NEW pk \in AllPockets, NEW new \in AllPockets, NEW p \in Pocket, NEW m,
         \A q \in Pocket : q # p => new[q] = pk[q]
  PROVE  /\ InPlaces(pk, m) \in Nat
         /\ InPlaces(new, m) = InPlaces(pk, m) - OneIf(pk[p], m) + OneIf(new[p], m)
  <1>1. pk \in [Pocket -> Piece] /\ new \in [Pocket -> Piece] /\ IsFiniteSet(Pocket)
    BY SpotsFinite DEF AllPockets
  <1>2. InPlaces(pk, m) \in Nat
    BY <1>1, CountType
  <1>3. InPlaces(new, m) = InPlaces(pk, m) - OneIf(pk[p], m) + OneIf(new[p], m)
    BY <1>1, CountUpdate
  <1>4. QED
    BY <1>2, <1>3

\* A materia goes into the inventory, one more of it, or there is no place.
LEMMA PocketedIs ==
  ASSUME NEW pk \in AllPockets, NEW m \in Kinds
  PROVE  /\ Pocketed(pk, m) \in AllPockets
         /\ Full(pk) => Pocketed(pk, m) = pk
         /\ \A x \in Kinds : x # m => InPlaces(Pocketed(pk, m), x) = InPlaces(pk, x)
         /\ ~Full(pk) => InPlaces(Pocketed(pk, m), m) = InPlaces(pk, m) + 1
  <1> DEFINE free == {p \in Pocket : pk[p] = None}
  <1>1. Full(pk) <=> free = {}
    BY DEF Full
  <1>2. CASE free = {}
    BY <1>1, <1>2 DEF Pocketed
  <1>3. CASE free # {}
    <2>1. free \in SUBSET Nat
      BY ItemsAssumption DEF Pocket
    <2>2. Min(free) \in free
      BY <1>3, <2>1, LeastIs
    <2>3. Pocketed(pk, m) = [pk EXCEPT ![Min(free)] = m]
      BY <1>3 DEF Pocketed
    <2>4. Min(free) \in Pocket /\ pk[Min(free)] = None
      BY <2>2
    <2> DEFINE p == Min(free)
    <2> HIDE DEF p
    <2>5. p \in Pocket /\ pk[p] = None /\ Pocketed(pk, m) = [pk EXCEPT ![p] = m]
      BY <2>3, <2>4 DEF p
    <2>6. m \in Piece /\ None \notin Kinds
      BY ItemsAssumption DEF Piece
    <2> DEFINE new == [pk EXCEPT ![p] = m]
    <2>7. new \in AllPockets /\ new[p] = m /\ \A q \in Pocket : q # p => new[q] = pk[q]
      BY <2>5, <2>6 DEF AllPockets
    <2> HIDE DEF new
    <2>8. \A x : /\ InPlaces(pk, x) \in Nat
                 /\ InPlaces(new, x) = InPlaces(pk, x) - OneIf(pk[p], x) + OneIf(new[p], x)
      BY <2>5, <2>7, PocketCounts
    <2>9. Pocketed(pk, m) = new
      BY <2>5 DEF new
    <2>10. \A x \in Kinds : x # m => InPlaces(new, x) = InPlaces(pk, x)
      BY <2>5, <2>6, <2>7, <2>8 DEF OneIf
    <2>11. InPlaces(new, m) = InPlaces(pk, m) + 1
      BY <2>5, <2>6, <2>7, <2>8 DEF OneIf
    <2>12. QED
      BY <1>1, <1>3, <2>7, <2>9, <2>10, <2>11
  <1>4. QED
    BY <1>2, <1>3

----------------------------------------------------------------------------
(***************************************************************************)
(* What is offered to the thief: of each materia no more is taken than was *)
(* offered, and if less, what was taken is worth no less.                  *)
(***************************************************************************)
AllLoot == [Entry -> Piece]
Fits(lt, offered) ==
    \A m \in Kinds :
        /\ InPlaces(lt, m) <= offered[m]
        /\ InPlaces(lt, m) < offered[m] =>
              \A e \in Entry : lt[e] # None /\ Worth[lt[e]] >= Worth[m]

LEMMA LootCounts ==
  ASSUME NEW lt \in AllLoot, NEW new \in AllLoot, NEW e \in Entry, NEW m,
         \A d \in Entry : d # e => new[d] = lt[d]
  PROVE  /\ InPlaces(lt, m) \in Nat
         /\ InPlaces(new, m) = InPlaces(lt, m) - OneIf(lt[e], m) + OneIf(new[e], m)
  <1>1. lt \in [Entry -> Piece] /\ new \in [Entry -> Piece] /\ IsFiniteSet(Entry)
    BY SpotsFinite DEF AllLoot
  <1>2. InPlaces(lt, m) \in Nat
    BY <1>1, CountType
  <1>3. InPlaces(new, m) = InPlaces(lt, m) - OneIf(lt[e], m) + OneIf(new[e], m)
    BY <1>1, CountUpdate
  <1>4. QED
    BY <1>2, <1>3

\* An entry e is given to m: a free one, or that of the least valuable.
LEMMA OfferCases ==
  ASSUME NEW lt \in AllLoot, NEW m \in Kinds
  PROVE  /\ Offer(lt, m) \in AllLoot
         /\ \/ \E e \in Entry : lt[e] = None /\ Offer(lt, m) = [lt EXCEPT ![e] = m]
            \/ /\ Offer(lt, m) = lt
               /\ \A e \in Entry : lt[e] # None /\ Worth[m] < Worth[lt[e]]
            \/ \E e \in Entry : /\ Offer(lt, m) = [lt EXCEPT ![e] = m]
                                /\ Worth[lt[e]] <= Worth[m]
                                /\ \A d \in Entry : lt[d] # None /\ Worth[lt[e]] <= Worth[lt[d]]
  <1> DEFINE free == {e \in Entry : lt[e] = None}
             worths == {Worth[lt[e]] : e \in Entry}
             lowest == Min(worths)
             least == {e \in Entry : Worth[lt[e]] = lowest}
  <1>1. /\ Loot \in Nat \ {0} /\ None \notin Kinds /\ Worth \in [Kinds -> Nat]
        /\ Entry \subseteq Nat /\ 0 \in Entry /\ m \in Piece
    BY ItemsAssumption DEF Entry, Piece
  <1>2. \A e \in Entry : [lt EXCEPT ![e] = m] \in AllLoot
    BY <1>1 DEF AllLoot
  <1>3. CASE free # {}
    <2>1. free \in SUBSET Nat
      BY <1>1
    <2>2. Min(free) \in free
      BY <1>3, <2>1, LeastIs
    <2>3. Offer(lt, m) = [lt EXCEPT ![Min(free)] = m]
      BY <1>3 DEF Offer
    <2>4. Min(free) \in Entry /\ lt[Min(free)] = None
      BY <2>2
    <2>5. QED
      BY <1>2, <2>3, <2>4
  <1>4. CASE free = {}
    <2>1. \A e \in Entry : lt[e] # None /\ lt[e] \in Kinds /\ Worth[lt[e]] \in Nat
      BY <1>1, <1>4 DEF AllLoot, Piece
    <2>2. worths \in SUBSET Nat /\ worths # {}
      BY <1>1, <2>1
    <2>3. lowest \in worths /\ \A x \in worths : lowest <= x
      BY <2>2, LeastIs
    <2> HIDE DEF lowest
    <2>4. \A e \in Entry : lowest <= Worth[lt[e]]
      BY <2>3
    <2>5. lowest \in Nat
      BY <2>2, <2>3
    <2>6. CASE Worth[m] < lowest
      <3>1. Offer(lt, m) = lt
        BY <1>4, <2>6 DEF Offer, lowest
      <3>2. \A e \in Entry : Worth[m] < Worth[lt[e]]
        BY <1>1, <2>1, <2>4, <2>5, <2>6
      <3>3. QED
        BY <2>1, <3>1, <3>2
    <2>7. CASE ~(Worth[m] < lowest)
      <3>1. least \in SUBSET Nat /\ least # {}
        BY <1>1, <2>3
      <3>2. Min(least) \in least
        BY <3>1, LeastIs
      <3>3. Offer(lt, m) = [lt EXCEPT ![Min(least)] = m]
        BY <1>4, <2>7 DEF Offer, lowest
      <3>4. Min(least) \in Entry /\ Worth[lt[Min(least)]] = lowest
        BY <3>2
      <3>5. Worth[m] \in Nat /\ lowest <= Worth[m]
        BY <1>1, <2>5, <2>7
      <3> HIDE DEF least
      <3>6. QED
        BY <1>2, <2>1, <2>4, <3>3, <3>4, <3>5
    <2>8. QED
      BY <2>6, <2>7
  <1>5. QED
    BY <1>3, <1>4

LEMMA OfferFits ==
  ASSUME NEW lt \in AllLoot, NEW m \in Kinds,
         NEW offered \in [Kinds -> Nat], NEW more \in [Kinds -> Nat],
         more[m] = offered[m] + 1, \A x \in Kinds : x # m => more[x] = offered[x],
         Fits(lt, offered)
  PROVE  Offer(lt, m) \in AllLoot /\ Fits(Offer(lt, m), more)
  <1> DEFINE new == Offer(lt, m)
  <1>1. None \notin Kinds /\ Worth \in [Kinds -> Nat]
    BY ItemsAssumption
  <1>2. new \in AllLoot
    BY OfferCases
  <1> HIDE DEF new
  <1>3. \A x \in Kinds : Worth[x] \in Nat /\ offered[x] \in Nat /\ more[x] \in Nat
    BY <1>1
  <1>4. ASSUME NEW e \in Entry, new = [lt EXCEPT ![e] = m]
        PROVE  /\ new[e] = m /\ \A d \in Entry : d # e => new[d] = lt[d]
               /\ \A x \in Kinds : /\ InPlaces(lt, x) \in Nat
                                   /\ InPlaces(new, x) = InPlaces(lt, x) - OneIf(lt[e], x) + OneIf(m, x)
    <2>1. new[e] = m /\ \A d \in Entry : d # e => new[d] = lt[d]
      BY <1>4 DEF AllLoot
    <2>2. \A x : /\ InPlaces(lt, x) \in Nat
                 /\ InPlaces(new, x) = InPlaces(lt, x) - OneIf(lt[e], x) + OneIf(new[e], x)
      BY <1>2, <2>1, LootCounts
    <2>3. QED
      BY <2>1, <2>2
  <1>5. CASE \E e \in Entry : lt[e] = None /\ new = [lt EXCEPT ![e] = m]
    <2>1. PICK e \in Entry : lt[e] = None /\ new = [lt EXCEPT ![e] = m]
      BY <1>5
    <2>2. \A x \in Kinds : InPlaces(lt, x) = offered[x]
      <3>1. \A x \in Kinds : InPlaces(lt, x) <= offered[x] /\ ~(InPlaces(lt, x) < offered[x])
        BY <2>1 DEF Fits
      <3>2. \A x \in Kinds : InPlaces(lt, x) \in Nat /\ offered[x] \in Nat
        BY <1>3, <1>4, <2>1
      <3>3. QED
        BY <3>1, <3>2
    <2>3. ASSUME NEW x \in Kinds
          PROVE  InPlaces(new, x) = more[x]
      <3>1. InPlaces(new, x) = offered[x] - OneIf(lt[e], x) + OneIf(m, x)
        BY <1>4, <2>1, <2>2
      <3>2. OneIf(lt[e], x) = 0
        BY <1>1, <2>1 DEF OneIf
      <3>3. CASE x = m
        BY <1>3, <3>1, <3>2, <3>3 DEF OneIf
      <3>4. CASE x # m
        BY <1>3, <3>1, <3>2, <3>4 DEF OneIf
      <3>5. QED
        BY <3>3, <3>4
    <2>4. QED
      BY <1>2, <1>3, <2>3 DEF Fits, new
  <1>6. CASE new = lt /\ \A e \in Entry : lt[e] # None /\ Worth[m] < Worth[lt[e]]
    <2>1. \A e \in Entry : lt[e] \in Kinds /\ Worth[lt[e]] >= Worth[m]
      BY <1>1, <1>3, <1>6 DEF AllLoot, Piece
    <2>2. \A x \in Kinds : InPlaces(lt, x) \in Nat
      <3>1. lt \in [Entry -> Piece] /\ IsFiniteSet(Entry)
        BY SpotsFinite DEF AllLoot
      <3>2. QED
        BY <3>1, CountType
    <2>3. ASSUME NEW x \in Kinds
          PROVE  /\ InPlaces(lt, x) <= more[x]
                 /\ InPlaces(lt, x) < more[x] =>
                       \A e \in Entry : lt[e] # None /\ Worth[lt[e]] >= Worth[x]
      <3>1. CASE x = m
        <4>1. InPlaces(lt, m) <= offered[m]
          BY DEF Fits
        <4>2. QED
          BY <1>3, <1>6, <2>1, <2>2, <3>1, <4>1
      <3>2. CASE x # m
        BY <3>2 DEF Fits
      <3>3. QED
        BY <3>1, <3>2
    <2>4. QED
      BY <1>2, <1>6, <2>3 DEF Fits, new
  <1>7. CASE \E e \in Entry : /\ new = [lt EXCEPT ![e] = m]
                              /\ Worth[lt[e]] <= Worth[m]
                              /\ \A d \in Entry : lt[d] # None /\ Worth[lt[e]] <= Worth[lt[d]]
    <2>1. PICK e \in Entry : /\ new = [lt EXCEPT ![e] = m]
                             /\ Worth[lt[e]] <= Worth[m]
                             /\ \A d \in Entry : lt[d] # None /\ Worth[lt[e]] <= Worth[lt[d]]
      BY <1>7
    <2>2. \A d \in Entry : lt[d] \in Kinds /\ Worth[lt[d]] \in Nat
      BY <1>1, <2>1 DEF AllLoot, Piece
    <2>3. /\ new[e] = m /\ \A d \in Entry : d # e => new[d] = lt[d]
          /\ \A x \in Kinds : /\ InPlaces(lt, x) \in Nat
                              /\ InPlaces(new, x) = InPlaces(lt, x) - OneIf(lt[e], x) + OneIf(m, x)
      BY <1>4, <2>1
    <2> DEFINE y == lt[e]
    <2>4. y \in Kinds /\ Worth[y] \in Nat /\ Worth[y] <= Worth[m]
      BY <2>1, <2>2
    \* All there is now is worth no less than what has gone.
    <2>5. \A d \in Entry : new[d] # None /\ new[d] \in Kinds /\ Worth[new[d]] >= Worth[y]
      <3> SUFFICES ASSUME NEW d \in Entry
                   PROVE  new[d] # None /\ new[d] \in Kinds /\ Worth[new[d]] >= Worth[y]
        OBVIOUS
      <3>1. CASE d = e
        BY <1>1, <1>3, <2>3, <2>4, <3>1
      <3>2. CASE d # e
        BY <2>1, <2>2, <2>3, <2>4, <3>2
      <3>3. QED
        BY <3>1, <3>2
    <2>6. ASSUME NEW x \in Kinds, \A d \in Entry : lt[d] # None /\ Worth[lt[d]] >= Worth[x]
          PROVE  \A d \in Entry : new[d] # None /\ Worth[new[d]] >= Worth[x]
      <3>1. Worth[y] >= Worth[x]
        BY <2>6
      <3> HIDE DEF y
      <3>2. QED
        BY <1>3, <2>4, <2>5, <3>1
    <2>7. ASSUME NEW x \in Kinds
          PROVE  /\ InPlaces(new, x) <= more[x]
                 /\ InPlaces(new, x) < more[x] =>
                       \A d \in Entry : new[d] # None /\ Worth[new[d]] >= Worth[x]
      <3>1. /\ InPlaces(lt, x) <= offered[x] /\ InPlaces(lt, x) \in Nat
            /\ InPlaces(lt, x) < offered[x] =>
                  \A d \in Entry : lt[d] # None /\ Worth[lt[d]] >= Worth[x]
        BY <2>3 DEF Fits
      <3>2. InPlaces(new, x) = InPlaces(lt, x) - OneIf(y, x) + OneIf(m, x)
        BY <2>3
      <3> HIDE DEF y
      <3>3. CASE x = y
        <4>1. OneIf(y, x) = 1 /\ OneIf(m, x) \in {0, 1} /\ (x # m => OneIf(m, x) = 0)
          BY <3>3 DEF OneIf
        <4>2. \A d \in Entry : new[d] # None /\ Worth[new[d]] >= Worth[x]
          BY <2>5, <3>3
        <4>3. more[x] >= offered[x] /\ InPlaces(new, x) <= InPlaces(lt, x)
          BY <1>3, <3>1, <3>2, <4>1
        <4>4. InPlaces(new, x) \in Int
          BY <3>1, <3>2, <4>1
        <4>5. QED
          BY <1>3, <3>1, <4>2, <4>3, <4>4
      <3>4. CASE x # y /\ x = m
        <4>1. OneIf(y, x) = 0 /\ OneIf(m, x) = 1
          BY <3>4 DEF OneIf
        <4>2. InPlaces(new, x) = InPlaces(lt, x) + 1 /\ more[x] = offered[x] + 1
          BY <3>1, <3>2, <3>4, <4>1
        <4>3. InPlaces(new, x) < more[x] => InPlaces(lt, x) < offered[x]
          BY <1>3, <3>1, <4>2
        <4>4. QED
          BY <1>3, <2>6, <3>1, <4>2, <4>3
      <3>5. CASE x # y /\ x # m
        <4>1. OneIf(y, x) = 0 /\ OneIf(m, x) = 0
          BY <3>5 DEF OneIf
        <4>2. InPlaces(new, x) = InPlaces(lt, x) /\ more[x] = offered[x]
          BY <3>1, <3>2, <3>5, <4>1
        <4>3. QED
          BY <2>6, <3>1, <4>2
      <3>6. QED
        BY <3>3, <3>4, <3>5
    <2>8. QED
      BY <1>2, <2>7 DEF Fits, new
  <1>8. QED
    BY <1>5, <1>6, <1>7, OfferCases DEF new

\* Offering a list: what has been offered grows by what is in the list.
LEMMA OffersFit ==
  ASSUME NEW lt \in AllLoot, NEW ms \in Seq(Piece), NEW offered \in [Kinds -> Nat],
         Fits(lt, offered)
  PROVE  /\ Each(Offering, lt, ms) \in AllLoot
         /\ Fits(Each(Offering, lt, ms), [m \in Kinds |-> offered[m] + UpTo(ms, Len(ms), m)])
  <1> DEFINE N == Len(ms)
             So(n) == [m \in Kinds |-> offered[m] + UpTo(ms, n, m)]
             Good == {x \in Nat \X AllLoot : x[1] <= N /\ Fits(x[2], So(x[1]))}
  <1>1. N \in Nat /\ \A n \in 1 .. N : ms[n] \in Piece
    OBVIOUS
  <1>2. None \notin Kinds /\ Piece = Kinds \cup {None}
    BY ItemsAssumption DEF Piece
  <1>3. /\ \A m \in Kinds : UpTo(ms, 0, m) = 0
        /\ \A n \in 0 .. N, m \in Kinds : UpTo(ms, n, m) \in Nat
        /\ \A n \in 1 .. N, m \in Kinds : UpTo(ms, n, m) = UpTo(ms, n - 1, m) + OneIf(ms[n], m)
    BY <1>1, OneMore DEF OneIf
  <1>4. Offering \in [AllLoot \X Kinds -> AllLoot] /\ \A l \in AllLoot, m \in Kinds : Offering[<<l, m>>] = Offer(l, m)
    <2>1. Offering = [x \in AllLoot \X Kinds |-> Offer(x[1], x[2])]
      BY DEF Offering, AllLoot
    <2>2. QED
      BY <2>1, OfferCases
  <1>5. <<0, lt>> \in Good
    <2>1. So(0) = offered
      BY <1>3
    <2> HIDE DEF So
    <2>2. QED
      BY <1>1, <2>1
  <1>6. ASSUME NEW n \in 1 .. N, NEW l \in AllLoot, <<n - 1, l>> \in Good
        PROVE  <<n, IF ms[n] = None THEN l ELSE Offering[<<l, ms[n]>>]>> \in Good
    <2>1. n \in Nat /\ n <= N /\ n - 1 \in 0 .. N /\ n \in 0 .. N /\ Fits(l, So(n - 1))
      BY <1>1, <1>6
    <2>2. /\ So(n - 1) \in [Kinds -> Nat] /\ So(n) \in [Kinds -> Nat]
          /\ \A m \in Kinds : So(n)[m] = So(n - 1)[m] + OneIf(ms[n], m)
      <3>1. \A m \in Kinds : /\ offered[m] \in Nat /\ UpTo(ms, n, m) \in Nat /\ UpTo(ms, n - 1, m) \in Nat
                             /\ UpTo(ms, n, m) = UpTo(ms, n - 1, m) + OneIf(ms[n], m)
                             /\ OneIf(ms[n], m) \in {0, 1}
        BY <1>3, <2>1 DEF OneIf
      <3>2. \A m \in Kinds : offered[m] + UpTo(ms, n, m) = offered[m] + UpTo(ms, n - 1, m) + OneIf(ms[n], m)
        BY <3>1
      <3>3. QED
        BY <3>1, <3>2
    <2> HIDE DEF So
    <2>3. CASE ms[n] = None
      <3>1. \A m \in Kinds : OneIf(ms[n], m) = 0
        BY <1>2, <2>3 DEF OneIf
      <3>2. \A m \in Kinds : So(n - 1)[m] \in Nat /\ So(n)[m] = So(n - 1)[m]
        BY <2>2, <3>1
      <3>3. So(n) = So(n - 1)
        BY <2>2, <3>2
      <3>4. QED
        BY <2>1, <2>3, <3>3
    <2>4. CASE ms[n] # None
      <3> DEFINE m == ms[n]
                 b == So(n - 1)
                 c == So(n)
      <3>1. m \in Kinds
        BY <1>1, <1>2, <2>4
      <3>2. b \in [Kinds -> Nat] /\ c \in [Kinds -> Nat] /\ Fits(l, b)
            /\ \A x \in Kinds : c[x] = b[x] + OneIf(m, x)
        BY <2>1, <2>2
      <3> HIDE DEF b, c, m
      <3>3. c[m] = b[m] + 1
        BY <3>1, <3>2 DEF OneIf
      <3>4. \A x \in Kinds : x # m => c[x] = b[x]
        BY <3>1, <3>2 DEF OneIf
      <3>5. Offer(l, m) \in AllLoot /\ Fits(Offer(l, m), c)
        BY <3>1, <3>2, <3>3, <3>4, OfferFits
      <3>6. Offering[<<l, m>>] = Offer(l, m)
        BY <1>4, <3>1
      <3>7. QED
        BY <2>1, <2>4, <3>5, <3>6 DEF m, c
    <2>5. QED
      BY <2>3, <2>4
  <1>7. Each(Offering, lt, ms) \in AllLoot /\ <<Len(ms), Each(Offering, lt, ms)>> \in Good
    <2>1. \A n \in 1 .. Len(ms), s \in AllLoot : <<n - 1, s>> \in Good =>
             <<n, IF ms[n] = None THEN s ELSE Offering[<<s, ms[n]>>]>> \in Good
      BY <1>6
    <2>2. ms \in Seq(Kinds \cup {None})
      BY <1>2
    <2> HIDE DEF Good
    <2>3. QED
      BY <1>2, <1>4, <1>5, <2>1, <2>2, EachKeeps
  <1>8. QED
    BY <1>7

----------------------------------------------------------------------------
(***************************************************************************)
(* What is taken is removed, piece by piece.                               *)
(***************************************************************************)
InReach(h, m) == SeenWorn(h.worn, m) + InPlaces(h.pockets, m)
InHand(h, m) == Worn(h.worn, m) + InPlaces(h.pockets, m)

LEMMA HandsCount ==
  ASSUME NEW h \in Hands, NEW m
  PROVE  /\ h.worn \in AllWorn /\ h.pockets \in AllPockets
         /\ SeenWorn(h.worn, m) \in Nat /\ Worn(h.worn, m) \in Nat /\ InPlaces(h.pockets, m) \in Nat
         /\ InReach(h, m) \in Nat /\ InHand(h, m) \in Nat
  <1>1. h.worn \in AllWorn /\ h.pockets \in AllPockets
    BY DEF Hands, AllWorn, AllPockets
  <1>2. /\ Flat(h.worn) \in [Spots -> Piece] /\ FlatSeen(h.worn) \in [Spots -> Piece]
        /\ Worn(h.worn, m) = InPlaces(Flat(h.worn), m)
    BY <1>1, FlatIs
  <1>3. InPlaces(Flat(h.worn), m) \in Nat /\ InPlaces(FlatSeen(h.worn), m) \in Nat
    BY <1>2, SpotsFinite, CountType
  <1>4. h.pockets \in [Pocket -> Piece]
    BY <1>1 DEF AllPockets
  <1>5. InPlaces(h.pockets, m) \in Nat
    BY <1>4, SpotsFinite, CountType
  <1>6. QED
    BY <1>1, <1>2, <1>3, <1>5 DEF SeenWorn, InReach, InHand

\* A slot of a visible character, or a place, is emptied; or there is none.
LEMMA RemoveCases ==
  ASSUME NEW h \in Hands, NEW m \in Kinds
  PROVE  \/ \E s \in Spots : /\ s[1] \in Seen /\ WornAt(h.worn, s) = m
                             /\ RemovePiece(h, m) = [h EXCEPT !.worn = Wear(h.worn, s, None)]
         \/ \E p \in Pocket : /\ h.pockets[p] = m
                              /\ RemovePiece(h, m) = [h EXCEPT !.pockets[p] = None]
         \/ RemovePiece(h, m) = h /\ InReach(h, m) = 0
  <1> DEFINE found == {n \in 1 .. Len(Upwards) : SeenAt(h.worn, Upwards[n]) = m}
             there == {p \in Pocket : h.pockets[p] = m}
  <1>1. None # m
    BY ItemsAssumption
  <1>2. CASE found # {}
    <2>1. Len(Upwards) \in Nat /\ found \in SUBSET Nat
      BY UpwardsIs
    <2>2. Min(found) \in found
      BY <1>2, <2>1, LeastIs
    <2>3. Min(found) \in 1 .. AllSpots /\ SeenAt(h.worn, Upwards[Min(found)]) = m
      BY <2>2, UpwardsIs
    <2>4. Upwards[Min(found)] \in Spots
      BY <2>3, UpwardsIs
    <2>5. Upwards[Min(found)][1] \in Seen /\ WornAt(h.worn, Upwards[Min(found)]) = m
      BY <1>1, <2>3 DEF SeenAt
    <2>6. RemovePiece(h, m) = [h EXCEPT !.worn = Wear(h.worn, Upwards[Min(found)], None)]
      BY <1>2 DEF RemovePiece
    <2> HIDE DEF found
    <2>7. QED
      BY <2>4, <2>5, <2>6
  <1>3. CASE found = {} /\ there # {}
    <2>1. there \in SUBSET Nat
      BY ItemsAssumption DEF Pocket
    <2>2. Min(there) \in there
      BY <1>3, <2>1, LeastIs
    <2>3. Min(there) \in Pocket /\ h.pockets[Min(there)] = m
      BY <2>2
    <2>4. RemovePiece(h, m) = [h EXCEPT !.pockets[Min(there)] = None]
      BY <1>3 DEF RemovePiece
    <2> HIDE DEF there
    <2>5. QED
      BY <2>3, <2>4
  <1>4. CASE found = {} /\ there = {}
    <2>1. RemovePiece(h, m) = h
      BY <1>4 DEF RemovePiece
    <2>2. \A s \in Spots : FlatSeen(h.worn)[s] # m
      BY <1>4, UpwardsIs DEF FlatSeen
    <2>3. \A p \in Pocket : h.pockets[p] # m
      BY <1>4
    <2>4. FlatSeen(h.worn) \in [Spots -> Piece] /\ h.pockets \in [Pocket -> Piece]
      BY HandsCount, FlatIs DEF AllPockets
    <2>5. InPlaces(FlatSeen(h.worn), m) = 0 /\ InPlaces(h.pockets, m) = 0
      BY <2>2, <2>3, <2>4, SpotsFinite, CountType
    <2>6. QED
      BY <2>1, <2>5 DEF InReach, SeenWorn
  <1>5. QED
    BY <1>2, <1>3, <1>4

LEMMA RemoveIs ==
  ASSUME NEW h \in Hands, NEW m \in Kinds
  PROVE  /\ RemovePiece(h, m) \in Hands
         /\ \A x \in Kinds : x # m => /\ InReach(RemovePiece(h, m), x) = InReach(h, x)
                                      /\ InHand(RemovePiece(h, m), x) = InHand(h, x)
         /\ InReach(h, m) > 0 => /\ InReach(RemovePiece(h, m), m) = InReach(h, m) - 1
                                 /\ InHand(RemovePiece(h, m), m) = InHand(h, m) - 1
  <1> DEFINE new == RemovePiece(h, m)
  <1>1. m # None /\ None \in Piece /\ \A x \in Kinds : x # None
    BY ItemsAssumption DEF Piece
  <1>2. h.worn \in AllWorn /\ h.pockets \in AllPockets
    BY HandsCount
  <1>3. \A x : SeenWorn(h.worn, x) \in Nat /\ Worn(h.worn, x) \in Nat /\ InPlaces(h.pockets, x) \in Nat
    BY HandsCount
  <1> HIDE DEF new
  <1>4. CASE \E s \in Spots : /\ s[1] \in Seen /\ WornAt(h.worn, s) = m
                              /\ new = [h EXCEPT !.worn = Wear(h.worn, s, None)]
    <2>1. PICK s \in Spots : /\ s[1] \in Seen /\ WornAt(h.worn, s) = m
                             /\ new = [h EXCEPT !.worn = Wear(h.worn, s, None)]
      BY <1>4
    <2>2. Wear(h.worn, s, None) \in AllWorn
      BY <1>1, <1>2, WearIs
    <2>3. new \in Hands /\ new.worn = Wear(h.worn, s, None) /\ new.pockets = h.pockets
      BY <2>1, <2>2 DEF Hands, AllWorn
    <2>4. \A x : /\ Worn(new.worn, x) = Worn(h.worn, x) - OneIf(m, x) + OneIf(None, x)
                 /\ SeenWorn(new.worn, x) = SeenWorn(h.worn, x) - OneIf(m, x) + OneIf(None, x)
      BY <1>1, <1>2, <2>1, <2>3, WearCounts
    <2>5. \A x \in Kinds : OneIf(None, x) = 0 /\ (x # m => OneIf(m, x) = 0)
      BY <1>1 DEF OneIf
    <2>6. OneIf(m, m) = 1
      BY DEF OneIf
    <2>7. \A x \in Kinds : /\ InReach(new, x) = InReach(h, x) - OneIf(m, x)
                           /\ InHand(new, x) = InHand(h, x) - OneIf(m, x)
                           /\ OneIf(m, x) \in {0, 1} /\ InReach(h, x) \in Nat /\ InHand(h, x) \in Nat
      <3>1. \A x : OneIf(m, x) \in {0, 1}
        BY DEF OneIf
      <3>2. QED
        BY <1>3, <2>3, <2>4, <2>5, <3>1 DEF InReach, InHand
    <2>8. QED
      BY <2>3, <2>5, <2>6, <2>7 DEF new
  <1>5. CASE \E p \in Pocket : /\ h.pockets[p] = m
                               /\ new = [h EXCEPT !.pockets[p] = None]
    <2>1. PICK p \in Pocket : h.pockets[p] = m /\ new = [h EXCEPT !.pockets[p] = None]
      BY <1>5
    <2>2. /\ new \in Hands /\ new.worn = h.worn
          /\ new.pockets \in AllPockets /\ new.pockets[p] = None
          /\ \A q \in Pocket : q # p => new.pockets[q] = h.pockets[q]
      BY <1>1, <2>1 DEF Hands, AllPockets
    <2>3. ASSUME NEW x
          PROVE  InPlaces(new.pockets, x) = InPlaces(h.pockets, x) - OneIf(m, x) + OneIf(None, x)
      <3> DEFINE a == h.pockets
                 b == new.pockets
      <3>1. /\ a \in AllPockets /\ b \in AllPockets /\ a[p] = m /\ b[p] = None
            /\ \A q \in Pocket : q # p => b[q] = a[q]
        BY <1>2, <2>1, <2>2
      <3> HIDE DEF a, b
      <3>2. InPlaces(b, x) = InPlaces(a, x) - OneIf(a[p], x) + OneIf(b[p], x)
        BY <3>1, PocketCounts
      <3>3. QED
        BY <3>1, <3>2 DEF a, b
    <2>4. \A x \in Kinds : OneIf(None, x) = 0 /\ (x # m => OneIf(m, x) = 0)
      BY <1>1 DEF OneIf
    <2>5. OneIf(m, m) = 1
      BY DEF OneIf
    <2>6. \A x \in Kinds : /\ InReach(new, x) = InReach(h, x) - OneIf(m, x)
                           /\ InHand(new, x) = InHand(h, x) - OneIf(m, x)
                           /\ OneIf(m, x) \in {0, 1} /\ InReach(h, x) \in Nat /\ InHand(h, x) \in Nat
      <3>1. \A x : OneIf(m, x) \in {0, 1}
        BY DEF OneIf
      <3>2. QED
        BY <1>3, <2>2, <2>3, <2>4, <3>1 DEF InReach, InHand
    <2>7. QED
      BY <2>2, <2>4, <2>5, <2>6 DEF new
  <1>6. CASE new = h /\ InReach(h, m) = 0
    BY <1>6 DEF new
  <1>7. QED
    BY <1>4, <1>5, <1>6, RemoveCases DEF new

\* Removing a list of which there is enough.
LEMMA RemovesEach ==
  ASSUME NEW h \in Hands, NEW ms \in Seq(Piece),
         \A m \in Kinds : UpTo(ms, Len(ms), m) <= InReach(h, m)
  PROVE  /\ Each(Removing, h, ms) \in Hands
         /\ \A m \in Kinds : /\ InReach(Each(Removing, h, ms), m) + UpTo(ms, Len(ms), m) = InReach(h, m)
                             /\ InHand(Each(Removing, h, ms), m) + UpTo(ms, Len(ms), m) = InHand(h, m)
  <1> DEFINE N == Len(ms)
             Holds(n, x) == \A m \in Kinds : /\ InReach(x, m) + UpTo(ms, n, m) = InReach(h, m)
                                             /\ InHand(x, m) + UpTo(ms, n, m) = InHand(h, m)
             Good == {x \in Nat \X Hands : x[1] <= N /\ Holds(x[1], x[2])}
  <1>1. N \in Nat /\ \A n \in 1 .. N : ms[n] \in Piece
    OBVIOUS
  <1>2. None \notin Kinds /\ Piece = Kinds \cup {None}
    BY ItemsAssumption DEF Piece
  <1>3. /\ \A m \in Kinds : UpTo(ms, 0, m) = 0
        /\ \A n \in 0 .. N, m \in Kinds : UpTo(ms, n, m) \in Nat /\ UpTo(ms, n, m) <= UpTo(ms, N, m)
        /\ \A n \in 1 .. N, m \in Kinds : UpTo(ms, n, m) = UpTo(ms, n - 1, m) + OneIf(ms[n], m)
    BY <1>1, OneMore DEF OneIf
  <1>4. /\ Removing \in [Hands \X Kinds -> Hands]
        /\ \A x \in Hands, m \in Kinds : Removing[<<x, m>>] = RemovePiece(x, m)
    <2>1. Removing = [x \in Hands \X Kinds |-> RemovePiece(x[1], x[2])]
      BY DEF Removing
    <2>2. QED
      BY <2>1, RemoveIs
  <1>5. <<0, h>> \in Good
    <2>1. \A m \in Kinds : InReach(h, m) \in Nat /\ InHand(h, m) \in Nat
      BY HandsCount
    <2>2. QED
      BY <1>1, <1>3, <2>1
  <1>6. ASSUME NEW n \in 1 .. N, NEW x \in Hands, <<n - 1, x>> \in Good
        PROVE  <<n, IF ms[n] = None THEN x ELSE Removing[<<x, ms[n]>>]>> \in Good
    <2>1. n \in Nat /\ n <= N /\ n - 1 \in 0 .. N /\ n \in 0 .. N /\ Holds(n - 1, x)
      BY <1>1, <1>6
    <2>2. \A m \in Kinds : /\ UpTo(ms, n, m) \in Nat /\ UpTo(ms, n - 1, m) \in Nat
                           /\ UpTo(ms, n, m) <= InReach(h, m)
                           /\ UpTo(ms, n, m) = UpTo(ms, n - 1, m) + OneIf(ms[n], m)
                           /\ InReach(x, m) \in Nat /\ InHand(x, m) \in Nat
                           /\ InReach(h, m) \in Nat /\ InHand(h, m) \in Nat
                           /\ InReach(x, m) + UpTo(ms, n - 1, m) = InReach(h, m)
                           /\ InHand(x, m) + UpTo(ms, n - 1, m) = InHand(h, m)
      <3>1. \A m \in Kinds : UpTo(ms, n, m) <= UpTo(ms, N, m) /\ UpTo(ms, n, m) \in Nat
                             /\ UpTo(ms, N, m) \in Nat /\ UpTo(ms, N, m) <= InReach(h, m)
        BY <1>1, <1>3, <2>1
      <3>2. \A m \in Kinds : /\ InReach(x, m) \in Nat /\ InHand(x, m) \in Nat
                             /\ InReach(h, m) \in Nat /\ InHand(h, m) \in Nat
        BY HandsCount
      <3>3. \A m \in Kinds : UpTo(ms, n, m) <= InReach(h, m)
        BY <3>1, <3>2
      <3>4. QED
        BY <1>3, <2>1, <3>1, <3>2, <3>3
    <2>3. CASE ms[n] = None
      <3>1. \A m \in Kinds : OneIf(ms[n], m) = 0
        BY <1>2, <2>3 DEF OneIf
      <3>2. \A m \in Kinds : UpTo(ms, n, m) = UpTo(ms, n - 1, m)
        BY <2>2, <3>1
      <3>3. Holds(n, x)
        BY <2>2, <3>2
      <3>4. QED
        BY <2>1, <2>3, <3>3
    <2>4. CASE ms[n] # None
      <3> DEFINE k == ms[n]
                 new == RemovePiece(x, k)
      <3>1. k \in Kinds
        BY <1>1, <1>2, <2>4
      <3>2. new \in Hands /\ Removing[<<x, k>>] = new
        BY <1>4, <3>1, RemoveIs
      <3>3. /\ \A m \in Kinds : m # k => InReach(new, m) = InReach(x, m) /\ InHand(new, m) = InHand(x, m)
            /\ InReach(x, k) > 0 => /\ InReach(new, k) = InReach(x, k) - 1
                                    /\ InHand(new, k) = InHand(x, k) - 1
        BY <3>1, RemoveIs
      <3>4. OneIf(k, k) = 1 /\ \A m \in Kinds : m # k => OneIf(k, m) = 0
        BY DEF OneIf
      <3> HIDE DEF new
      <3>5. ASSUME NEW m \in Kinds
            PROVE  /\ InReach(new, m) + UpTo(ms, n, m) = InReach(h, m)
                   /\ InHand(new, m) + UpTo(ms, n, m) = InHand(h, m)
        <4>1. CASE m = k
          <5>1. /\ UpTo(ms, n, k) \in Nat /\ UpTo(ms, n - 1, k) \in Nat /\ InReach(x, k) \in Nat
                /\ InHand(x, k) \in Nat /\ UpTo(ms, n, k) <= InReach(h, k)
                /\ InReach(x, k) + UpTo(ms, n - 1, k) = InReach(h, k)
                /\ InHand(x, k) + UpTo(ms, n - 1, k) = InHand(h, k)
                /\ UpTo(ms, n, k) = UpTo(ms, n - 1, k) + OneIf(k, k)
            BY <2>2, <3>1
          <5>2. UpTo(ms, n, k) = UpTo(ms, n - 1, k) + 1 /\ InReach(x, k) > 0
            BY <3>4, <5>1
          <5>3. QED
            BY <3>3, <4>1, <5>1, <5>2
        <4>2. CASE m # k
          <5>1. UpTo(ms, n, m) = UpTo(ms, n - 1, m)
            BY <2>2, <3>4, <4>2
          <5>2. QED
            BY <2>2, <3>3, <4>2, <5>1
        <4>3. QED
          BY <4>1, <4>2
      <3>6. QED
        BY <2>1, <2>4, <3>2, <3>5
    <2>5. QED
      BY <2>3, <2>4
  <1>7. Each(Removing, h, ms) \in Hands /\ <<Len(ms), Each(Removing, h, ms)>> \in Good
    <2>1. \A n \in 1 .. Len(ms), s \in Hands : <<n - 1, s>> \in Good =>
             <<n, IF ms[n] = None THEN s ELSE Removing[<<s, ms[n]>>]>> \in Good
      BY <1>6
    <2>2. ms \in Seq(Kinds \cup {None})
      BY <1>2
    <2> HIDE DEF Good
    <2>3. QED
      BY <1>2, <1>4, <1>5, <2>1, <2>2, EachKeeps
  <1>8. QED
    BY <1>7

----------------------------------------------------------------------------
(***************************************************************************)
(* What is given back: all of it, or what there is place for.              *)
(***************************************************************************)
LEMMA GiveIs ==
  ASSUME NEW h \in Hands, NEW m \in Kinds
  PROVE  /\ GiveBack(h, m) \in Hands
         /\ \A x \in Kinds : x # m => InHand(GiveBack(h, m), x) = InHand(h, x)
         /\ \/ GiveBack(h, m) = h /\ Full(h.pockets)
            \/ /\ InHand(GiveBack(h, m), m) = InHand(h, m) + 1
               /\ Full(h.pockets) => Full(GiveBack(h, m).pockets)
  <1> DEFINE new == GiveBack(h, m)
             fits == {n \in 1 .. Len(Downwards) :
                        LET s == Downwards[n] IN /\ s[1] \in Seen /\ WornAt(h.worn, s) = None
                                                 /\ s[3] \in Slots[gear[s[1]][s[2]]]}
  <1>1. m # None /\ m \in Piece /\ \A x \in Kinds : x # None
    BY ItemsAssumption DEF Piece
  <1>2. h.worn \in AllWorn /\ h.pockets \in AllPockets
    BY HandsCount
  <1>3. \A x : Worn(h.worn, x) \in Nat /\ InPlaces(h.pockets, x) \in Nat
    BY HandsCount
  <1>4. CASE fits # {}
    <2>1. fits \in SUBSET Nat
      OBVIOUS
    <2>2. Min(fits) \in fits
      BY <1>4, <2>1, LeastIs
    <2> DEFINE s == Downwards[Min(fits)]
    <2>3. s \in Spots /\ WornAt(h.worn, s) = None
      BY <2>2, DownwardsIs
    <2>4. new = [h EXCEPT !.worn = Wear(h.worn, s, m)]
      BY <1>4 DEF GiveBack
    <2> HIDE DEF s, new, fits
    <2>5. Wear(h.worn, s, m) \in AllWorn
      BY <1>1, <1>2, <2>3, WearIs
    <2>6. new \in Hands /\ new.worn = Wear(h.worn, s, m) /\ new.pockets = h.pockets
      BY <2>4, <2>5 DEF Hands, AllWorn
    <2>7. \A x : Worn(new.worn, x) = Worn(h.worn, x) - OneIf(None, x) + OneIf(m, x)
      BY <1>1, <1>2, <2>3, <2>6, WearCounts
    <2>8. \A x \in Kinds : OneIf(None, x) = 0 /\ (x # m => OneIf(m, x) = 0)
      BY <1>1 DEF OneIf
    <2>9. OneIf(m, m) = 1
      BY DEF OneIf
    <2>10. \A x \in Kinds : x # m => InHand(new, x) = InHand(h, x)
      BY <1>3, <2>6, <2>7, <2>8 DEF InHand
    <2>11. InHand(new, m) = InHand(h, m) + 1
      BY <1>3, <2>6, <2>7, <2>8, <2>9 DEF InHand
    <2>12. QED
      BY <2>6, <2>10, <2>11 DEF new
  <1>5. CASE fits = {}
    <2> DEFINE pk == Pocketed(h.pockets, m)
    <2>1. new = [h EXCEPT !.pockets = pk]
      BY <1>5 DEF GiveBack
    <2>2. /\ pk \in AllPockets
          /\ Full(h.pockets) => pk = h.pockets
          /\ \A x \in Kinds : x # m => InPlaces(pk, x) = InPlaces(h.pockets, x)
          /\ ~Full(h.pockets) => InPlaces(pk, m) = InPlaces(h.pockets, m) + 1
      BY <1>2, PocketedIs
    <2> HIDE DEF pk, new, fits
    <2>3. new \in Hands /\ new.worn = h.worn /\ new.pockets = pk
      BY <2>1, <2>2 DEF Hands, AllPockets
    <2>4. \A x \in Kinds : x # m => InHand(new, x) = InHand(h, x)
      BY <2>2, <2>3 DEF InHand
    <2>5. CASE Full(h.pockets)
      <3>1. new = h
        BY <2>1, <2>2, <2>5 DEF Hands
      <3>2. QED
        BY <2>3, <2>4, <2>5, <3>1 DEF new
    <2>6. CASE ~Full(h.pockets)
      <3>1. InHand(new, m) = InHand(h, m) + 1
        BY <1>3, <2>2, <2>3, <2>6 DEF InHand
      <3>2. QED
        BY <2>3, <2>4, <2>6, <3>1 DEF new
    <2>7. QED
      BY <2>5, <2>6
  <1>6. QED
    BY <1>4, <1>5

LEMMA GivesEach ==
  ASSUME NEW h \in Hands, NEW ms \in Seq(Piece)
  PROVE  /\ Each(GivingBack, h, ms) \in Hands
         /\ \A m \in Kinds :
              /\ InHand(Each(GivingBack, h, ms), m) <= InHand(h, m) + UpTo(ms, Len(ms), m)
              /\ InHand(Each(GivingBack, h, ms), m) < InHand(h, m) + UpTo(ms, Len(ms), m) =>
                    Full(Each(GivingBack, h, ms).pockets)
  <1> DEFINE N == Len(ms)
             Holds(n, x) == \A m \in Kinds :
                              /\ InHand(x, m) <= InHand(h, m) + UpTo(ms, n, m)
                              /\ InHand(x, m) < InHand(h, m) + UpTo(ms, n, m) => Full(x.pockets)
             Good == {x \in Nat \X Hands : x[1] <= N /\ Holds(x[1], x[2])}
  <1>1. N \in Nat /\ \A n \in 1 .. N : ms[n] \in Piece
    OBVIOUS
  <1>2. None \notin Kinds /\ Piece = Kinds \cup {None}
    BY ItemsAssumption DEF Piece
  <1>3. /\ \A m \in Kinds : UpTo(ms, 0, m) = 0
        /\ \A n \in 0 .. N, m \in Kinds : UpTo(ms, n, m) \in Nat
        /\ \A n \in 1 .. N, m \in Kinds : UpTo(ms, n, m) = UpTo(ms, n - 1, m) + OneIf(ms[n], m)
    BY <1>1, OneMore DEF OneIf
  <1>4. /\ GivingBack \in [Hands \X Kinds -> Hands]
        /\ \A x \in Hands, m \in Kinds : GivingBack[<<x, m>>] = GiveBack(x, m)
    <2>1. GivingBack = [x \in Hands \X Kinds |-> GiveBack(x[1], x[2])]
      BY DEF GivingBack
    <2>2. QED
      BY <2>1, GiveIs
  <1>5. <<0, h>> \in Good
    <2>1. \A m \in Kinds : InHand(h, m) \in Nat
      BY HandsCount
    <2>2. QED
      BY <1>1, <1>3, <2>1
  <1>6. ASSUME NEW n \in 1 .. N, NEW x \in Hands, <<n - 1, x>> \in Good
        PROVE  <<n, IF ms[n] = None THEN x ELSE GivingBack[<<x, ms[n]>>]>> \in Good
    <2>1. n \in Nat /\ n <= N /\ n - 1 \in 0 .. N /\ n \in 0 .. N /\ Holds(n - 1, x)
      BY <1>1, <1>6
    <2>2. ASSUME NEW m \in Kinds
          PROVE  /\ UpTo(ms, n, m) \in Nat /\ UpTo(ms, n - 1, m) \in Nat
                 /\ InHand(x, m) \in Nat /\ InHand(h, m) \in Nat
                 /\ UpTo(ms, n, m) = UpTo(ms, n - 1, m) + OneIf(ms[n], m)
                 /\ InHand(x, m) <= InHand(h, m) + UpTo(ms, n - 1, m)
                 /\ InHand(x, m) < InHand(h, m) + UpTo(ms, n - 1, m) => Full(x.pockets)
      <3>1. InHand(x, m) \in Nat /\ InHand(h, m) \in Nat
        BY HandsCount
      <3>2. QED
        BY <1>3, <2>1, <3>1
    <2>3. CASE ms[n] = None
      <3>1. \A m \in Kinds : OneIf(ms[n], m) = 0
        BY <1>2, <2>3 DEF OneIf
      <3>2. \A m \in Kinds : UpTo(ms, n, m) = UpTo(ms, n - 1, m)
        BY <2>2, <3>1
      <3>3. Holds(n, x)
        BY <2>2, <3>2
      <3>4. QED
        BY <2>1, <2>3, <3>3
    <2>4. CASE ms[n] # None
      <3> DEFINE k == ms[n]
                 new == GiveBack(x, k)
      <3>1. k \in Kinds
        BY <1>1, <1>2, <2>4
      <3>2. new \in Hands /\ GivingBack[<<x, k>>] = new
        BY <1>4, <3>1, GiveIs
      <3>3. /\ \A m \in Kinds : m # k => InHand(new, m) = InHand(x, m)
            /\ \/ new = x /\ Full(x.pockets)
               \/ InHand(new, k) = InHand(x, k) + 1 /\ (Full(x.pockets) => Full(new.pockets))
        BY <3>1, GiveIs
      <3>4. OneIf(k, k) = 1 /\ \A m \in Kinds : m # k => OneIf(k, m) = 0
        BY DEF OneIf
      <3>5. Full(x.pockets) => Full(new.pockets)
        BY <3>3
      <3> HIDE DEF new
      <3>6. ASSUME NEW m \in Kinds
            PROVE  /\ InHand(new, m) <= InHand(h, m) + UpTo(ms, n, m)
                   /\ InHand(new, m) < InHand(h, m) + UpTo(ms, n, m) => Full(new.pockets)
        <4>1. CASE m = k
          <5>1. UpTo(ms, n, m) = UpTo(ms, n - 1, m) + 1
            BY <2>2, <3>1, <3>4, <4>1
          <5>2. CASE new = x /\ Full(x.pockets)
            BY <2>2, <5>1, <5>2
          <5>3. CASE InHand(new, k) = InHand(x, k) + 1
            BY <2>2, <3>5, <4>1, <5>1, <5>3
          <5>4. QED
            BY <3>3, <5>2, <5>3
        <4>2. CASE m # k
          <5>1. UpTo(ms, n, m) = UpTo(ms, n - 1, m)
            BY <2>2, <3>4, <4>2
          <5>2. QED
            BY <2>2, <3>3, <3>5, <4>2, <5>1
        <4>3. QED
          BY <4>1, <4>2
      <3>7. QED
        BY <2>1, <2>4, <3>2, <3>6
    <2>5. QED
      BY <2>3, <2>4
  <1>7. Each(GivingBack, h, ms) \in Hands /\ <<Len(ms), Each(GivingBack, h, ms)>> \in Good
    <2>1. \A n \in 1 .. Len(ms), s \in Hands : <<n - 1, s>> \in Good =>
             <<n, IF ms[n] = None THEN s ELSE GivingBack[<<s, ms[n]>>]>> \in Good
      BY <1>6
    <2>2. ms \in Seq(Kinds \cup {None})
      BY <1>2
    <2> HIDE DEF Good
    <2>3. QED
      BY <1>2, <1>4, <1>5, <2>1, <2>2, EachKeeps
  <1>8. QED
    BY <1>7

LEMMA PocketsEach ==
  ASSUME NEW pk \in AllPockets, NEW ms \in Seq(Piece)
  PROVE  /\ Each(Pocketing, pk, ms) \in AllPockets
         /\ \A m \in Kinds :
              /\ InPlaces(pk, m) \in Nat /\ InPlaces(Each(Pocketing, pk, ms), m) \in Nat
              /\ InPlaces(pk, m) <= InPlaces(Each(Pocketing, pk, ms), m)
              /\ InPlaces(Each(Pocketing, pk, ms), m) <= InPlaces(pk, m) + UpTo(ms, Len(ms), m)
              /\ InPlaces(Each(Pocketing, pk, ms), m) < InPlaces(pk, m) + UpTo(ms, Len(ms), m) =>
                    Full(Each(Pocketing, pk, ms))
  <1> DEFINE N == Len(ms)
             Holds(n, x) == \A m \in Kinds :
                              /\ InPlaces(pk, m) <= InPlaces(x, m)
                              /\ InPlaces(x, m) <= InPlaces(pk, m) + UpTo(ms, n, m)
                              /\ InPlaces(x, m) < InPlaces(pk, m) + UpTo(ms, n, m) => Full(x)
             Good == {x \in Nat \X AllPockets : x[1] <= N /\ Holds(x[1], x[2])}
  <1>1. N \in Nat /\ \A n \in 1 .. N : ms[n] \in Piece
    OBVIOUS
  <1>2. None \notin Kinds /\ Piece = Kinds \cup {None}
    BY ItemsAssumption DEF Piece
  <1>3. /\ \A m \in Kinds : UpTo(ms, 0, m) = 0
        /\ \A n \in 0 .. N, m \in Kinds : UpTo(ms, n, m) \in Nat
        /\ \A n \in 1 .. N, m \in Kinds : UpTo(ms, n, m) = UpTo(ms, n - 1, m) + OneIf(ms[n], m)
    BY <1>1, OneMore DEF OneIf
  <1>4. /\ Pocketing \in [AllPockets \X Kinds -> AllPockets]
        /\ \A x \in AllPockets, m \in Kinds : Pocketing[<<x, m>>] = Pocketed(x, m)
    <2>1. Pocketing = [x \in AllPockets \X Kinds |-> Pocketed(x[1], x[2])]
      BY DEF Pocketing, AllPockets
    <2>2. QED
      BY <2>1, PocketedIs
  <1>5. \A x \in AllPockets, m \in Kinds : InPlaces(x, m) \in Nat
    <2> SUFFICES ASSUME NEW x \in AllPockets, NEW m \in Kinds PROVE InPlaces(x, m) \in Nat
      OBVIOUS
    <2>1. x \in [Pocket -> Piece]
      BY DEF AllPockets
    <2>2. QED
      BY <2>1, SpotsFinite, CountType
  <1>6. <<0, pk>> \in Good
    BY <1>1, <1>3, <1>5
  <1>7. ASSUME NEW n \in 1 .. N, NEW x \in AllPockets, <<n - 1, x>> \in Good
        PROVE  <<n, IF ms[n] = None THEN x ELSE Pocketing[<<x, ms[n]>>]>> \in Good
    <2>1. n \in Nat /\ n <= N /\ n - 1 \in 0 .. N /\ n \in 0 .. N /\ Holds(n - 1, x)
      BY <1>1, <1>7
    <2>2. ASSUME NEW m \in Kinds
          PROVE  /\ UpTo(ms, n, m) \in Nat /\ UpTo(ms, n - 1, m) \in Nat
                 /\ InPlaces(x, m) \in Nat /\ InPlaces(pk, m) \in Nat
                 /\ UpTo(ms, n, m) = UpTo(ms, n - 1, m) + OneIf(ms[n], m)
                 /\ InPlaces(pk, m) <= InPlaces(x, m)
                 /\ InPlaces(x, m) <= InPlaces(pk, m) + UpTo(ms, n - 1, m)
                 /\ InPlaces(x, m) < InPlaces(pk, m) + UpTo(ms, n - 1, m) => Full(x)
      BY <1>3, <1>5, <2>1
    <2>3. CASE ms[n] = None
      <3>1. \A m \in Kinds : OneIf(ms[n], m) = 0
        BY <1>2, <2>3 DEF OneIf
      <3>2. \A m \in Kinds : UpTo(ms, n, m) = UpTo(ms, n - 1, m)
        BY <2>2, <3>1
      <3>3. Holds(n, x)
        BY <2>2, <3>2
      <3>4. QED
        BY <2>1, <2>3, <3>3
    <2>4. CASE ms[n] # None
      <3> DEFINE k == ms[n]
                 new == Pocketed(x, k)
      <3>1. k \in Kinds
        BY <1>1, <1>2, <2>4
      <3>2. new \in AllPockets /\ Pocketing[<<x, k>>] = new
        BY <1>4, <3>1, PocketedIs
      <3>3. /\ \A m \in Kinds : m # k => InPlaces(new, m) = InPlaces(x, m)
            /\ Full(x) => new = x
            /\ ~Full(x) => InPlaces(new, k) = InPlaces(x, k) + 1
        BY <3>1, PocketedIs
      <3>4. OneIf(k, k) = 1 /\ \A m \in Kinds : m # k => OneIf(k, m) = 0
        BY DEF OneIf
      <3> HIDE DEF new
      <3>5. ASSUME NEW m \in Kinds
            PROVE  /\ InPlaces(pk, m) <= InPlaces(new, m)
                   /\ InPlaces(new, m) <= InPlaces(pk, m) + UpTo(ms, n, m)
                   /\ InPlaces(new, m) < InPlaces(pk, m) + UpTo(ms, n, m) => Full(new)
        <4>1. CASE m = k
          <5>1. UpTo(ms, n, m) = UpTo(ms, n - 1, m) + 1
            BY <2>2, <3>1, <3>4, <4>1
          <5>2. CASE Full(x)
            BY <2>2, <3>3, <5>1, <5>2
          <5>3. CASE ~Full(x)
            BY <2>2, <3>3, <4>1, <5>1, <5>3
          <5>4. QED
            BY <5>2, <5>3
        <4>2. CASE m # k
          <5>1. UpTo(ms, n, m) = UpTo(ms, n - 1, m)
            BY <2>2, <3>4, <4>2
          <5>2. QED
            BY <2>2, <3>3, <4>2, <5>1
        <4>3. QED
          BY <4>1, <4>2
      <3>6. QED
        BY <2>1, <2>4, <3>2, <3>5
    <2>5. QED
      BY <2>3, <2>4
  <1>8. Each(Pocketing, pk, ms) \in AllPockets /\ <<Len(ms), Each(Pocketing, pk, ms)>> \in Good
    <2>1. \A n \in 1 .. Len(ms), s \in AllPockets : <<n - 1, s>> \in Good =>
             <<n, IF ms[n] = None THEN s ELSE Pocketing[<<s, ms[n]>>]>> \in Good
      BY <1>7
    <2>2. ms \in Seq(Kinds \cup {None})
      BY <1>2
    <2> HIDE DEF Good
    <2>3. QED
      BY <1>2, <1>4, <1>6, <2>1, <2>2, EachKeeps
  <1>9. QED
    BY <1>5, <1>8

----------------------------------------------------------------------------
(***************************************************************************)
(* A list of what is in places has as many of a materia as the places.     *)
(***************************************************************************)
LEMMA ListCounts ==
  ASSUME NEW N \in Nat, NEW D, NEW at, OneToOne(at, 1 .. N, D),
         NEW f \in [D -> Piece], NEW ms, \A n \in 1 .. N : ms[n] = f[at[n]], NEW m
  PROVE  UpTo(ms, N, m) = InPlaces(f, m)
  <1> DEFINE S == {n \in 1 .. N : ms[n] = m}
             T == {d \in D : f[d] = m}
             g == [n \in S |-> at[n]]
  <1>1. UpTo(ms, N, m) = Cardinality(S) /\ InPlaces(f, m) = Cardinality(T)
    BY DEF UpTo, InPlaces
  <1>2. OneToOne(g, S, T)
    BY DEF OneToOne
  <1>3. IsFiniteSet(1 .. N) /\ S \in SUBSET (1 .. N)
    BY FS_Interval
  <1> HIDE DEF S, T, g
  <1>4. IsFiniteSet(S)
    BY <1>3, FS_Subset
  <1>5. Cardinality(T) = Cardinality(S)
    BY <1>2, <1>4, AsMany
  <1>6. QED
    BY <1>1, <1>5

LEMMA OnThemCounts ==
  ASSUME NEW w \in AllWorn
  PROVE  OnThem(w) \in Seq(Piece) /\ \A m : UpTo(OnThem(w), Len(OnThem(w)), m) = SeenWorn(w, m)
  <1>1. /\ AllSpots \in Nat /\ Len(Upwards) = AllSpots /\ Upwards \in [1 .. AllSpots -> Spots]
        /\ \A n, k \in 1 .. AllSpots : Upwards[n] = Upwards[k] => n = k
        /\ \A s \in Spots : \E n \in 1 .. AllSpots : Upwards[n] = s
    BY UpwardsIs
  <1>2. FlatSeen(w) \in [Spots -> Piece]
    BY FlatIs
  <1>3. \A n \in 1 .. AllSpots : OnThem(w)[n] = FlatSeen(w)[Upwards[n]]
    BY <1>1 DEF OnThem, FlatSeen
  <1>4. OnThem(w) \in [1 .. AllSpots -> Piece]
    <2>1. OnThem(w) = [n \in 1 .. AllSpots |-> SeenAt(w, Upwards[n])]
      BY <1>1 DEF OnThem
    <2>2. \A n \in 1 .. AllSpots : SeenAt(w, Upwards[n]) \in Piece
      BY <1>1, <1>2 DEF FlatSeen
    <2>3. QED
      BY <2>1, <2>2
  <1>5. OnThem(w) \in Seq(Piece) /\ Len(OnThem(w)) = AllSpots
    BY <1>1, <1>4, AList
  <1>6. ASSUME NEW m
        PROVE  UpTo(OnThem(w), AllSpots, m) = InPlaces(FlatSeen(w), m)
    <2> DEFINE f == FlatSeen(w)
               ms == OnThem(w)
               at == Upwards
    <2> HIDE DEF f, ms, at
    <2>1. /\ AllSpots \in Nat /\ OneToOne(at, 1 .. AllSpots, Spots) /\ f \in [Spots -> Piece]
          /\ \A n \in 1 .. AllSpots : ms[n] = f[at[n]]
      BY <1>1, <1>2, <1>3 DEF f, ms, at, OneToOne
    <2>2. UpTo(ms, AllSpots, m) = InPlaces(f, m)
      BY <2>1, ListCounts
    <2>3. QED
      BY <2>2 DEF f, ms
  <1>7. QED
    BY <1>5, <1>6 DEF SeenWorn

\* Places 0 .. N - 1, and the list of what is in them.
LEMMA RowCounts ==
  ASSUME NEW N \in Nat, NEW f \in [0 .. N - 1 -> Piece], NEW ms, ms = [n \in 1 .. N |-> f[n - 1]]
  PROVE  /\ ms \in Seq(Piece) /\ Len(ms) = N
         /\ \A m : UpTo(ms, Len(ms), m) = InPlaces(f, m)
  <1> DEFINE at == [n \in 1 .. N |-> n - 1]
             D == 0 .. N - 1
  <1>1. \A d \in D : d + 1 \in 1 .. N /\ at[d + 1] = d
    OBVIOUS
  <1>2. OneToOne(at, 1 .. N, D) /\ \A n \in 1 .. N : ms[n] = f[at[n]]
    BY <1>1 DEF OneToOne
  <1>3. ms \in [1 .. N -> Piece]
    OBVIOUS
  <1>4. ms \in Seq(Piece) /\ Len(ms) = N
    BY <1>3, AList
  <1>5. f \in [D -> Piece]
    OBVIOUS
  <1> HIDE DEF at, D
  <1>6. ASSUME NEW m
        PROVE  UpTo(ms, N, m) = InPlaces(f, m)
    BY <1>2, <1>5, ListCounts
  <1>7. QED
    BY <1>4, <1>6

LEMMA StockCounts ==
  ASSUME NEW pk \in AllPockets
  PROVE  InStock(pk) \in Seq(Piece) /\ \A m : UpTo(InStock(pk), Len(InStock(pk)), m) = InPlaces(pk, m)
  <1>1. Pockets \in Nat /\ pk \in [0 .. Pockets - 1 -> Piece]
    BY ItemsAssumption DEF AllPockets, Pocket
  <1> DEFINE ms == InStock(pk)
  <1>2. ms = [n \in 1 .. Pockets |-> pk[n - 1]]
    BY DEF InStock
  <1> HIDE DEF ms
  <1>3. ms \in Seq(Piece) /\ \A m : UpTo(ms, Len(ms), m) = InPlaces(pk, m)
    BY <1>1, <1>2, RowCounts
  <1>4. QED
    BY <1>3 DEF ms

LEMMA LootListCounts ==
  ASSUME NEW lt \in AllLoot
  PROVE  InLoot(lt) \in Seq(Piece) /\ \A m : UpTo(InLoot(lt), Len(InLoot(lt)), m) = InPlaces(lt, m)
  <1>1. Loot \in Nat /\ lt \in [0 .. Loot - 1 -> Piece]
    BY ItemsAssumption DEF AllLoot, Entry
  <1> DEFINE ms == InLoot(lt)
  <1>2. ms = [n \in 1 .. Loot |-> lt[n - 1]]
    BY DEF InLoot
  <1> HIDE DEF ms
  <1>3. ms \in Seq(Piece) /\ \A m : UpTo(ms, Len(ms), m) = InPlaces(lt, m)
    BY <1>1, <1>2, RowCounts
  <1>4. QED
    BY <1>3 DEF ms

----------------------------------------------------------------------------
(***************************************************************************)
(* What one character wears.                                               *)
(***************************************************************************)
OnOne(v, m) == Cardinality({s \in Gear \X Slot : v[s[1]][s[2]] = m})
ListOne(w, c) == [n \in 1 .. PerChar |-> WornAt(w, SpotOf(c, n - 1))]

\* The slots of one among the slots of all.
LEMMA OneAmongAll ==
  ASSUME NEW w \in AllWorn, NEW c \in Chars, NEW m
  PROVE  LET S == {s \in Spots : s[1] = c /\ WornAt(w, s) = m}
         IN  IsFiniteSet(S) /\ OnOne(w[c], m) = Cardinality(S) /\ OnOne(w[c], m) \in Nat
  <1> DEFINE S == {s \in Spots : s[1] = c /\ WornAt(w, s) = m}
             T == {s \in Gear \X Slot : w[c][s[1]][s[2]] = m}
             g == [s \in S |-> <<s[2], s[3]>>]
  <1>1. \A s \in S : <<s[2], s[3]>> \in T /\ s = <<c, s[2], s[3]>>
    BY DEF Spots, WornAt
  <1>2. \A t \in T : <<c, t[1], t[2]>> \in S /\ <<t[1], t[2]>> = t
    BY DEF Spots, WornAt
  <1>3. S \in SUBSET Spots
    OBVIOUS
  <1> HIDE DEF S, T
  <1>4. OneToOne(g, S, T)
    BY <1>1, <1>2 DEF OneToOne
  <1> HIDE DEF g
  <1>5. IsFiniteSet(S) /\ Cardinality(S) \in Nat
    BY <1>3, SpotsFinite, FS_Subset, FS_CardinalityType
  <1>6. Cardinality(T) = Cardinality(S)
    BY <1>4, <1>5, AsMany
  <1>7. QED
    BY <1>5, <1>6 DEF S, T, OnOne

\* All that is worn: by one, and by the others.
LEMMA WornParts ==
  ASSUME NEW w \in AllWorn, NEW c \in Chars, NEW m
  PROVE  LET O == {s \in Spots : s[1] # c /\ WornAt(w, s) = m}
         IN  Cardinality(O) \in Nat /\ Worn(w, m) = Cardinality(O) + OnOne(w[c], m)
  <1> DEFINE O == {s \in Spots : s[1] # c /\ WornAt(w, s) = m}
             S == {s \in Spots : s[1] = c /\ WornAt(w, s) = m}
             A == {s \in Spots : WornAt(w, s) = m}
  <1>1. A = O \cup S /\ O \cap S = {} /\ O \in SUBSET Spots /\ S \in SUBSET Spots
    OBVIOUS
  <1>2. Worn(w, m) = Cardinality(A)
    BY DEF Worn
  <1>3. OnOne(w[c], m) = Cardinality(S)
    BY OneAmongAll
  <1> HIDE DEF O, S, A
  <1>4. IsFiniteSet(O) /\ IsFiniteSet(S)
    BY <1>1, SpotsFinite, FS_Subset
  <1>5. /\ Cardinality(O \cup S) = Cardinality(O) + Cardinality(S)
        /\ Cardinality(O) \in Nat /\ Cardinality(S) \in Nat
    BY <1>1, <1>4, TwoParts
  <1>6. QED
    BY <1>1, <1>2, <1>3, <1>5 DEF O

LEMMA WearAll ==
  ASSUME NEW w \in AllWorn, NEW new \in AllWorn, NEW c \in Chars, NEW m,
         \A d \in Chars : d # c => new[d] = w[d]
  PROVE  /\ OnOne(w[c], m) \in Nat /\ OnOne(new[c], m) \in Nat
         /\ Worn(w, m) \in Nat /\ Worn(new, m) \in Nat
         /\ Worn(new, m) = Worn(w, m) - OnOne(w[c], m) + OnOne(new[c], m)
  <1> DEFINE O == {s \in Spots : s[1] # c /\ WornAt(w, s) = m}
             P == {s \in Spots : s[1] # c /\ WornAt(new, s) = m}
  <1>1. \A s \in Spots : s[1] # c => WornAt(new, s) = WornAt(w, s)
    BY DEF Spots, WornAt
  <1>2. O = P
    BY <1>1
  <1>3. Cardinality(O) \in Nat /\ Worn(w, m) = Cardinality(O) + OnOne(w[c], m)
    BY WornParts
  <1>4. Worn(new, m) = Cardinality(P) + OnOne(new[c], m)
    BY WornParts
  <1> HIDE DEF O, P
  <1>5. OnOne(w[c], m) \in Nat /\ OnOne(new[c], m) \in Nat
    BY OneAmongAll
  <1>6. QED
    BY <1>2, <1>3, <1>4, <1>5

LEMMA BareIs ==
  Bare \in WornOf /\ \A m \in Kinds : OnOne(Bare, m) = 0
  <1>1. None \notin Kinds /\ None \in Piece
    BY ItemsAssumption DEF Piece
  <1>2. Bare \in WornOf
    BY <1>1 DEF Bare, WornOf
  <1>3. ASSUME NEW m \in Kinds
        PROVE  OnOne(Bare, m) = 0
    <2>1. {s \in Gear \X Slot : Bare[s[1]][s[2]] = m} = {}
      BY <1>1 DEF Bare
    <2>2. QED
      BY <2>1, FS_EmptySet DEF OnOne
  <1>4. QED
    BY <1>2, <1>3

\* The list of what one wears, weapon first.
LEMMA ListOneCounts ==
  ASSUME NEW w \in AllWorn, NEW c \in Chars
  PROVE  /\ ListOne(w, c) \in Seq(Piece)
         /\ \A m : UpTo(ListOne(w, c), Len(ListOne(w, c)), m) = OnOne(w[c], m)
  <1> DEFINE D == {s \in Spots : s[1] = c}
             at == [n \in 1 .. PerChar |-> SpotOf(c, n - 1)]
             f == [s \in D |-> WornAt(w, s)]
             ms == ListOne(w, c)
  <1>1. /\ PerChar \in Nat \ {0}
        /\ \A r \in 0 .. PerChar - 1 : SpotOf(c, r) \in Spots /\ SpotOf(c, r)[1] = c
        /\ \A r, t \in 0 .. PerChar - 1 : SpotOf(c, r) = SpotOf(c, t) => r = t
        /\ \A s \in Spots : \E r \in 0 .. PerChar - 1 : SpotOf(s[1], r) = s
    BY SpotIs
  <1>2. \A n \in 1 .. PerChar : n - 1 \in 0 .. PerChar - 1
    BY <1>1
  <1>3. at \in [1 .. PerChar -> D]
    BY <1>1, <1>2
  <1>4. \A n, k \in 1 .. PerChar : at[n] = at[k] => n = k
    <2> SUFFICES ASSUME NEW n \in 1 .. PerChar, NEW k \in 1 .. PerChar, at[n] = at[k]
                 PROVE  n = k
      OBVIOUS
    <2>1. n - 1 = k - 1
      BY <1>1, <1>2
    <2>2. QED
      BY <1>1, <2>1
  <1>5. \A d \in D : \E n \in 1 .. PerChar : at[n] = d
    <2> SUFFICES ASSUME NEW d \in D PROVE \E n \in 1 .. PerChar : at[n] = d
      OBVIOUS
    <2>1. PICK r \in 0 .. PerChar - 1 : SpotOf(c, r) = d
      BY <1>1
    <2>2. r + 1 \in 1 .. PerChar /\ (r + 1) - 1 = r
      BY <1>1
    <2>3. at[r + 1] = d
      BY <2>1, <2>2
    <2>4. QED
      BY <2>2, <2>3
  <1>6. \A s \in D : WornAt(w, s) \in Piece
    BY DEF AllWorn, WornOf, Spots, WornAt
  <1>7. f \in [D -> Piece]
    BY <1>6
  <1>8. \A n \in 1 .. PerChar : ms[n] = f[at[n]] /\ ms[n] \in Piece
    BY <1>3, <1>6 DEF ListOne
  <1>9. ms \in [1 .. PerChar -> Piece]
    BY <1>8 DEF ListOne
  <1>10. ms \in Seq(Piece) /\ Len(ms) = PerChar
    <2> HIDE DEF ms
    <2>1. QED
      BY <1>1, <1>9, AList
  <1>11. ASSUME NEW m
         PROVE  InPlaces(f, m) = OnOne(w[c], m)
    <2>1. {d \in DOMAIN f : f[d] = m} = {s \in Spots : s[1] = c /\ WornAt(w, s) = m}
      OBVIOUS
    <2>2. OnOne(w[c], m) = Cardinality({s \in Spots : s[1] = c /\ WornAt(w, s) = m})
      BY OneAmongAll
    <2>3. InPlaces(f, m) = Cardinality({d \in DOMAIN f : f[d] = m})
      BY DEF InPlaces
    <2>4. QED
      BY <2>1, <2>2, <2>3
  <1>12. ASSUME NEW m
         PROVE  UpTo(ms, PerChar, m) = InPlaces(f, m)
    <2>1. /\ PerChar \in Nat /\ \A n \in 1 .. PerChar : ms[n] = f[at[n]]
          /\ OneToOne(at, 1 .. PerChar, D)
      BY <1>1, <1>3, <1>4, <1>5, <1>8 DEF OneToOne
    <2> HIDE DEF ms, f, at, D
    <2>2. QED
      BY <1>7, <2>1, ListCounts
  <1>13. QED
    BY <1>10, <1>11, <1>12

----------------------------------------------------------------------------
(***************************************************************************)
(* The first places of the inventory, which are set aside, and the others. *)
(***************************************************************************)
FirstOf(pk) == [p \in 0 .. Aside - 1 |-> pk[p]]
AllFirst == [0 .. Aside - 1 -> Piece]

LEMMA FirstCounts ==
  ASSUME NEW pk \in AllPockets, NEW new \in AllPockets, NEW first \in AllFirst, NEW m,
         \A p \in Pocket : new[p] = IF p < Aside THEN first[p] ELSE pk[p]
  PROVE  /\ InPlaces(first, m) \in Nat /\ InPlaces(FirstOf(pk), m) \in Nat
         /\ InPlaces(pk, m) \in Nat /\ InPlaces(new, m) \in Nat
         /\ InPlaces(new, m) = InPlaces(pk, m) - InPlaces(FirstOf(pk), m) + InPlaces(first, m)
  <1>1. Aside \in Nat /\ Pockets \in Nat /\ Aside <= Pockets
    BY ItemsAssumption
  <1>2. /\ \A p \in Pocket : p < Aside <=> p \in 0 .. Aside - 1
        /\ 0 .. Aside - 1 \subseteq Pocket
    BY <1>1 DEF Pocket
  <1>4. ASSUME NEW q \in AllPockets
        PROVE  LET O == {p \in Pocket : ~(p < Aside) /\ q[p] = m}
               IN  /\ Cardinality(O) \in Nat /\ InPlaces(FirstOf(q), m) \in Nat
                   /\ InPlaces(q, m) = Cardinality(O) + InPlaces(FirstOf(q), m)
    <2> DEFINE O == {p \in Pocket : ~(p < Aside) /\ q[p] = m}
               S == {p \in 0 .. Aside - 1 : q[p] = m}
               A == {p \in Pocket : q[p] = m}
    <2>1. A = O \cup S /\ O \cap S = {} /\ O \in SUBSET Pocket /\ S \in SUBSET Pocket
      BY <1>2
    <2>2. InPlaces(q, m) = Cardinality(A)
      BY DEF InPlaces, AllPockets
    <2>3. InPlaces(FirstOf(q), m) = Cardinality(S)
      <3>1. S = {p \in DOMAIN FirstOf(q) : FirstOf(q)[p] = m}
        BY DEF FirstOf
      <3>2. QED
        BY <3>1 DEF InPlaces
    <2> HIDE DEF O, S, A
    <2>4. IsFiniteSet(O) /\ IsFiniteSet(S)
      BY <2>1, SpotsFinite, FS_Subset
    <2>5. /\ Cardinality(O \cup S) = Cardinality(O) + Cardinality(S)
          /\ Cardinality(O) \in Nat /\ Cardinality(S) \in Nat
      BY <2>1, <2>4, TwoParts
    <2>6. QED
      BY <2>1, <2>2, <2>3, <2>5 DEF O
  <1>5. FirstOf(new) = first
    BY <1>2 DEF FirstOf, AllFirst
  <1> DEFINE O == {p \in Pocket : ~(p < Aside) /\ pk[p] = m}
             P == {p \in Pocket : ~(p < Aside) /\ new[p] = m}
  <1>6. O = P
    OBVIOUS
  <1>7. /\ Cardinality(O) \in Nat /\ InPlaces(FirstOf(pk), m) \in Nat
        /\ InPlaces(pk, m) = Cardinality(O) + InPlaces(FirstOf(pk), m)
    BY <1>4
  <1>8. /\ InPlaces(FirstOf(new), m) \in Nat
        /\ InPlaces(new, m) = Cardinality(P) + InPlaces(FirstOf(new), m)
    BY <1>4
  <1> HIDE DEF O, P
  <1>9. QED
    BY <1>5, <1>6, <1>7, <1>8

\* The inventory with its first places replaced, and those.
LEMMA FirstTypes ==
  ASSUME NEW pk \in AllPockets, NEW first \in AllFirst
  PROVE  /\ [p \in Pocket |-> IF p < Aside THEN first[p] ELSE pk[p]] \in AllPockets
         /\ FirstOf(pk) \in AllFirst
  <1>1. Aside \in Nat /\ Pockets \in Nat /\ Aside <= Pockets
    BY ItemsAssumption
  <1>2. /\ \A p \in Pocket : p < Aside <=> p \in 0 .. Aside - 1
        /\ 0 .. Aside - 1 \subseteq Pocket
    BY <1>1 DEF Pocket
  <1>3. QED
    BY <1>2 DEF AllPockets, AllFirst, FirstOf

----------------------------------------------------------------------------
(***************************************************************************)
(* The steps of the materia: what there is of each stays.                  *)
(***************************************************************************)
MateriaOK == /\ worn \in AllWorn /\ pockets \in AllPockets /\ loot \in AllLoot
             /\ holds = "aside" => aside.worn \in WornOf /\ aside.first \in AllFirst

InBuffer(held, lt, as, m) ==
    (IF held = "loot" THEN InPlaces(lt, m) ELSE 0)
    + (IF held = "aside" THEN InPlaces(as.first, m) + OnOne(as.worn, m) ELSE 0)

KeepsPieces ==
    \A m \in Kinds :
        /\ Pieces(m)' > Pieces(m) => UNCHANGED <<worn, loot, aside, holds>>
        /\ Pieces(m)' < Pieces(m) => \/ \A p \in Pocket : pockets'[p] # None
                                     \/ (holds = "aside" /\ holds' = "nothing")
TheftTakesBest ==
    holds' = "loot" /\ holds # "loot" =>
        \A m \in Left', e \in Entry : loot'[e] # None /\ Worth[loot'[e]] >= Worth[m]

LEMMA PlacesType ==
  ASSUME NEW m
  PROVE  /\ \A w \in AllWorn : Worn(w, m) \in Nat
         /\ \A pk \in AllPockets : InPlaces(pk, m) \in Nat
         /\ \A lt \in AllLoot : InPlaces(lt, m) \in Nat
  <1>1. ASSUME NEW w \in AllWorn
        PROVE  Worn(w, m) \in Nat
    <2>1. Flat(w) \in [Spots -> Piece] /\ Worn(w, m) = InPlaces(Flat(w), m)
      BY FlatIs
    <2>2. InPlaces(Flat(w), m) \in Nat
      BY <2>1, SpotsFinite, CountType
    <2>3. QED
      BY <2>1, <2>2
  <1>2. ASSUME NEW pk \in AllPockets
        PROVE  InPlaces(pk, m) \in Nat
    <2>1. pk \in [Pocket -> Piece]
      BY DEF AllPockets
    <2>2. QED
      BY <2>1, SpotsFinite, CountType
  <1>3. ASSUME NEW lt \in AllLoot
        PROVE  InPlaces(lt, m) \in Nat
    <2>1. lt \in [Entry -> Piece]
      BY DEF AllLoot
    <2>2. QED
      BY <2>1, SpotsFinite, CountType
  <1>4. QED
    BY <1>1, <1>2, <1>3

LEMMA OneType ==
  ASSUME NEW v \in WornOf, NEW m
  PROVE  OnOne(v, m) \in Nat
  <1> DEFINE w == [c \in Chars |-> v]
  <1>1. 0 \in Chars
    BY ItemsAssumption DEF Chars
  <1>2. w \in AllWorn /\ w[0] = v
    BY <1>1 DEF AllWorn
  <1> HIDE DEF w
  <1>3. OnOne(w[0], m) \in Nat
    BY <1>1, <1>2, OneAmongAll
  <1>4. QED
    BY <1>2, <1>3

LEMMA FirstType ==
  ASSUME NEW first \in AllFirst, NEW m
  PROVE  InPlaces(first, m) \in Nat
  <1>1. 0 \in Int /\ Aside - 1 \in Int
    BY ItemsAssumption
  <1>2. IsFiniteSet(0 .. Aside - 1) /\ first \in [0 .. Aside - 1 -> Piece]
    BY <1>1, FS_Interval DEF AllFirst
  <1>3. QED
    BY <1>2, CountType

LEMMA PiecesAre ==
  ASSUME MateriaOK, NEW m \in Kinds
  PROVE  /\ Pieces(m) = Worn(worn, m) + InPlaces(pockets, m) + InBuffer(holds, loot, aside, m)
         /\ Worn(worn, m) \in Nat /\ InPlaces(pockets, m) \in Nat
         /\ InBuffer(holds, loot, aside, m) \in Nat
  <1>1. Worn(worn, m) \in Nat /\ InPlaces(pockets, m) \in Nat /\ InPlaces(loot, m) \in Nat
    BY PlacesType DEF MateriaOK
  <1>2. holds = "aside" => InPlaces(aside.first, m) \in Nat /\ OnOne(aside.worn, m) \in Nat
    BY OneType, FirstType DEF MateriaOK
  <1> DEFINE a == IF holds = "loot" THEN InPlaces(loot, m) ELSE 0
             b == IF holds = "aside" THEN InPlaces(aside.first, m) + OnOne(aside.worn, m) ELSE 0
  <1>3. a \in Nat /\ b \in Nat
    BY <1>1, <1>2
  <1>4. InBuffer(holds, loot, aside, m) = a + b
    BY DEF InBuffer
  <1>5. Pieces(m) = Worn(worn, m) + InPlaces(pockets, m) + a + b
    BY DEF Pieces, OnOne
  <1> HIDE DEF a, b
  <1>6. QED
    BY <1>1, <1>3, <1>4, <1>5

\* With what the next state holds.
LEMMA PiecesNext ==
  ASSUME MateriaOK', NEW m \in Kinds
  PROVE  /\ Pieces(m)' = Worn(worn', m) + InPlaces(pockets', m) + InBuffer(holds', loot', aside', m)
         /\ Worn(worn', m) \in Nat /\ InPlaces(pockets', m) \in Nat
         /\ InBuffer(holds', loot', aside', m) \in Nat
  <1>1. Worn(worn', m) \in Nat /\ InPlaces(pockets', m) \in Nat /\ InPlaces(loot', m) \in Nat
    BY PlacesType DEF MateriaOK
  <1>2. holds' = "aside" => InPlaces(aside'.first, m) \in Nat /\ OnOne(aside'.worn, m) \in Nat
    BY OneType, FirstType DEF MateriaOK
  <1> DEFINE a == IF holds' = "loot" THEN InPlaces(loot', m) ELSE 0
             b == IF holds' = "aside" THEN InPlaces(aside'.first, m) + OnOne(aside'.worn, m) ELSE 0
  <1>3. a \in Nat /\ b \in Nat
    BY <1>1, <1>2
  <1>4. InBuffer(holds', loot', aside', m) = a + b
    BY DEF InBuffer
  <1>5. Pieces(m)' = Worn(worn', m) + InPlaces(pockets', m) + a + b
    BY DEF Pieces, OnOne
  <1> HIDE DEF a, b
  <1>6. QED
    BY <1>1, <1>3, <1>4, <1>5

LEMMA PiecesStay ==
  ASSUME MateriaOK, UNCHANGED pieces
  PROVE  MateriaOK' /\ KeepsPieces /\ TheftTakesBest
  <1>1. MateriaOK'
    BY DEF pieces, MateriaOK
  <1>2. ASSUME NEW m \in Kinds
        PROVE  Pieces(m)' = Pieces(m) /\ Pieces(m) \in Nat
    <2>1. Pieces(m) \in Nat
      BY PiecesAre
    <2>2. Pieces(m)' = Pieces(m)
      BY DEF pieces, Pieces
    <2>3. QED
      BY <2>1, <2>2
  <1>3. KeepsPieces
    BY <1>2 DEF KeepsPieces
  <1>4. QED
    BY <1>1, <1>3 DEF pieces, TheftTakesBest

\* The inventory gets more, or is full.
LEMMA SmtraKeeps ==
  ASSUME MateriaOK, NEW k \in Kinds, Smtra(k)
  PROVE  MateriaOK' /\ KeepsPieces /\ TheftTakesBest
  <1>1. /\ pockets' = Pocketed(pockets, k) /\ pockets \in AllPockets
        /\ worn' = worn /\ loot' = loot /\ aside' = aside /\ holds' = holds
    BY DEF Smtra, MateriaOK
  <1>2. /\ pockets' \in AllPockets
        /\ Full(pockets) => pockets' = pockets
        /\ \A x \in Kinds : x # k => InPlaces(pockets', x) = InPlaces(pockets, x)
        /\ ~Full(pockets) => InPlaces(pockets', k) = InPlaces(pockets, k) + 1
    BY <1>1, PocketedIs
  <1>3. MateriaOK'
    BY <1>1, <1>2 DEF MateriaOK
  <1>4. \A m \in Kinds : InPlaces(pockets', m) >= InPlaces(pockets, m)
    <2>1. \A m \in Kinds : InPlaces(pockets, m) \in Nat
      BY <1>1, PlacesType
    <2>2. QED
      BY <1>2, <2>1
  <1>5. ASSUME NEW m \in Kinds
        PROVE  ~(Pieces(m)' < Pieces(m))
    BY <1>1, <1>3, <1>4, PiecesAre, PiecesNext
  <1>6. QED
    BY <1>1, <1>3, <1>5 DEF KeepsPieces, TheftTakesBest

LEMMA FlmatKeeps ==
  ASSUME MateriaOK, Flmat
  PROVE  MateriaOK' /\ KeepsPieces /\ TheftTakesBest
  <1>1. /\ pockets' = Each(Pocketing, pockets, Basic) /\ pockets \in AllPockets
        /\ worn' = worn /\ loot' = loot /\ aside' = aside /\ holds' = holds
    BY DEF Flmat, MateriaOK
  <1>2. Basic \in Seq(Piece)
    BY ItemsAssumption DEF Piece
  <1>3. pockets' \in AllPockets /\ \A m \in Kinds : InPlaces(pockets, m) <= InPlaces(pockets', m)
    BY <1>1, <1>2, PocketsEach
  <1>4. MateriaOK'
    BY <1>1, <1>3 DEF MateriaOK
  <1>5. ASSUME NEW m \in Kinds
        PROVE  ~(Pieces(m)' < Pieces(m))
    BY <1>1, <1>3, <1>4, PiecesAre, PiecesNext
  <1>6. QED
    BY <1>1, <1>4, <1>5 DEF KeepsPieces, TheftTakesBest

\* What a character wore is in the inventory, or the inventory is full.
LEMMA UnequipKeeps ==
  ASSUME MateriaOK, NEW c \in Chars, UnequipCharacterMateria(c)
  PROVE  MateriaOK' /\ KeepsPieces /\ TheftTakesBest
  <1>1. /\ pockets' = Each(Pocketing, pockets, ListOne(worn, c)) /\ worn' = [worn EXCEPT ![c] = Bare]
        /\ loot' = loot /\ aside' = aside /\ holds' = holds
        /\ worn \in AllWorn /\ pockets \in AllPockets
    BY DEF UnequipCharacterMateria, ListOne, MateriaOK
  <1> DEFINE ms == ListOne(worn, c)
  <1>2. ms \in Seq(Piece) /\ \A m \in Kinds : UpTo(ms, Len(ms), m) = OnOne(worn[c], m)
    BY <1>1, ListOneCounts
  <1> HIDE DEF ms
  <1>3. /\ pockets' \in AllPockets
        /\ \A m \in Kinds : /\ InPlaces(pockets', m) <= InPlaces(pockets, m) + UpTo(ms, Len(ms), m)
                            /\ InPlaces(pockets', m) < InPlaces(pockets, m) + UpTo(ms, Len(ms), m) =>
                                  Full(pockets')
    BY <1>1, <1>2, PocketsEach DEF ms
  <1>4. worn' \in AllWorn /\ worn'[c] = Bare /\ \A d \in Chars : d # c => worn'[d] = worn[d]
    BY <1>1, BareIs DEF AllWorn
  <1>5. MateriaOK'
    BY <1>1, <1>3, <1>4 DEF MateriaOK
  <1>6. ASSUME NEW m \in Kinds
        PROVE  /\ ~(Pieces(m)' > Pieces(m))
               /\ Pieces(m)' < Pieces(m) => Full(pockets')
    <2> DEFINE one == OnOne(worn[c], m)
               new == worn'
    <2>6. /\ OnOne(worn[c], m) \in Nat /\ OnOne(new[c], m) \in Nat
          /\ Worn(worn, m) \in Nat /\ Worn(new, m) \in Nat
          /\ Worn(new, m) = Worn(worn, m) - OnOne(worn[c], m) + OnOne(new[c], m)
      <3>1. worn \in AllWorn /\ new \in AllWorn /\ \A d \in Chars : d # c => new[d] = worn[d]
        BY <1>1, <1>4
      <3> HIDE DEF new
      <3>2. QED
        BY <3>1, WearAll
    <2>7. new[c] = Bare /\ OnOne(Bare, m) = 0
      BY <1>4, BareIs
    <2>1. /\ one \in Nat /\ Worn(worn', m) = Worn(worn, m) - one
          /\ InPlaces(pockets', m) <= InPlaces(pockets, m) + one
          /\ InPlaces(pockets', m) < InPlaces(pockets, m) + one => Full(pockets')
      <3>1. one \in Nat /\ Worn(worn', m) = Worn(worn, m) - one
        BY <2>6, <2>7
      <3>2. QED
        BY <3>1, <1>2, <1>3
    <2> HIDE DEF one
    <2>2. InBuffer(holds', loot', aside', m) = InBuffer(holds, loot, aside, m)
      BY <1>1
    <2>3. /\ Pieces(m) = Worn(worn, m) + InPlaces(pockets, m) + InBuffer(holds, loot, aside, m)
          /\ Worn(worn, m) \in Nat /\ InPlaces(pockets, m) \in Nat
          /\ InBuffer(holds, loot, aside, m) \in Nat
      BY PiecesAre
    <2>4. /\ Pieces(m)' = Worn(worn', m) + InPlaces(pockets', m) + InBuffer(holds', loot', aside', m)
          /\ InPlaces(pockets', m) \in Nat
      BY <1>5, PiecesNext
    <2>5. QED
      BY <2>1, <2>2, <2>3, <2>4
  <1>7. QED
    BY <1>1, <1>5, <1>6 DEF KeepsPieces, TheftTakesBest, Full

\* All that is given back is there, or the inventory is full.
LEMMA ReturnKeeps ==
  ASSUME MateriaOK, ReturnStolenMateria
  PROVE  MateriaOK' /\ KeepsPieces /\ TheftTakesBest
  <1> DEFINE h0 == [worn |-> worn, pockets |-> pockets]
             ms == InLoot(loot)
             h == Each(GivingBack, h0, ms)
  <1>1. /\ holds = "loot" /\ holds' = "nothing" /\ worn' = h.worn /\ pockets' = h.pockets
        /\ loot' = loot /\ aside' = aside
        /\ worn \in AllWorn /\ pockets \in AllPockets /\ loot \in AllLoot
    BY DEF ReturnStolenMateria, MateriaOK
  <1>2. h0 \in Hands /\ h0.worn = worn /\ h0.pockets = pockets
    BY <1>1 DEF Hands, AllWorn, AllPockets
  <1>3. ms \in Seq(Piece) /\ \A m \in Kinds : UpTo(ms, Len(ms), m) = InPlaces(loot, m)
    BY <1>1, LootListCounts
  <1> HIDE DEF h0, ms
  <1>4. /\ h \in Hands
        /\ \A m \in Kinds : /\ InHand(h, m) <= InHand(h0, m) + UpTo(ms, Len(ms), m)
                            /\ InHand(h, m) < InHand(h0, m) + UpTo(ms, Len(ms), m) => Full(h.pockets)
    BY <1>2, <1>3, GivesEach
  <1> HIDE DEF h
  <1>5. worn' \in AllWorn /\ pockets' \in AllPockets
    BY <1>1, <1>4, HandsCount
  <1>6. MateriaOK'
    BY <1>1, <1>5 DEF MateriaOK
  <1>7. ASSUME NEW m \in Kinds
        PROVE  /\ ~(Pieces(m)' > Pieces(m))
               /\ Pieces(m)' < Pieces(m) => Full(pockets')
    <2>1. InBuffer(holds, loot, aside, m) = InPlaces(loot, m) /\ InBuffer(holds', loot', aside', m) = 0
      <3>1. InPlaces(loot, m) \in Nat
        BY <1>1, PlacesType
      <3>2. QED
        BY <1>1, <3>1 DEF InBuffer
    <2>2. Pieces(m) = InHand(h0, m) + InPlaces(loot, m) /\ Pieces(m) \in Nat
      BY <1>2, <2>1, PiecesAre DEF InHand
    <2>3. Pieces(m)' = InHand(h, m) /\ Pieces(m)' \in Nat
      BY <1>1, <1>6, <2>1, PiecesNext DEF InHand
    <2>4. /\ InHand(h, m) <= InHand(h0, m) + InPlaces(loot, m)
          /\ InHand(h, m) < InHand(h0, m) + InPlaces(loot, m) => Full(pockets')
      BY <1>1, <1>3, <1>4
    <2>5. QED
      BY <2>2, <2>3, <2>4
  <1>8. QED
    BY <1>1, <1>6, <1>7 DEF KeepsPieces, TheftTakesBest, Full

\* What a character wore and the first places are in the buffer.
LEMMA BackupKeeps ==
  ASSUME MateriaOK, NEW c \in Chars, BackupCharacterMateria(c)
  PROVE  MateriaOK' /\ KeepsPieces /\ TheftTakesBest
  <1> DEFINE none == [p \in 0 .. Aside - 1 |-> None]
  <1>1. /\ holds = "nothing" /\ holds' = "aside" /\ loot' = loot
        /\ worn' = [worn EXCEPT ![c] = Bare]
        /\ aside'.worn = worn[c] /\ aside'.first = FirstOf(pockets)
        /\ pockets' = [p \in Pocket |-> IF p < Aside THEN None ELSE pockets[p]]
        /\ worn \in AllWorn /\ pockets \in AllPockets /\ loot \in AllLoot
    BY DEF BackupCharacterMateria, MateriaOK, FirstOf
  <1>2. /\ Aside \in Nat /\ Pockets \in Nat /\ Aside <= Pockets
        /\ None \in Piece /\ None \notin Kinds
    BY ItemsAssumption DEF Piece
  <1>3. /\ none \in AllFirst
        /\ \A p \in Pocket : p < Aside => p \in 0 .. Aside - 1
    BY <1>2 DEF AllFirst, Pocket
  <1>4. /\ pockets' = [p \in Pocket |-> IF p < Aside THEN none[p] ELSE pockets[p]]
        /\ \A p \in Pocket : pockets'[p] = IF p < Aside THEN none[p] ELSE pockets[p]
    BY <1>1, <1>3
  <1>5. \A m \in Kinds : InPlaces(none, m) = 0
    <2> SUFFICES ASSUME NEW m \in Kinds PROVE InPlaces(none, m) = 0
      OBVIOUS
    <2>1. {p \in DOMAIN none : none[p] = m} = {}
      BY <1>2
    <2>2. QED
      BY <2>1, FS_EmptySet DEF InPlaces
  <1> HIDE DEF none
  <1>6. pockets' \in AllPockets /\ FirstOf(pockets) \in AllFirst
    BY <1>1, <1>3, <1>4, FirstTypes
  <1>7. worn' \in AllWorn /\ worn'[c] = Bare /\ \A d \in Chars : d # c => worn'[d] = worn[d]
    BY <1>1, BareIs DEF AllWorn
  <1>8. worn[c] \in WornOf
    BY <1>1 DEF AllWorn
  <1>9. MateriaOK'
    BY <1>1, <1>6, <1>7, <1>8 DEF MateriaOK
  <1>10. ASSUME NEW m \in Kinds
         PROVE  Pieces(m)' = Pieces(m) /\ Pieces(m) \in Nat
    <2> DEFINE one == OnOne(worn[c], m)
               first == InPlaces(FirstOf(pockets), m)
               new == worn'
               npk == pockets'
    <2>6. one \in Nat /\ Worn(worn', m) = Worn(worn, m) - one
      <3>1. worn \in AllWorn /\ new \in AllWorn /\ \A d \in Chars : d # c => new[d] = worn[d]
        BY <1>1, <1>7
      <3>2. new[c] = Bare /\ OnOne(Bare, m) = 0
        BY <1>7, BareIs
      <3>3. new = worn'
        OBVIOUS
      <3> HIDE DEF new
      <3>4. /\ OnOne(worn[c], m) \in Nat /\ OnOne(new[c], m) \in Nat
            /\ Worn(worn, m) \in Nat /\ Worn(new, m) \in Nat
            /\ Worn(new, m) = Worn(worn, m) - OnOne(worn[c], m) + OnOne(new[c], m)
        BY <3>1, WearAll
      <3>5. QED
        BY <3>2, <3>3, <3>4
    <2>7. first \in Nat /\ InPlaces(pockets', m) = InPlaces(pockets, m) - first
      <3>1. /\ pockets \in AllPockets /\ npk \in AllPockets
            /\ \A p \in Pocket : npk[p] = IF p < Aside THEN none[p] ELSE pockets[p]
        BY <1>1, <1>4, <1>6
      <3>2. npk = pockets' /\ InPlaces(none, m) = 0
        BY <1>5
      <3> HIDE DEF npk
      <3>3. /\ InPlaces(none, m) \in Nat /\ InPlaces(FirstOf(pockets), m) \in Nat
            /\ InPlaces(pockets, m) \in Nat /\ InPlaces(npk, m) \in Nat
            /\ InPlaces(npk, m) = InPlaces(pockets, m) - InPlaces(FirstOf(pockets), m) + InPlaces(none, m)
        BY <1>3, <3>1, FirstCounts
      <3>4. QED
        BY <3>2, <3>3
    <2>1. /\ one \in Nat /\ first \in Nat
          /\ Worn(worn', m) = Worn(worn, m) - one
          /\ InPlaces(pockets', m) = InPlaces(pockets, m) - first
      BY <2>6, <2>7
    <2>2. /\ InBuffer(holds, loot, aside, m) = 0
          /\ InBuffer(holds', loot', aside', m) = first + one
      BY <1>1, <2>1 DEF InBuffer
    <2> HIDE DEF one, first
    <2>3. /\ Pieces(m) = Worn(worn, m) + InPlaces(pockets, m) + InBuffer(holds, loot, aside, m)
          /\ Worn(worn, m) \in Nat /\ InPlaces(pockets, m) \in Nat
      BY PiecesAre
    <2>4. Pieces(m)' = Worn(worn', m) + InPlaces(pockets', m) + InBuffer(holds', loot', aside', m)
      BY <1>9, PiecesNext
    <2>5. QED
      BY <2>1, <2>2, <2>3, <2>4
  <1>11. QED
    BY <1>1, <1>9, <1>10 DEF KeepsPieces, TheftTakesBest

\* They come back over what was in their places.
LEMMA RestoreKeeps ==
  ASSUME MateriaOK, NEW c \in Chars, RestoreCharacterMateria(c)
  PROVE  MateriaOK' /\ KeepsPieces /\ TheftTakesBest
  <1>1. /\ holds = "aside" /\ holds' = "nothing" /\ loot' = loot /\ aside' = aside
        /\ worn' = [worn EXCEPT ![c] = aside.worn]
        /\ pockets' = [p \in Pocket |-> IF p < Aside THEN aside.first[p] ELSE pockets[p]]
        /\ worn \in AllWorn /\ pockets \in AllPockets /\ loot \in AllLoot
        /\ aside.worn \in WornOf /\ aside.first \in AllFirst
    BY DEF RestoreCharacterMateria, MateriaOK
  <1>2. /\ pockets' \in AllPockets
        /\ \A p \in Pocket : pockets'[p] = IF p < Aside THEN aside.first[p] ELSE pockets[p]
    BY <1>1, FirstTypes
  <1>3. worn' \in AllWorn /\ worn'[c] = aside.worn /\ \A d \in Chars : d # c => worn'[d] = worn[d]
    BY <1>1 DEF AllWorn
  <1>4. MateriaOK'
    BY <1>1, <1>2, <1>3 DEF MateriaOK
  <1>5. ASSUME NEW m \in Kinds
        PROVE  ~(Pieces(m)' > Pieces(m))
    <2> DEFINE new == worn'
               npk == pockets'
               back == aside.first
    <2>6. /\ OnOne(worn[c], m) \in Nat /\ OnOne(aside.worn, m) \in Nat
          /\ Worn(worn', m) = Worn(worn, m) - OnOne(worn[c], m) + OnOne(aside.worn, m)
      <3>1. worn \in AllWorn /\ new \in AllWorn /\ \A d \in Chars : d # c => new[d] = worn[d]
        BY <1>1, <1>3
      <3>2. new = worn' /\ new[c] = aside.worn
        BY <1>3
      <3> HIDE DEF new
      <3>3. /\ OnOne(worn[c], m) \in Nat /\ OnOne(new[c], m) \in Nat
            /\ Worn(new, m) = Worn(worn, m) - OnOne(worn[c], m) + OnOne(new[c], m)
        BY <3>1, WearAll
      <3>4. QED
        BY <3>2, <3>3
    <2>7. /\ InPlaces(FirstOf(pockets), m) \in Nat /\ InPlaces(aside.first, m) \in Nat
          /\ InPlaces(pockets', m) = InPlaces(pockets, m) - InPlaces(FirstOf(pockets), m)
                                     + InPlaces(aside.first, m)
      <3>1. /\ pockets \in AllPockets /\ npk \in AllPockets /\ back \in AllFirst
            /\ \A p \in Pocket : npk[p] = IF p < Aside THEN back[p] ELSE pockets[p]
        BY <1>1, <1>2
      <3>2. npk = pockets' /\ back = aside.first
        OBVIOUS
      <3> HIDE DEF npk, back
      <3>3. /\ InPlaces(back, m) \in Nat /\ InPlaces(FirstOf(pockets), m) \in Nat
            /\ InPlaces(npk, m) = InPlaces(pockets, m) - InPlaces(FirstOf(pockets), m) + InPlaces(back, m)
        BY <3>1, FirstCounts
      <3>4. QED
        BY <3>2, <3>3
    <2>1. /\ InBuffer(holds, loot, aside, m) = InPlaces(aside.first, m) + OnOne(aside.worn, m)
          /\ InBuffer(holds', loot', aside', m) = 0
      BY <1>1, <2>6, <2>7 DEF InBuffer
    <2>2. /\ Pieces(m) = Worn(worn, m) + InPlaces(pockets, m) + InBuffer(holds, loot, aside, m)
          /\ Worn(worn, m) \in Nat /\ InPlaces(pockets, m) \in Nat
      BY PiecesAre
    <2>3. Pieces(m)' = Worn(worn', m) + InPlaces(pockets', m) + InBuffer(holds', loot', aside', m)
      BY <1>4, PiecesNext
    <2> DEFINE a == InPlaces(aside.first, m)
               b == OnOne(aside.worn, m)
               x == InPlaces(FirstOf(pockets), m)
               y == OnOne(worn[c], m)
    <2>4. /\ a \in Nat /\ b \in Nat /\ x \in Nat /\ y \in Nat
          /\ Worn(worn', m) = Worn(worn, m) - y + b
          /\ InPlaces(pockets', m) = InPlaces(pockets, m) - x + a
          /\ InBuffer(holds, loot, aside, m) = a + b
      BY <2>1, <2>6, <2>7
    <2> HIDE DEF a, b, x, y
    <2>5. QED
      BY <2>1, <2>2, <2>3, <2>4
  <1>6. QED
    BY <1>1, <1>4, <1>5 DEF KeepsPieces, TheftTakesBest


\* A theft: the buffer gets what all lose, and the most valuable of it.
LEMMA StealKeeps ==
  ASSUME MateriaOK, StealAllMateria
  PROVE  MateriaOK' /\ KeepsPieces /\ TheftTakesBest
  <1> DEFINE empty == [e \in Entry |-> None]
             onThem == OnThem(worn)
             inStock == InStock(pockets)
             first == Each(Offering, empty, onThem)
             taken == Each(Offering, first, inStock)
             h0 == [worn |-> worn, pockets |-> pockets]
             ms == InLoot(taken)
             h == Each(Removing, h0, ms)
             zero == [m \in Kinds |-> 0]
             some == [m \in Kinds |-> zero[m] + UpTo(onThem, Len(onThem), m)]
             all == [m \in Kinds |-> some[m] + UpTo(inStock, Len(inStock), m)]
  <1>1. /\ holds = "nothing" /\ holds' = "loot" /\ loot' = taken
        /\ worn' = h.worn /\ pockets' = h.pockets
        /\ worn \in AllWorn /\ pockets \in AllPockets /\ loot \in AllLoot
    BY DEF StealAllMateria, Taken, MateriaOK
  <1>2. h0 \in Hands /\ h0.worn = worn /\ h0.pockets = pockets
    BY <1>1 DEF Hands, AllWorn, AllPockets
  <1>3. /\ None \in Piece /\ None \notin Kinds /\ Worth \in [Kinds -> Nat]
        /\ Kinds \subseteq Piece
    BY ItemsAssumption DEF Piece
  <1>4. /\ onThem \in Seq(Piece) /\ \A m : UpTo(onThem, Len(onThem), m) = SeenWorn(worn, m)
        /\ inStock \in Seq(Piece) /\ \A m : UpTo(inStock, Len(inStock), m) = InPlaces(pockets, m)
    BY <1>1, OnThemCounts, StockCounts
  <1>5. \A m \in Kinds : SeenWorn(worn, m) \in Nat /\ InPlaces(pockets, m) \in Nat
    BY <1>2, HandsCount
  <1> HIDE DEF onThem, inStock
  <1>6. /\ zero \in [Kinds -> Nat] /\ some \in [Kinds -> Nat] /\ all \in [Kinds -> Nat]
        /\ \A m \in Kinds : all[m] = SeenWorn(worn, m) + InPlaces(pockets, m)
    <2>1. \A m \in Kinds : some[m] = SeenWorn(worn, m) /\ some[m] \in Nat
      BY <1>4, <1>5
    <2>2. \A m \in Kinds : all[m] = some[m] + InPlaces(pockets, m)
      BY <1>4
    <2>3. some = [m \in Kinds |-> some[m]] /\ all = [m \in Kinds |-> all[m]]
      OBVIOUS
    <2>4. zero \in [Kinds -> Nat]
      OBVIOUS
    <2> HIDE DEF some, all, zero
    <2>5. \A m \in Kinds : all[m] \in Nat
      BY <2>1, <2>2, <1>5
    <2>6. QED
      BY <2>1, <2>2, <2>3, <2>4, <2>5
  <1>7. empty \in AllLoot /\ Fits(empty, zero)
    <2>1. empty \in AllLoot
      BY <1>3 DEF AllLoot
    <2>2. \A m \in Kinds : InPlaces(empty, m) = 0
      <3> SUFFICES ASSUME NEW m \in Kinds PROVE InPlaces(empty, m) = 0
        OBVIOUS
      <3>1. {e \in DOMAIN empty : empty[e] = m} = {}
        BY <1>3
      <3>2. QED
        BY <3>1, FS_EmptySet DEF InPlaces
    <2>3. \A m \in Kinds : zero[m] = 0
      OBVIOUS
    <2> HIDE DEF empty, zero
    <2>4. QED
      BY <2>1, <2>2, <2>3 DEF Fits
  <1> HIDE DEF empty
  <1>8. first \in AllLoot /\ Fits(first, some)
    <2>1. some = [m \in Kinds |-> zero[m] + UpTo(onThem, Len(onThem), m)]
      OBVIOUS
    <2> HIDE DEF zero, some
    <2>2. QED
      BY <1>4, <1>6, <1>7, <2>1, OffersFit
  <1> HIDE DEF first
  <1>9. taken \in AllLoot /\ Fits(taken, all)
    <2>1. all = [m \in Kinds |-> some[m] + UpTo(inStock, Len(inStock), m)]
      OBVIOUS
    <2> HIDE DEF some, all
    <2>2. QED
      BY <1>4, <1>6, <1>8, <2>1, OffersFit
  <1> HIDE DEF taken, all, some, zero, h0
  <1>10. ms \in Seq(Piece) /\ \A m : UpTo(ms, Len(ms), m) = InPlaces(taken, m)
    BY <1>9, LootListCounts
  <1> HIDE DEF ms
  <1>11. \A m \in Kinds : InReach(h0, m) = all[m]
    BY <1>2, <1>6 DEF InReach
  <1>12. \A m \in Kinds : UpTo(ms, Len(ms), m) <= InReach(h0, m)
    BY <1>9, <1>10, <1>11 DEF Fits
  <1>13. /\ h \in Hands
         /\ \A m \in Kinds : /\ InReach(h, m) + UpTo(ms, Len(ms), m) = InReach(h0, m)
                             /\ InHand(h, m) + UpTo(ms, Len(ms), m) = InHand(h0, m)
    BY <1>2, <1>10, <1>12, RemovesEach
  <1> HIDE DEF h
  <1>14. h.worn \in AllWorn /\ h.pockets \in AllPockets
    BY <1>13, HandsCount
  <1>15. MateriaOK'
    BY <1>1, <1>9, <1>14 DEF MateriaOK
  <1>16. ASSUME NEW m \in Kinds
         PROVE  Pieces(m)' = Pieces(m) /\ Pieces(m) \in Nat
    <2>1. InPlaces(taken, m) \in Nat
      BY <1>9, PlacesType
    <2>2. InBuffer(holds, loot, aside, m) = 0 /\ InBuffer(holds', loot', aside', m) = InPlaces(taken, m)
      BY <1>1, <2>1 DEF InBuffer
    <2>3. Pieces(m) = InHand(h0, m) /\ Pieces(m) \in Nat
      BY <1>2, <2>2, PiecesAre DEF InHand
    <2>4. Pieces(m)' = InHand(h, m) + InPlaces(taken, m)
      BY <1>1, <1>15, <2>2, PiecesNext DEF InHand
    <2>5. InHand(h, m) + InPlaces(taken, m) = InHand(h0, m)
      BY <1>10, <1>13
    <2>6. QED
      BY <2>3, <2>4, <2>5
  <1>17. KeepsPieces
    BY <1>16 DEF KeepsPieces
  <1>18. ASSUME NEW m \in Kinds, InReach(h, m) # 0
         PROVE  \A e \in Entry : taken[e] # None /\ Worth[taken[e]] >= Worth[m]
    <2>1. InReach(h, m) \in Nat /\ InPlaces(taken, m) \in Nat
      BY <1>9, <1>13, HandsCount, PlacesType
    <2>2. InReach(h, m) + InPlaces(taken, m) = all[m]
      BY <1>10, <1>11, <1>13
    <2>3. InPlaces(taken, m) < all[m]
      BY <1>18, <2>1, <2>2
    <2>4. QED
      BY <1>9, <2>3 DEF Fits
  <1>19. ASSUME NEW m \in Kinds, \/ \E p \in Pocket : h.pockets[p] = m
                                 \/ \E c \in Seen, g \in Gear, s \in Slot : h.worn[c][g][s] = m
         PROVE  InReach(h, m) # 0
    <2>1. SeenWorn(h.worn, m) \in Nat /\ InPlaces(h.pockets, m) \in Nat
      BY <1>13, HandsCount
    <2>2. CASE \E p \in Pocket : h.pockets[p] = m
      <3>1. PICK p \in Pocket : h.pockets[p] = m
        BY <2>2
      <3>2. h.pockets \in [Pocket -> Piece]
        BY <1>14 DEF AllPockets
      <3>3. InPlaces(h.pockets, m) # 0
        BY <3>1, <3>2, SpotsFinite, CountType
      <3>4. QED
        BY <2>1, <3>3 DEF InReach
    <2>3. CASE \E c \in Seen, g \in Gear, s \in Slot : h.worn[c][g][s] = m
      <3>1. PICK c \in Seen, g \in Gear, s \in Slot : h.worn[c][g][s] = m
        BY <2>3
      <3>2. <<c, g, s>> \in Spots /\ FlatSeen(h.worn)[<<c, g, s>>] = m
        BY <3>1, ItemsAssumption DEF Spots, FlatSeen, SeenAt, WornAt
      <3>3. FlatSeen(h.worn) \in [Spots -> Piece]
        BY <1>14, FlatIs
      <3>4. InPlaces(FlatSeen(h.worn), m) # 0
        BY <3>2, <3>3, SpotsFinite, CountType
      <3>5. QED
        BY <2>1, <3>4 DEF InReach, SeenWorn
    <2>4. QED
      BY <1>19, <2>2, <2>3
  <1>20. TheftTakesBest
    <2>1. \A m \in Left' : m \in Kinds /\ \/ \E p \in Pocket : h.pockets[p] = m
                                          \/ \E c \in Seen, g \in Gear, s \in Slot : h.worn[c][g][s] = m
      BY <1>1 DEF Left
    <2>2. QED
      BY <1>1, <1>18, <1>19, <2>1 DEF TheftTakesBest
  <1>21. QED
    BY <1>15, <1>17, <1>20

LEMMA MateriaInit == Init => MateriaOK
  <1> SUFFICES ASSUME Init PROVE MateriaOK
    OBVIOUS
  <1>1. PICK plan \in Plans : pockets \in plan.pockets /\ worn \in plan.worn
    BY DEF Init
  <1>2. plan.pockets \subseteq [Pocket -> Piece] /\ plan.worn \subseteq [Chars -> WornOf]
    BY ItemsAssumption
  <1>3. None \in Piece
    BY DEF Piece
  <1>4. loot \in AllLoot /\ holds = "nothing"
    BY <1>3 DEF Init, AllLoot
  <1>5. QED
    BY <1>1, <1>2, <1>4 DEF MateriaOK, AllWorn, AllPockets

LEMMA MateriaStep ==
  ASSUME MateriaOK, [Next]_vars
  PROVE  MateriaOK' /\ KeepsPieces /\ TheftTakesBest
  <1>1. CASE UNCHANGED pieces
    BY <1>1, PiecesStay
  <1>2. ASSUME NEW id \in Ids, NEW n \in Amounts, Stitm(id, n) \/ Dlitm(id, n)
        PROVE  UNCHANGED pieces
    BY <1>2 DEF Stitm, Dlitm, Changed
  <1>3. CASE Clitm \/ Flitm
    <2>1. UNCHANGED pieces
      BY <1>3 DEF Clitm, Flitm, Changed
    <2>2. QED
      BY <2>1, <1>1
  <1>4. CASE Flmat
    BY <1>4, FlmatKeeps
  <1>5. CASE SortStep
    <2>1. UNCHANGED pieces
      BY <1>5 DEF SortStep, SortExchange, SortSplit
    <2>2. QED
      BY <2>1, <1>1
  <1>6. ASSUME NEW i \in Place, NEW j \in Place, Customize(i, j)
        PROVE  UNCHANGED pieces
    BY <1>6 DEF Customize, Changed
  <1>7. ASSUME NEW mode \in Modes, Arrange(mode)
        PROVE  UNCHANGED pieces
    BY <1>7 DEF Arrange
  <1>8. ASSUME NEW m \in Kinds, Smtra(m)
        PROVE  MateriaOK' /\ KeepsPieces /\ TheftTakesBest
    BY <1>8, SmtraKeeps
  <1>9. CASE StealAllMateria \/ ReturnStolenMateria
    BY <1>9, StealKeeps, ReturnKeeps
  <1>10. ASSUME NEW c \in Chars, UnequipCharacterMateria(c)
         PROVE  MateriaOK' /\ KeepsPieces /\ TheftTakesBest
    BY <1>10, UnequipKeeps
  <1>11. ASSUME NEW c \in Heroes, BackupCharacterMateria(c) \/ RestoreCharacterMateria(c)
         PROVE  MateriaOK' /\ KeepsPieces /\ TheftTakesBest
    <2>1. c \in Chars
      BY ItemsAssumption
    <2>2. QED
      BY <1>11, <2>1, BackupKeeps, RestoreKeeps
  <1>12. CASE UNCHANGED vars
    <2>1. UNCHANGED pieces
      BY <1>12 DEF vars
    <2>2. QED
      BY <2>1, <1>1
  <1>13. QED
    BY <1>1, <1>2, <1>3, <1>4, <1>5, <1>6, <1>7, <1>8, <1>9, <1>10, <1>11, <1>12 DEF Next

\* The pockets, the slots and the buffer hold materia or nothing, and what is set
\* aside is what a character wears and the first places.
THEOREM MateriaStays == Spec => []MateriaOK
  <1>1. MateriaOK /\ [Next]_vars => MateriaOK'
    BY MateriaStep
  <1>2. QED
    BY <1>1, MateriaInit, PTL DEF Spec

----------------------------------------------------------------------------
(***************************************************************************)
(* What it is for.                                                         *)
(***************************************************************************)
\* No item is ever in two places and no number above the limit, whatever is given
\* and taken, unequipped, exchanged and sorted.
THEOREM ItemTypes == Spec => []TypeOK
  <1>1. IInv /\ MateriaOK => TypeOK
    BY DEF IInv, GoodsOK, InvOK, SortInv, RangesOK, Ranges, MateriaOK, AllWorn, AllPockets, AllLoot,
           AllFirst, TypeOK, Idle
  <1>2. QED
    BY <1>1, ItemsInv, MateriaStays, PTL

\* When Arrange is done, and until something changes, the items lie in the order
\* that was asked for: Quicksort, with its own stack of ranges and the pivot in
\* the first place of a range, sorts, for every inventory and every comparator.
THEOREM ArrangeSorts == Spec => []Arranged
  <1>1. ASSUME IInv
        PROVE  Arranged
    <2> SUFFICES ASSUME Idle, order # None, NEW p \in Place, NEW q \in Place, p < q
                 PROVE  InOrder(order, items[p], items[q])
      BY DEF Arranged
    <2>1. Apart(Key, stack) /\ Len(stack) = 0
      BY <1>1 DEF IInv, SortInv, Idle
    <2>2. Key[p] <= Key[q]
      BY <2>1 DEF Apart
    <2>3. Rank(order, items[p]) <= Rank(order, items[q])
      BY <2>2 DEF Key
    <2>4. items[p] \in {None} \cup Stacks /\ items[q] \in {None} \cup Stacks
      BY <1>1 DEF IInv, GoodsOK, InvOK, Inventory
    <2>5. QED
      BY <2>3, <2>4, RanksInOrder
  <1>2. QED
    BY <1>1, ItemsInv, PTL

\* Wherever the items lie, the inventory is a number of each up to the limit: what
\* gives, takes, clears and fills does so to these numbers, and every turn of a
\* sort and every exchange leaves them as they are.
THEOREM InventoryIsABag == Spec => BagSpec
  <1>1. Init => Bag!Init
    <2> SUFFICES ASSUME Init PROVE Bag!Init
      OBVIOUS
    <2>1. InvOK(items)
      BY InitInv DEF IInv, GoodsOK
    <2>2. QED
      BY <2>1, CountsType DEF Counts, Bag!Init, Bag!TypeOK
  <1>2. IInv /\ [Next]_vars => [Bag!Next]_([id \in Ids |-> HowMany(items, id)])
    BY StepInv DEF BagStep, Counts
  <1>3. QED
    BY <1>1, <1>2, ItemsInv, PTL DEF Spec, BagSpec, Bag!Spec

\* The room for 64 ranges is enough: as the smaller part of a range is always
\* sorted first, Quicksort never gives up an inventory half sorted.
NeverGivenUp == [][SortSplit => stack' = Below \o Parts(Top) /\ Len(stack') < Depth]_vars
THEOREM RangesHaveRoom == Spec => NeverGivenUp
  <1>1. IInv /\ [Next]_vars => [SortSplit => stack' = Below \o Parts(Top) /\ Len(stack') < Depth]_vars
    BY SplitKeeps DEF IInv, GoodsOK
  <1>2. QED
    BY <1>1, ItemsInv, PTL DEF Spec, NeverGivenUp

\* A theft, its return and a character unequipped, set aside or taken back neither
\* make materia nor lose any, but for what finds no free place in the inventory and
\* what a character taken back finds in its places.  It is so for every list of
\* characters, slots and places, however often each materia is there.
THEOREM PiecesAreKept == Spec => PiecesKept
  <1>1. MateriaOK /\ [Next]_vars => [\A m \in Kinds :
          /\ Pieces(m)' > Pieces(m) => UNCHANGED <<worn, loot, aside, holds>>
          /\ Pieces(m)' < Pieces(m) => \/ \A p \in Pocket : pockets'[p] # None
                                       \/ (holds = "aside" /\ holds' = "nothing")]_vars
    BY MateriaStep DEF KeepsPieces
  <1>2. QED
    BY <1>1, MateriaStays, PTL DEF Spec, PiecesKept

\* The theft takes the most valuable: what is left in the inventory or with a
\* character who is seen is left because the buffer is full, and is worth no more
\* than anything in it.
THEOREM TheftIsBest == Spec => TakesBest
  <1>1. MateriaOK /\ [Next]_vars =>
          [holds' = "loot" /\ holds # "loot" =>
             \A m \in Left', e \in Entry :
                 loot'[e] # None /\ Worth[loot'[e]] >= Worth[m]]_vars
    BY MateriaStep DEF TheftTakesBest
  <1>2. QED
    BY <1>1, MateriaStays, PTL DEF Spec, TakesBest

=============================================================================
