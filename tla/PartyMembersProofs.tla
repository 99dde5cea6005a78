------------------------- MODULE PartyMembersProofs -------------------------
(***************************************************************************)
(* Proofs about PartyMembers, for every set of characters, every shared    *)
(* save record, every amount and every order of opcodes and menus.         *)
(*                                                                         *)
(* The functions on parties come first: what is only in one of two, how a  *)
(* party is emptied and filled, and what carrying one copy over to the     *)
(* other leaves.  A party is three slots, so the places that the code      *)
(* counts out are written down case by case.                               *)
(***************************************************************************)
EXTENDS PartyMembers, FiniteSetTheorems, TLAPS

\* Nobody is in party p twice.
Once(p) == \A i, j \in Slot : p[i] = p[j] /\ p[i] # NoChar => i = j

LEMMA Codes ==
  /\ NoChar \notin Char /\ ForcedEmpty \notin Char /\ NoChar # ForcedEmpty
  /\ 0 \in Char
  /\ \A i : i \in Slot <=> i = 0 \/ i = 1 \/ i = 2
  BY CharsAssumption DEF Char, NoChar, ForcedEmpty, Slot

LEMMA SlotsOf ==
  ASSUME NEW p \in Party
  PROVE  /\ \A i \in Slot : p[i] \in Char \cup {NoChar}
         /\ Members(p) = {p[0], p[1], p[2]} \ {NoChar}
         /\ Members(p) \subseteq Char
  BY Codes DEF Party, Members

----------------------------------------------------------------------------
(***************************************************************************)
(* Counting slots.                                                         *)
(***************************************************************************)
Below(S, i) == Cardinality({h \in 0 .. i - 1 : h \in S})

LEMMA CountBelow ==
  ASSUME NEW S
  PROVE  /\ Below(S, 0) = 0
         /\ Below(S, 1) = IF 0 \in S THEN 1 ELSE 0
         /\ Below(S, 2) = (IF 0 \in S THEN 1 ELSE 0) + (IF 1 \in S THEN 1 ELSE 0)
  <1>1. Cardinality({}) = 0 /\ Cardinality({0}) = 1 /\ Cardinality({1}) = 1
        /\ Cardinality({0, 1}) = 2
    <2>1. Cardinality({0} \cup {1}) = 2
      <3>1. IsFiniteSet({0}) /\ Cardinality({0}) = 1 /\ 1 \notin {0}
        BY FS_Singleton
      <3>2. QED
        BY <3>1, FS_AddElement
    <2>2. {0, 1} = {0} \cup {1}
      OBVIOUS
    <2>3. QED
      BY <2>1, <2>2, FS_Singleton, FS_EmptySet
  <1>2. {h \in 0 .. 0 - 1 : h \in S} = {}
    OBVIOUS
  <1>3. {h \in 0 .. 1 - 1 : h \in S} = IF 0 \in S THEN {0} ELSE {}
    OBVIOUS
  <1>4. {h \in 0 .. 2 - 1 : h \in S} =
          IF 0 \in S THEN IF 1 \in S THEN {0, 1} ELSE {0}
                     ELSE IF 1 \in S THEN {1} ELSE {}
    OBVIOUS
  <1>5. QED
    BY <1>1, <1>2, <1>3, <1>4 DEF Below

\* Two members of S have not the same number of members below them.
LEMMA CountApart ==
  ASSUME NEW S, NEW i \in Slot, NEW j \in Slot, i \in S, j \in S, Below(S, i) = Below(S, j)
  PROVE  i = j
  BY CountBelow, Codes

----------------------------------------------------------------------------
(***************************************************************************)
(* What is only in one of two parties.                                     *)
(***************************************************************************)
LoneIn(p, q) == {i \in Slot : \A j \in Slot : q[j] # p[i]}

LEMMA OnlyInAt ==
  ASSUME NEW p \in Party, NEW q \in Party, NEW k \in Slot
  PROVE  /\ \A i \in LoneIn(p, q) : Below(LoneIn(p, q), i) = k => OnlyIn(p, q)[k] = p[i]
         /\ (\A i \in LoneIn(p, q) : Below(LoneIn(p, q), i) # k) => OnlyIn(p, q)[k] = NoChar
  <1> DEFINE Lone(i) == \A j \in Slot : q[j] # p[i]
             Before(i) == Cardinality({h \in 0 .. i - 1 : Lone(h)})
             At == CHOOSE i \in Slot : Lone(i) /\ Before(i) = k
  <1>1. OnlyIn(p, q)[k] = IF \E i \in Slot : Lone(i) /\ Before(i) = k THEN p[At] ELSE NoChar
    BY DEF OnlyIn
  <1>2. \A i \in Slot : Lone(i) <=> i \in LoneIn(p, q)
    BY DEF LoneIn
  <1>3. ASSUME NEW i \in Slot
        PROVE  Before(i) = Below(LoneIn(p, q), i)
    <2>1. \A h \in 0 .. i - 1 : h \in Slot
      BY DEF Slot
    <2>2. {h \in 0 .. i - 1 : Lone(h)} = {h \in 0 .. i - 1 : h \in LoneIn(p, q)}
      BY <1>2, <2>1
    <2>3. QED
      BY <2>2 DEF Below
  <1> HIDE DEF Lone, Before
  <1>4. ASSUME NEW i \in LoneIn(p, q), Below(LoneIn(p, q), i) = k
        PROVE  OnlyIn(p, q)[k] = p[i]
    <2>1. i \in Slot /\ Lone(i) /\ Before(i) = k
      BY <1>2, <1>3, <1>4 DEF LoneIn
    <2>2. At \in Slot /\ Lone(At) /\ Before(At) = k
      BY <2>1
    <2>3. At = i
      BY <1>2, <1>3, <2>1, <2>2, CountApart
    <2>4. QED
      BY <1>1, <2>1, <2>3
  <1>5. ASSUME \A i \in LoneIn(p, q) : Below(LoneIn(p, q), i) # k
        PROVE  OnlyIn(p, q)[k] = NoChar
    BY <1>1, <1>2, <1>3, <1>5
  <1>6. QED
    BY <1>4, <1>5

\* The lone slots move up; a slot after the last one is empty.
LEMMA OnlyInSlots ==
  ASSUME NEW p \in Party, NEW q \in Party
  PROVE  LET S == LoneIn(p, q) IN
         /\ OnlyIn(p, q)[0] = IF 0 \in S THEN p[0] ELSE IF 1 \in S THEN p[1]
                              ELSE IF 2 \in S THEN p[2] ELSE NoChar
         /\ OnlyIn(p, q)[1] = IF 0 \in S /\ 1 \in S THEN p[1]
                              ELSE IF (0 \in S \/ 1 \in S) /\ 2 \in S THEN p[2] ELSE NoChar
         /\ OnlyIn(p, q)[2] = IF 0 \in S /\ 1 \in S /\ 2 \in S THEN p[2] ELSE NoChar
  <1> DEFINE S == LoneIn(p, q)
  <1>1. \A i \in S : i = 0 \/ i = 1 \/ i = 2
    BY Codes DEF LoneIn
  <1> DEFINE g == OnlyIn(p, q)
  <1>2. ASSUME NEW k \in Slot
        PROVE  /\ \A i \in S : Below(S, i) = k => g[k] = p[i]
               /\ (\A i \in S : Below(S, i) # k) => g[k] = NoChar
    BY OnlyInAt
  <1>3. /\ Below(S, 0) = 0
        /\ Below(S, 1) = IF 0 \in S THEN 1 ELSE 0
        /\ Below(S, 2) = (IF 0 \in S THEN 1 ELSE 0) + (IF 1 \in S THEN 1 ELSE 0)
    BY CountBelow
  <1> HIDE DEF S, g
  <1>4. ASSUME NEW k \in Slot
        PROVE  /\ \A i \in S : Below(S, i) = k => g[k] = p[i]
               /\ (0 \in S => Below(S, 0) # k) /\ (1 \in S => Below(S, 1) # k)
                    /\ (2 \in S => Below(S, 2) # k) => g[k] = NoChar
    <2>1. /\ \A i \in S : Below(S, i) = k => g[k] = p[i]
          /\ (\A i \in S : Below(S, i) # k) => g[k] = NoChar
      BY <1>2
    <2>2. (0 \in S => Below(S, 0) # k) /\ (1 \in S => Below(S, 1) # k)
            /\ (2 \in S => Below(S, 2) # k) => \A i \in S : Below(S, i) # k
      BY <1>1
    <2>3. QED
      BY <2>1, <2>2
  <1>5. g[0] = IF 0 \in S THEN p[0] ELSE IF 1 \in S THEN p[1]
               ELSE IF 2 \in S THEN p[2] ELSE NoChar
    BY <1>3, <1>4, Codes
  <1>6. g[1] = IF 0 \in S /\ 1 \in S THEN p[1]
               ELSE IF (0 \in S \/ 1 \in S) /\ 2 \in S THEN p[2] ELSE NoChar
    BY <1>3, <1>4, Codes
  <1>7. g[2] = IF 0 \in S /\ 1 \in S /\ 2 \in S THEN p[2] ELSE NoChar
    BY <1>3, <1>4, Codes
  <1>8. QED
    BY <1>5, <1>6, <1>7 DEF S, g

\* The members of p that are not in q, nobody twice.
LEMMA OnlyInIs ==
  ASSUME NEW p \in Party, NEW q \in Party, Once(p)
  PROVE  /\ OnlyIn(p, q) \in Party /\ Once(OnlyIn(p, q))
         /\ Members(OnlyIn(p, q)) = Members(p) \ Members(q)
  <1> DEFINE g == OnlyIn(p, q)
             S == LoneIn(p, q)
  <1>1. /\ g[0] = IF 0 \in S THEN p[0] ELSE IF 1 \in S THEN p[1]
                   ELSE IF 2 \in S THEN p[2] ELSE NoChar
        /\ g[1] = IF 0 \in S /\ 1 \in S THEN p[1]
                   ELSE IF (0 \in S \/ 1 \in S) /\ 2 \in S THEN p[2] ELSE NoChar
        /\ g[2] = IF 0 \in S /\ 1 \in S /\ 2 \in S THEN p[2] ELSE NoChar
    BY OnlyInSlots
  <1>2. \A i \in Slot : p[i] \in Char \cup {NoChar}
    BY SlotsOf
  <1>3. \A k \in Slot : g[k] \in Char \cup {NoChar}
    BY <1>1, <1>2, Codes
  <1>4. g \in Party
    BY <1>3 DEF OnlyIn, Party
  <1>5. /\ p[0] = p[1] => p[0] = NoChar
        /\ p[0] = p[2] => p[0] = NoChar
        /\ p[1] = p[2] => p[1] = NoChar
    BY Codes DEF Once
  <1>6. Once(g)
    <2>1. /\ g[0] = g[1] => g[0] = NoChar
          /\ g[0] = g[2] => g[0] = NoChar
          /\ g[1] = g[2] => g[1] = NoChar
      BY <1>1, <1>5
    <2>2. QED
      BY <2>1, Codes DEF Once
  <1>7. Members(g) = Members(p) \ Members(q)
    <2>1. \A i \in Slot : p[i] # NoChar => (i \in S <=> p[i] \notin Members(q))
      BY DEF LoneIn, Members
    <2>2. /\ Members(g) = {g[0], g[1], g[2]} \ {NoChar}
          /\ Members(p) = {p[0], p[1], p[2]} \ {NoChar}
      BY <1>4, SlotsOf
    <2>3. {g[0], g[1], g[2]} \ {NoChar} =
            {c \in {p[0], p[1], p[2]} \ {NoChar} : c \notin Members(q)}
      <3> HIDE DEF g, S
      <3>1. \A c : c \in {g[0], g[1], g[2]} \ {NoChar} <=>
                      /\ c # NoChar
                      /\ (0 \in S /\ c = p[0]) \/ (1 \in S /\ c = p[1]) \/ (2 \in S /\ c = p[2])
        BY <1>1
      <3>2. QED
        BY <2>1, <3>1, Codes
    <2>4. QED
      BY <2>2, <2>3
  <1>8. QED
    BY <1>4, <1>6, <1>7

----------------------------------------------------------------------------
(***************************************************************************)
(* Filling a party up.                                                     *)
(***************************************************************************)
LEMMA PutInSlots ==
  ASSUME NEW p \in Party, NEW c
  PROVE  /\ PutIn(p, c)[0] = IF p[0] = NoChar THEN c ELSE p[0]
         /\ PutIn(p, c)[1] = IF p[0] # NoChar /\ p[1] = NoChar THEN c ELSE p[1]
         /\ PutIn(p, c)[2] = IF p[0] # NoChar /\ p[1] # NoChar /\ p[2] = NoChar THEN c ELSE p[2]
         /\ DOMAIN PutIn(p, c) = Slot
         /\ PutIn(p, c) = [j \in Slot |-> PutIn(p, c)[j]]
  <1> DEFINE IsFirst(j) == p[j] = NoChar /\ \A h \in 0 .. j - 1 : p[h] # NoChar
             first == CHOOSE j \in Slot : IsFirst(j)
  <1>1. /\ IsFirst(0) <=> p[0] = NoChar
        /\ IsFirst(1) <=> p[0] # NoChar /\ p[1] = NoChar
        /\ IsFirst(2) <=> p[0] # NoChar /\ p[1] # NoChar /\ p[2] = NoChar
    <2>1. /\ 0 .. 0 - 1 = {} /\ 0 .. 1 - 1 = {0} /\ 0 .. 2 - 1 = {0, 1}
      OBVIOUS
    <2>2. QED
      BY <2>1
  <1>2. (\E j \in Slot : p[j] = NoChar) <=> IsFirst(0) \/ IsFirst(1) \/ IsFirst(2)
    BY <1>1, Codes
  <1>3. PutIn(p, c) = IF \E j \in Slot : p[j] = NoChar THEN [p EXCEPT ![first] = c] ELSE p
    BY DEF PutIn
  <1> HIDE DEF IsFirst
  <1>4. ASSUME NEW j \in Slot, IsFirst(j)
        PROVE  first = j
    <2>1. first \in Slot /\ IsFirst(first)
      BY <1>4
    <2>2. QED
      BY <1>1, <1>4, <2>1, Codes
  <1> HIDE DEF first
  <1>5. ASSUME NEW j \in Slot, IsFirst(j)
        PROVE  /\ DOMAIN PutIn(p, c) = Slot
               /\ \A k \in Slot : PutIn(p, c)[k] = IF k = j THEN c ELSE p[k]
    <2>1. p[j] = NoChar
      BY <1>1, <1>5, Codes
    <2>2. first = j
      BY <1>4, <1>5
    <2>3. PutIn(p, c) = [p EXCEPT ![j] = c]
      BY <1>3, <2>1, <2>2
    <2>4. DOMAIN p = Slot
      BY DEF Party
    <2>5. /\ DOMAIN [p EXCEPT ![j] = c] = Slot
          /\ \A k \in Slot : [p EXCEPT ![j] = c][k] = IF k = j THEN c ELSE p[k]
      BY <2>4
    <2>6. QED
      BY <2>3, <2>5
  <1>6. PutIn(p, c) = [j \in Slot |-> PutIn(p, c)[j]]
    <2>1. PutIn(p, c) = p \/ PutIn(p, c) = [p EXCEPT ![first] = c]
      BY <1>3
    <2>2. QED
      BY <2>1 DEF Party
  <1>7. CASE IsFirst(0) \/ IsFirst(1) \/ IsFirst(2)
    <2>1. PICK j \in Slot : IsFirst(j)
      BY <1>7, Codes
    <2>2. /\ DOMAIN PutIn(p, c) = Slot
          /\ \A k \in Slot : PutIn(p, c)[k] = IF k = j THEN c ELSE p[k]
      BY <1>5, <2>1
    <2>3. /\ PutIn(p, c)[0] = IF 0 = j THEN c ELSE p[0]
          /\ PutIn(p, c)[1] = IF 1 = j THEN c ELSE p[1]
          /\ PutIn(p, c)[2] = IF 2 = j THEN c ELSE p[2]
      BY <2>2, Codes
    <2>4. j = 0 \/ j = 1 \/ j = 2
      BY Codes
    <2>5. QED
      BY <1>1, <1>6, <2>1, <2>2, <2>3, <2>4
  <1>8. CASE ~(IsFirst(0) \/ IsFirst(1) \/ IsFirst(2))
    <2>1. PutIn(p, c) = p
      BY <1>2, <1>3, <1>8
    <2>2. QED
      BY <1>1, <1>6, <1>8, <2>1 DEF Party
  <1>9. QED
    BY <1>7, <1>8

\* One more member of f goes into p; there is room, as p has members of f only.
LEMMA PutInIs ==
  ASSUME NEW f \in Party, NEW p \in Party, Once(p), Members(p) \subseteq Members(f),
         NEW c \in Members(f) \cup {NoChar}, c \notin Members(p)
  PROVE  /\ PutIn(p, c) \in Party /\ Once(PutIn(p, c))
         /\ Members(PutIn(p, c)) = Members(p) \cup ({c} \ {NoChar})
         /\ \A i \in Slot : p[i] # NoChar => PutIn(p, c)[i] = p[i]
  <1> DEFINE g == PutIn(p, c)
  <1>1. /\ g[0] = IF p[0] = NoChar THEN c ELSE p[0]
        /\ g[1] = IF p[0] # NoChar /\ p[1] = NoChar THEN c ELSE p[1]
        /\ g[2] = IF p[0] # NoChar /\ p[1] # NoChar /\ p[2] = NoChar THEN c ELSE p[2]
        /\ g = [j \in Slot |-> g[j]]
    BY PutInSlots
  <1>2. c \in Char \cup {NoChar} /\ \A i \in Slot : p[i] \in Char \cup {NoChar}
    BY SlotsOf
  <1>3. Members(p) = {p[0], p[1], p[2]} \ {NoChar} /\ Members(f) = {f[0], f[1], f[2]} \ {NoChar}
    BY SlotsOf
  <1>4. /\ p[0] = p[1] => p[0] = NoChar
        /\ p[0] = p[2] => p[0] = NoChar
        /\ p[1] = p[2] => p[1] = NoChar
    BY Codes DEF Once
  <1> HIDE DEF g
  <1>5. \A k \in Slot : g[k] \in Char \cup {NoChar}
    BY <1>1, <1>2, Codes
  <1>6. g \in Party
    BY <1>1, <1>5 DEF Party
  <1>7. Once(g)
    <2>1. /\ g[0] = g[1] => g[0] = NoChar
          /\ g[0] = g[2] => g[0] = NoChar
          /\ g[1] = g[2] => g[1] = NoChar
      BY <1>1, <1>3, <1>4
    <2>2. QED
      BY <2>1, Codes DEF Once
  <1>8. c = NoChar \/ p[0] = NoChar \/ p[1] = NoChar \/ p[2] = NoChar
    BY <1>3, <1>4
  <1>9. Members(g) = Members(p) \cup ({c} \ {NoChar})
    <2>1. Members(g) = {g[0], g[1], g[2]} \ {NoChar}
      BY <1>6, SlotsOf
    <2>2. QED
      BY <1>1, <1>3, <1>8, <2>1
  <1>10. \A i \in Slot : p[i] # NoChar => g[i] = p[i]
    BY <1>1, Codes
  <1>11. QED
    BY <1>6, <1>7, <1>9, <1>10 DEF g

----------------------------------------------------------------------------
(***************************************************************************)
(* Carrying one copy over to the other.                                    *)
(***************************************************************************)
LEMMA PartyRemoveIs ==
  ASSUME NEW p \in Party, NEW gone \in Party
  PROVE  /\ PartyRemove(p, gone) \in Party
         /\ \A j \in Slot : PartyRemove(p, gone)[j] = IF p[j] \in Members(gone) THEN NoChar ELSE p[j]
  <1>1. ASSUME NEW j \in Slot
        PROVE  PartyRemove(p, gone)[j] = IF p[j] \in Members(gone) THEN NoChar ELSE p[j]
    <2>1. p[j] # NoChar => (p[j] \in Members(gone) <=> \E i \in Slot : gone[i] = p[j])
      BY DEF Members
    <2>2. PartyRemove(p, gone)[j] = IF \E i \in Slot : gone[i] = p[j] THEN NoChar ELSE p[j]
      BY DEF PartyRemove
    <2>3. QED
      BY <2>1, <2>2 DEF Members
  <1>2. PartyRemove(p, gone) \in Party
    BY SlotsOf DEF PartyRemove, Party
  <1>3. QED
    BY <1>1, <1>2

\* What is carried over are the members of `from`; those of `to` among them
\* keep their slots, and nobody is there twice.
LEMMA TransferIs ==
  ASSUME NEW from \in Party, NEW to \in Party, Once(from), Once(to)
  PROVE  /\ Transfer(from, to) \in Party /\ Once(Transfer(from, to))
         /\ Members(Transfer(from, to)) = Members(from)
         /\ \A i \in Slot : to[i] \in Members(from) => Transfer(from, to)[i] = to[i]
  <1> DEFINE r == PartyRemove(to, OnlyIn(to, from))
             n == OnlyIn(from, to)
             a == PutIn(r, n[0])
             b == PutIn(a, n[1])
             d == PutIn(b, n[2])
  <1>1. OnlyIn(to, from) \in Party /\ Members(OnlyIn(to, from)) = Members(to) \ Members(from)
    BY OnlyInIs
  <1>2. n \in Party /\ Once(n) /\ Members(n) = Members(from) \ Members(to)
    BY OnlyInIs
  <1>3. r \in Party /\ \A j \in Slot : r[j] = IF to[j] \in Members(to) \ Members(from) THEN NoChar ELSE to[j]
    BY <1>1, PartyRemoveIs
  <1>4. \A j \in Slot : r[j] = IF to[j] \in Members(from) THEN to[j] ELSE NoChar
    BY <1>3 DEF Members
  <1> HIDE DEF r, n
  <1>5. Once(r) /\ Members(r) = Members(to) \cap Members(from)
    <2>1. Once(r)
      BY <1>4 DEF Once
    <2>2. NoChar \notin Members(from)
      BY DEF Members
    <2>3. Members(r) = Members(to) \cap Members(from)
      BY <1>4, <2>2 DEF Members
    <2>4. QED
      BY <2>1, <2>3
  <1>6. /\ n[0] \in Members(n) \cup {NoChar}
        /\ n[1] \in Members(n) \cup {NoChar} /\ (n[1] # n[0] \/ n[1] = NoChar)
        /\ n[2] \in Members(n) \cup {NoChar} /\ ((n[2] # n[0] /\ n[2] # n[1]) \/ n[2] = NoChar)
        /\ Members(n) = ({n[0]} \ {NoChar}) \cup ({n[1]} \ {NoChar}) \cup ({n[2]} \ {NoChar})
    BY <1>2, SlotsOf, Codes DEF Once
  <1>7. NoChar \notin Members(r)
    BY DEF Members
  <1>8. /\ a \in Party /\ Once(a) /\ Members(a) = Members(r) \cup ({n[0]} \ {NoChar})
        /\ \A i \in Slot : r[i] # NoChar => a[i] = r[i]
    BY <1>2, <1>3, <1>5, <1>6, <1>7, PutInIs
  <1> HIDE DEF a
  <1>9. /\ b \in Party /\ Once(b) /\ Members(b) = Members(a) \cup ({n[1]} \ {NoChar})
        /\ \A i \in Slot : a[i] # NoChar => b[i] = a[i]
    <2>1. Members(a) \subseteq Members(from) /\ n[1] \in Members(from) \cup {NoChar}
      BY <1>2, <1>5, <1>6, <1>8
    <2>2. n[1] \notin Members(a)
      BY <1>2, <1>5, <1>6, <1>7, <1>8
    <2>3. QED
      BY <1>8, <2>1, <2>2, PutInIs
  <1> HIDE DEF b
  <1>10. /\ d \in Party /\ Once(d) /\ Members(d) = Members(b) \cup ({n[2]} \ {NoChar})
         /\ \A i \in Slot : b[i] # NoChar => d[i] = b[i]
    <2>1. Members(b) \subseteq Members(from) /\ n[2] \in Members(from) \cup {NoChar}
      BY <1>2, <1>5, <1>6, <1>8, <1>9
    <2>2. n[2] \notin Members(b)
      BY <1>2, <1>5, <1>6, <1>7, <1>8, <1>9
    <2>3. QED
      BY <1>9, <2>1, <2>2, PutInIs
  <1> HIDE DEF d
  <1>11. Transfer(from, to) = d
    BY DEF Transfer, PartyAdd, a, b, d, r, n
  <1>12. Members(d) = Members(from)
    BY <1>2, <1>5, <1>6, <1>8, <1>9, <1>10
  <1>13. ASSUME NEW i \in Slot, to[i] \in Members(from)
         PROVE  d[i] = to[i]
    <2>1. r[i] = to[i] /\ r[i] # NoChar
      BY <1>4, <1>13 DEF Members
    <2>2. QED
      BY <1>8, <1>9, <1>10, <2>1
  <1>14. QED
    BY <1>10, <1>11, <1>12, <1>13

----------------------------------------------------------------------------
(***************************************************************************)
(* Putting a party together anew.                                          *)
(***************************************************************************)
\* Two members go to two slots.
LEMMA MovesApart ==
  ASSUME NEW p, NEW new, NEW j \in Slot, NEW i \in Slot, NEW k \in Slot,
         Moves(p, new, j, i), Moves(p, new, j, k)
  PROVE  i = k
  <1> DEFINE F == {h \in Slot : Free(new, h)}
  <1>1. ASSUME NEW m \in Slot
        PROVE  Cardinality({h \in 0 .. m - 1 : Free(new, h)}) = Below(F, m)
    <2>1. \A h \in 0 .. m - 1 : h \in Slot
      BY DEF Slot
    <2>2. {h \in 0 .. m - 1 : Free(new, h)} = {h \in 0 .. m - 1 : h \in F}
      BY <2>1
    <2>3. QED
      BY <2>2 DEF Below
  <1>2. i \in F /\ k \in F /\ Below(F, i) = Below(F, k)
    BY <1>1 DEF Moves
  <1>3. QED
    BY <1>2, CountApart

LEMMA PartyReplaceIs ==
  ASSUME NEW p \in Party, Once(p), NEW new \in [Slot -> PartyCode],
         \A i, j \in Slot : new[i] = new[j] /\ new[i] \in Char => i = j
  PROVE  PartyReplace(p, new) \in Party /\ Once(PartyReplace(p, new))
  <1> DEFINE g == PartyReplace(p, new)
  <1>1. ASSUME NEW i \in Slot
        PROVE  \/ \E j \in Slot : Moves(p, new, j, i) /\ g[i] = p[j]
               \/ g[i] = IF new[i] = ForcedEmpty THEN NoChar ELSE new[i]
    BY DEF PartyReplace
  <1>2. \A i \in Slot : new[i] \in PartyCode /\ p[i] \in Char \cup {NoChar}
    BY SlotsOf
  <1>3. g \in Party
    <2>1. \A i \in Slot : g[i] \in Char \cup {NoChar}
      BY <1>1, <1>2 DEF PartyCode
    <2>2. QED
      BY <2>1 DEF PartyReplace, Party
  <1>4. ASSUME NEW i \in Slot, NEW k \in Slot, g[i] = g[k], g[i] # NoChar
        PROVE  i = k
    <2>1. ASSUME NEW j \in Slot, Moves(p, new, j, i), g[i] = p[j],
                 NEW h \in Slot, Moves(p, new, h, k), g[k] = p[h]
          PROVE  i = k
      <3>1. j = h
        BY <1>4, <2>1 DEF Once
      <3>2. QED
        BY <2>1, <3>1, MovesApart
    <2>2. ASSUME NEW j \in Slot, NEW m \in Slot, NEW n \in Slot, Moves(p, new, j, m)
          PROVE  p[j] # new[n]
      BY <2>2 DEF Moves, Stays
    <2>3. CASE \E j \in Slot : Moves(p, new, j, i) /\ g[i] = p[j]
      <3>1. g[k] = new[k] => FALSE
        BY <1>4, <2>2, <2>3
      <3>2. QED
        BY <1>1, <1>4, <2>1, <2>3, <3>1
    <2>4. CASE \E h \in Slot : Moves(p, new, h, k) /\ g[k] = p[h]
      <3>1. g[i] = new[i] => FALSE
        BY <1>4, <2>2, <2>4
      <3>2. QED
        BY <1>1, <1>4, <2>1, <2>4, <3>1
    <2>5. CASE g[i] = new[i] /\ g[k] = new[k]
      <3>1. new[i] \in Char
        BY <1>2, <1>3, <1>4, <2>5 DEF Party
      <3>2. QED
        BY <1>4, <2>5, <3>1
    <2>6. QED
      BY <1>1, <1>4, <2>3, <2>4, <2>5
  <1>5. QED
    BY <1>3, <1>4 DEF Once

----------------------------------------------------------------------------
(***************************************************************************)
(* The types.                                                              *)
(***************************************************************************)
PartyOK == /\ party \in Party /\ partyID \in Party /\ kept \in Party \cup {NoParty}
           /\ visible \subseteq Char /\ locked \subseteq Char /\ placed \subseteq Char
           /\ updated \in BOOLEAN /\ menu \in {"none", "asked", "back"}
           /\ pc \in Char \cup {NoChar}
OnceInv == /\ Once(party) /\ Once(partyID)
           /\ kept # NoParty => Once(kept)
HealthOK == /\ points \in [Pool -> [Char -> 0 .. 2 * Half - 1]]
            /\ rec \in [Slot -> [Pool -> -Half .. Half - 1]]
PayOK == gil \in 0 .. GilTop /\ plan \in Plans
IInv == PartyOK /\ OnceInv /\ HealthOK /\ PayOK

\* An action on the line-up leaves everybody's points alone.
LEMMA PayKept ==
  ASSUME HealthOK, PayOK, UNCHANGED <<health, gil, plan>>
  PROVE  HealthOK' /\ PayOK'
  BY DEF HealthOK, PayOK, health

\* The field's party has been carried over to the save data.
Carried == SameMembers' /\ StayPut(partyID, partyID')

LEMMA CarryOver ==
  ASSUME IInv, party' \in Party, Once(party'), PartyFromBank2ToSave, SetPcModel,
         visible' \subseteq Char, UNCHANGED <<locked, kept, placed, menu>>
  PROVE  PartyOK' /\ OnceInv' /\ Carried
  <1>1. partyID' = Transfer(party', partyID) /\ updated' = TRUE
    BY DEF PartyFromBank2ToSave
  <1>2. /\ partyID' \in Party /\ Once(partyID') /\ Members(partyID') = Members(party')
        /\ \A i \in Slot : partyID[i] \in Members(party') => partyID'[i] = partyID[i]
    BY <1>1, TransferIs DEF IInv, PartyOK, OnceInv
  <1>3. pc' \in Char \cup {NoChar}
    BY DEF SetPcModel, IInv, PartyOK
  <1>4. PartyOK'
    BY <1>1, <1>2, <1>3 DEF IInv, PartyOK
  <1>5. OnceInv'
    BY <1>2 DEF IInv, OnceInv
  <1>6. Carried
    BY <1>2 DEF Carried, SameMembers, StayPut
  <1>7. QED
    BY <1>4, <1>5, <1>6

LEMMA PrtypInv ==
  ASSUME IInv, NEW c \in Char, Prtyp(c)
  PROVE  PartyOK' /\ OnceInv' /\ Carried
  <1>1. party' \in Party /\ Once(party')
    <2>1. CASE c \in Members(party)
      BY <2>1 DEF Prtyp, IInv, PartyOK, OnceInv
    <2>2. CASE c \notin Members(party) /\ \E j \in Slot : party[j] = NoChar
      <3>1. party' = PutIn(party, c)
        BY <2>2 DEF Prtyp, FirstFree
      <3> DEFINE g == PutIn(party, c)
      <3>2. /\ g[0] = IF party[0] = NoChar THEN c ELSE party[0]
            /\ g[1] = IF party[0] # NoChar /\ party[1] = NoChar THEN c ELSE party[1]
            /\ g[2] = IF party[0] # NoChar /\ party[1] # NoChar /\ party[2] = NoChar
                      THEN c ELSE party[2]
            /\ g = [j \in Slot |-> g[j]]
        BY PutInSlots DEF IInv, PartyOK
      <3>3. /\ \A j \in Slot : party[j] # c /\ party[j] \in Char \cup {NoChar}
            /\ Once(party) /\ c # NoChar
        BY <2>2, SlotsOf, Codes DEF IInv, PartyOK, OnceInv, Members
      <3> HIDE DEF g
      <3>4. \A j \in Slot : g[j] \in Char \cup {NoChar}
        BY <3>2, <3>3, Codes
      <3>5. g \in Party
        BY <3>2, <3>4 DEF Party
      <3>6. /\ party[0] = party[1] => party[0] = NoChar
            /\ party[0] = party[2] => party[0] = NoChar
            /\ party[1] = party[2] => party[1] = NoChar
            /\ party[0] # c /\ party[1] # c /\ party[2] # c
        BY <3>3, Codes DEF Once
      <3>7. /\ g[0] = g[1] => g[0] = NoChar
            /\ g[0] = g[2] => g[0] = NoChar
            /\ g[1] = g[2] => g[1] = NoChar
        BY <3>2, <3>3, <3>6
      <3>8. Once(g)
        BY <3>7, Codes DEF Once
      <3>9. QED
        BY <3>1, <3>5, <3>8 DEF g
    <2>3. CASE c \notin Members(party) /\ ~\E j \in Slot : party[j] = NoChar
      <3>1. party' = [party EXCEPT ![2] = c]
        BY <2>3 DEF Prtyp, FirstFree
      <3>2. \A j \in Slot : party[j] # c
        BY <2>3, Codes DEF Members
      <3>3. QED
        BY <3>1, <3>2, Codes DEF Party, Once, IInv, PartyOK, OnceInv
    <2>4. QED
      BY <2>1, <2>2, <2>3
  <1>2. visible' \subseteq Char
    BY DEF Prtyp, IInv, PartyOK
  <1>3. QED
    BY <1>1, <1>2, CarryOver DEF Prtyp

LEMMA PrtymInv ==
  ASSUME IInv, NEW c \in Char, Prtym(c)
  PROVE  PartyOK' /\ OnceInv' /\ Carried
  <1>1. party' = TakeOut(c) /\ party \in Party /\ Once(party)
    BY DEF Prtym, IInv, PartyOK, OnceInv
  <1>2. TakeOut(c) = party \/ \E j : TakeOut(c) = [party EXCEPT ![j] = NoChar]
    BY DEF TakeOut
  <1>3. party' \in Party /\ Once(party')
    BY <1>1, <1>2 DEF Party, Once
  <1>4. visible' \subseteq Char
    BY DEF Prtym, IInv, PartyOK
  <1>5. QED
    BY <1>3, <1>4, CarryOver DEF Prtym

LEMMA ReplaceInv ==
  ASSUME IInv, NEW new \in [Slot -> PartyCode], Replace(new),
         \A i, j \in Slot : new[i] = new[j] /\ new[i] \in Char => i = j
  PROVE  PartyOK' /\ OnceInv' /\ Carried
  <1>1. party' = PartyReplace(party, new) /\ party \in Party /\ Once(party)
    BY DEF Replace, IInv, PartyOK, OnceInv
  <1>2. party' \in Party /\ Once(party')
    BY <1>1, PartyReplaceIs
  <1>3. visible' \subseteq Char
    BY <1>2, SlotsOf DEF Replace, IInv, PartyOK
  <1>4. QED
    BY <1>2, <1>3, CarryOver DEF Replace

LEMMA PrtyeInv ==
  ASSUME IInv, Prtye \/ Sptye
  PROVE  PartyOK' /\ OnceInv' /\ Carried
  <1>1. CASE Prtye
    <2>1. PICK new \in Triples : Replace(new)
      BY <1>1 DEF Prtye
    <2>2. /\ new \in [Slot -> PartyCode]
          /\ \A i, j \in Slot : new[i] = new[j] /\ new[i] \in Char => i = j
      BY MembersAssumption
    <2>3. QED
      BY <2>1, <2>2, ReplaceInv
  <1>2. CASE Sptye
    <2>1. kept \in Party /\ Once(kept) /\ Replace(kept)
      BY <1>2 DEF Sptye, IInv, PartyOK, OnceInv
    <2>2. /\ kept \in [Slot -> PartyCode]
          /\ \A i, j \in Slot : kept[i] = kept[j] /\ kept[i] \in Char => i = j
      BY <2>1, Codes DEF Party, PartyCode, Once
    <2>3. QED
      BY <2>1, <2>2, ReplaceInv
  <1>3. QED
    BY <1>1, <1>2

\* The menu's party has been carried over to the field.
LEMMA MenuEndInv ==
  ASSUME IInv, MenuEnd
  PROVE  PartyOK' /\ OnceInv' /\ SameMembers' /\ StayPut(party, party')
  <1>1. party' = Transfer(partyID, party) /\ UNCHANGED <<partyID, visible, locked, kept, updated, placed, pc>>
        /\ menu' = "none"
    BY DEF MenuEnd, PartyFromSaveToBank2
  <1>2. /\ party' \in Party /\ Once(party') /\ Members(party') = Members(partyID)
        /\ \A i \in Slot : party[i] \in Members(partyID) => party'[i] = party[i]
    BY <1>1, TransferIs DEF IInv, PartyOK, OnceInv
  <1>3. PartyOK' /\ OnceInv'
    BY <1>1, <1>2 DEF IInv, PartyOK, OnceInv
  <1>4. QED
    BY <1>1, <1>2, <1>3 DEF SameMembers, StayPut

LEMMA MmbInv ==
  ASSUME IInv, NEW c \in Char, MmbPlus(c) \/ MmbMinus(c) \/ Mmblk(c) \/ Mmbuk(c)
  PROVE  PartyOK' /\ OnceInv'
  <1>1. party' \in Party /\ Once(party')
    <2>1. party \in Party /\ Once(party)
      BY DEF IInv, PartyOK, OnceInv
    <2>2. CASE MmbMinus(c)
      <3>1. party' = [j \in Slot |-> IF party[j] = c THEN NoChar ELSE party[j]]
        BY <2>2 DEF MmbMinus
      <3>2. QED
        BY <2>1, <3>1 DEF Party, Once
    <2>3. CASE MmbPlus(c) \/ Mmblk(c) \/ Mmbuk(c)
      BY <2>1, <2>3 DEF MmbPlus, Mmblk, Mmbuk
    <2>4. QED
      BY <2>2, <2>3
  <1>2. visible' \subseteq Char /\ locked' \subseteq Char
    BY DEF MmbPlus, MmbMinus, Mmblk, Mmbuk, IInv, PartyOK
  <1>3. UNCHANGED <<partyID, kept, updated, placed, pc, menu>>
    BY DEF MmbPlus, MmbMinus, Mmblk, Mmbuk
  <1>4. QED
    BY <1>1, <1>2, <1>3 DEF IInv, PartyOK, OnceInv

LEMMA OtherPartyInv ==
  ASSUME IInv, \/ Gptye \/ NextMap \/ Rsglb \/ WorldMap \/ MenuOn \/ MenuLeave
               \/ \E c \in Char : Pc(c) \/ Cc(c)
               \/ \E i \in Slot, c \in Char \cup {NoChar} : MenuExchange(i, c)
  PROVE  PartyOK' /\ OnceInv'
  <1>1. party \in Party /\ partyID \in Party /\ Once(party) /\ Once(partyID)
    BY DEF IInv, PartyOK, OnceInv
  <1>2. CASE Gptye
    BY <1>2 DEF Gptye, IInv, PartyOK, OnceInv
  <1>3. CASE NextMap \/ WorldMap \/ MenuOn \/ MenuLeave \/ \E c \in Char : Pc(c) \/ Cc(c)
    BY <1>3, Codes DEF NextMap, WorldMap, MenuOn, MenuLeave, Pc, Cc, lineup, IInv, PartyOK, OnceInv
  <1>4. CASE Rsglb
    <2>1. party' = [i \in Slot |-> IF i = 0 THEN 0 ELSE NoChar]
      BY <1>4 DEF Rsglb
    <2>2. party' \in Party /\ Once(party')
      BY <2>1, Codes DEF Party, Once
    <2>3. QED
      BY <1>4, <2>2, Codes DEF Rsglb, IInv, PartyOK, OnceInv
  <1>5. ASSUME NEW i \in Slot, NEW c \in Char \cup {NoChar}, MenuExchange(i, c)
        PROVE  PartyOK' /\ OnceInv'
    <2>1. partyID' = [partyID EXCEPT ![i] = c] /\ c \notin Members(partyID)
      BY <1>5 DEF MenuExchange
    <2>2. \A j \in Slot : partyID[j] # NoChar => partyID[j] # c
      BY <2>1 DEF Members
    <2>3. partyID' \in Party /\ Once(partyID')
      BY <1>1, <2>1, <2>2 DEF Party, Once
    <2>4. QED
      BY <1>5, <2>3 DEF MenuExchange, IInv, PartyOK, OnceInv
  <1>6. QED
    BY <1>2, <1>3, <1>4, <1>5

----------------------------------------------------------------------------
(***************************************************************************)
(* Numbers in sixteen bits.                                                *)
(***************************************************************************)
LEMMA Sizes ==
  /\ MaxPoints \in Nat /\ Full \in Nat /\ Half \in Nat
  /\ Full >= MaxPoints /\ MaxPoints + Full < Half
  /\ Half > 0 /\ 2 * Half \in Nat /\ 2 * Half > 0
  /\ \A a \in Amounts : a \in -Half .. Half - 1
  BY MembersAssumption

\* A remainder does not change by a multiple of the divisor.
LEMMA Remainder ==
  ASSUME NEW m \in Nat, m > 0, NEW x \in Int, NEW y \in Int, NEW k \in Int, y = x - m * k
  PROVE  y % m = x % m
  <1>1. PICK q \in Int, r \in 0 .. m - 1 : x = q * m + r /\ r = x % m
    <2>1. x = (x \div m) * m + (x % m) /\ x \div m \in Int /\ x % m \in 0 .. m - 1
      OBVIOUS
    <2>2. QED
      BY <2>1
  <1>2. PICK d \in Int, t \in 0 .. m - 1 : y = d * m + t /\ t = y % m
    <2>1. y = (y \div m) * m + (y % m) /\ y \div m \in Int /\ y % m \in 0 .. m - 1
      OBVIOUS
    <2>2. QED
      BY <2>1
  <1>3. PICK e \in Int : e = q - k - d
    OBVIOUS
  <1>4. m * e = m * q - m * k - m * d
    BY <1>3
  <1>5. m * e = t - r
    BY <1>1, <1>2, <1>4
  <1>6. e = 0
    <2>1. CASE e >= 1
      <3>1. m * e >= m
        BY <2>1
      <3>2. QED
        BY <3>1, <1>5
    <2>2. CASE e <= -1
      <3>1. m * e <= -m
        BY <2>2
      <3>2. QED
        BY <3>1, <1>5
    <2>3. QED
      BY <2>1, <2>2
  <1>7. m * e = 0
    BY <1>6
  <1>8. QED
    BY <1>1, <1>2, <1>5, <1>7

LEMMA UnsignedIs ==
  ASSUME NEW n \in Int
  PROVE  /\ Unsigned(n) \in 0 .. 2 * Half - 1
         /\ n \in 0 .. 2 * Half - 1 => Unsigned(n) = n
  <1>1. \A x \in Int, m \in Nat : m > 0 => x % m \in 0 .. m - 1
    OBVIOUS
  <1>2. \A x \in Int, m \in Nat : m > 0 /\ x \in 0 .. m - 1 => x % m = x
    OBVIOUS
  <1>3. QED
    BY <1>1, <1>2, Sizes DEF Unsigned

LEMMA WrapIs ==
  ASSUME NEW n \in Int
  PROVE  /\ Wrap(n) \in -Half .. Half - 1
         /\ n \in -Half .. Half - 1 => Wrap(n) = n
         /\ \E k \in Int : Wrap(n) = n - (2 * Half) * k
  <1> DEFINE x == n + Half
             m == 2 * Half
  <1>1. x \in Int /\ m \in Nat /\ m > 0
    BY Sizes
  <1>2. Wrap(n) = (x % m) - Half
    BY DEF Wrap
  <1>3. x % m \in 0 .. m - 1 /\ x = (x \div m) * m + (x % m) /\ x \div m \in Int
    <2> HIDE DEF x, m
    <2>1. QED
      BY <1>1
  <1>4. x \in 0 .. m - 1 => x % m = x
    <2> HIDE DEF x, m
    <2>1. QED
      BY <1>1
  <1>5. Wrap(n) = n - m * (x \div m)
    <2>1. PICK q \in Int, r \in Int : q = x \div m /\ r = x % m /\ x = q * m + r
      BY <1>3
    <2>2. n + Half = q * m + r /\ Wrap(n) = r - Half
      BY <1>2, <2>1
    <2>3. QED
      BY <1>1, <2>1, <2>2, Sizes
  <1>6. PICK r \in Int : r = x % m /\ r \in 0 .. m - 1 /\ (x \in 0 .. m - 1 => r = x)
    BY <1>3, <1>4
  <1>7. Wrap(n) \in -Half .. Half - 1
    BY <1>2, <1>6, Sizes
  <1>8. n \in -Half .. Half - 1 => Wrap(n) = n
    BY <1>2, <1>6, Sizes
  <1>9. QED
    BY <1>3, <1>5, <1>7, <1>8

\* What is stored with a sign and read without one is the same number again.
LEMMA StoredTwice ==
  ASSUME NEW n \in Int, NEW a \in Int
  PROVE  Unsigned(Wrap(Wrap(n) + a)) = (n + a) % (2 * Half)
  <1>1. PICK k \in Int : Wrap(n) = n - (2 * Half) * k
    BY WrapIs
  <1>2. Wrap(n) + a \in Int
    BY WrapIs, Sizes
  <1>3. PICK h \in Int : Wrap(Wrap(n) + a) = (Wrap(n) + a) - (2 * Half) * h
    BY <1>2, WrapIs
  <1>4. PICK w \in Int : w = Wrap(Wrap(n) + a)
    BY <1>2, WrapIs, Sizes
  <1>5. w = (n + a) - (2 * Half) * (k + h)
    BY <1>1, <1>3, <1>4, Sizes
  <1>6. w % (2 * Half) = (n + a) % (2 * Half)
    BY <1>5, Remainder, Sizes
  <1>7. QED
    BY <1>4, <1>6 DEF Unsigned

----------------------------------------------------------------------------
(***************************************************************************)
(* Points.  Whatever is made of them goes into the save data through a     *)
(* battle record that has just been made anew from the same save data.     *)
(***************************************************************************)
PointsType == [Pool -> [Char -> 0 .. 2 * Half - 1]]
RecType    == [Slot -> [Pool -> -Half .. Half - 1]]

\* The sum goes into the record as it is if it fits, and is capped after.
LEMMA AddedIs ==
  ASSUME NEW n \in 0 .. 2 * Half - 1, NEW a \in -Half .. Half - 1
  PROVE  /\ Added(Wrap(n), a) \in -Half .. Half - 1
         /\ Unsigned(Added(Wrap(n), a)) \in Given(n, a)
         /\ n <= MaxPoints /\ n + a \in 0 .. Half - 1 =>
              Added(Wrap(n), a) = Limited(n + a) /\ Limited(n + a) \in 0 .. MaxPoints
  <1> DEFINE sum == Wrap(Wrap(n) + a)
  <1>1. n \in Int /\ a \in Int /\ Wrap(n) \in -Half .. Half - 1
    BY Sizes, WrapIs
  <1>2. Wrap(n) + a \in Int /\ sum \in -Half .. Half - 1
    <2>1. Wrap(n) + a \in Int
      BY <1>1, Sizes
    <2>2. QED
      BY <2>1, WrapIs
  <1>3. Added(Wrap(n), a) = IF sum > MaxPoints THEN MaxPoints ELSE sum
    BY DEF Added
  <1>4. Unsigned(sum) = (n + a) % (2 * Half)
    BY <1>1, StoredTwice
  <1>5. Unsigned(MaxPoints) = MaxPoints
    BY UnsignedIs, Sizes
  <1>6. ASSUME n <= MaxPoints, n + a \in 0 .. Half - 1
        PROVE  sum = n + a
    <2>1. n \in -Half .. Half - 1
      BY <1>1, <1>6, Sizes
    <2>2. Wrap(n) = n
      BY <1>1, <2>1, WrapIs
    <2>3. n + a \in -Half .. Half - 1 /\ n + a \in Int
      BY <1>1, <1>6, Sizes
    <2>4. QED
      BY <2>2, <2>3, WrapIs
  <1> HIDE DEF sum
  <1>7. Added(Wrap(n), a) \in -Half .. Half - 1
    BY <1>2, <1>3, Sizes
  <1>8. ASSUME n <= MaxPoints, n + a \in 0 .. Half - 1
        PROVE  Added(Wrap(n), a) = Limited(n + a) /\ Limited(n + a) \in 0 .. MaxPoints
    BY <1>1, <1>3, <1>6, <1>8, Sizes DEF Limited
  <1>9. Unsigned(Added(Wrap(n), a)) \in Given(n, a)
    <2>1. CASE n <= MaxPoints /\ n + a \in 0 .. Half - 1
      <3>1. Limited(n + a) \in 0 .. 2 * Half - 1 /\ Limited(n + a) \in Int
        BY <1>8, <2>1, Sizes
      <3>2. Unsigned(Limited(n + a)) = Limited(n + a)
        BY <3>1, UnsignedIs
      <3>3. QED
        BY <1>8, <2>1, <3>2 DEF Given
    <2>2. CASE ~(n <= MaxPoints /\ n + a \in 0 .. Half - 1)
      <3>1. Given(n, a) = {MaxPoints, (n + a) % (2 * Half)}
        BY <2>2 DEF Given
      <3>2. Added(Wrap(n), a) = MaxPoints \/ Added(Wrap(n), a) = sum
        BY <1>3
      <3>3. QED
        BY <1>4, <1>5, <3>1, <3>2
    <2>3. QED
      BY <2>1, <2>2
  <1>10. QED
    BY <1>7, <1>8, <1>9

\* A difference is stopped at zero before it goes into the record.
LEMMA SubtractedIs ==
  ASSUME NEW n \in 0 .. 2 * Half - 1, NEW a \in -Half .. Half - 1
  PROVE  /\ Subtracted(Wrap(n), a) \in -Half .. Half - 1
         /\ Unsigned(Subtracted(Wrap(n), a)) \in Taken(n, a)
         /\ n <= MaxPoints /\ n - a <= MaxPoints =>
              Subtracted(Wrap(n), a) = Limited(n - a) /\ Limited(n - a) \in 0 .. MaxPoints
  <1> DEFINE rest == Wrap(Wrap(n) - a)
  <1>1. n \in Int /\ a \in Int /\ -a \in Int /\ Wrap(n) \in -Half .. Half - 1 /\ Wrap(n) \in Int
    BY Sizes, WrapIs
  <1>2. Wrap(n) - a \in Int /\ Wrap(n) - a = Wrap(n) + (-a) /\ n - a = n + (-a)
    BY <1>1
  <1>3. rest \in -Half .. Half - 1
    BY <1>2, WrapIs
  <1>4. Subtracted(Wrap(n), a) = IF Wrap(n) - a < 0 THEN 0 ELSE rest
    BY DEF Subtracted
  <1>5. Unsigned(rest) = (n - a) % (2 * Half)
    <2>1. Unsigned(Wrap(Wrap(n) + (-a))) = (n + (-a)) % (2 * Half)
      BY <1>1, StoredTwice
    <2>2. QED
      BY <1>2, <2>1
  <1>6. Unsigned(0) = 0
    BY UnsignedIs, Sizes
  <1>7. ASSUME n <= MaxPoints, n - a <= MaxPoints
        PROVE  Wrap(n) = n /\ (n - a >= 0 => rest = n - a)
    <2>1. n \in -Half .. Half - 1
      BY <1>1, <1>7, Sizes
    <2>2. Wrap(n) = n
      BY <1>1, <2>1, WrapIs
    <2>3. n - a >= 0 => n - a \in -Half .. Half - 1 /\ n - a \in Int
      BY <1>1, <1>7, Sizes
    <2>4. QED
      BY <2>2, <2>3, WrapIs
  <1> HIDE DEF rest
  <1>8. Subtracted(Wrap(n), a) \in -Half .. Half - 1
    BY <1>3, <1>4, Sizes
  <1>9. ASSUME n <= MaxPoints, n - a <= MaxPoints
        PROVE  Subtracted(Wrap(n), a) = Limited(n - a) /\ Limited(n - a) \in 0 .. MaxPoints
    <2>1. Wrap(n) = n /\ (n - a >= 0 => rest = n - a)
      BY <1>7, <1>9
    <2>2. Subtracted(Wrap(n), a) = IF n - a < 0 THEN 0 ELSE rest
      BY <1>4, <2>1
    <2>3. Subtracted(Wrap(n), a) = IF n - a < 0 THEN 0 ELSE n - a
      <3>1. CASE n - a < 0
        BY <2>2, <3>1
      <3>2. CASE ~(n - a < 0)
        <4>1. n - a >= 0
          BY <1>1, <3>2
        <4>2. QED
          BY <2>1, <2>2, <3>2, <4>1
      <3>3. QED
        BY <3>1, <3>2
    <2>4. QED
      BY <1>1, <1>9, <2>3, Sizes DEF Limited
  <1>10. Unsigned(Subtracted(Wrap(n), a)) \in Taken(n, a)
    <2>1. CASE n <= MaxPoints /\ n - a <= MaxPoints
      <3>1. Limited(n - a) \in 0 .. 2 * Half - 1 /\ Limited(n - a) \in Int
        BY <1>9, <2>1, Sizes
      <3>2. Unsigned(Limited(n - a)) = Limited(n - a)
        BY <3>1, UnsignedIs
      <3>3. QED
        BY <1>9, <2>1, <3>2 DEF Taken
    <2>2. CASE ~(n <= MaxPoints /\ n - a <= MaxPoints)
      <3>1. Taken(n, a) = {0, (n - a) % (2 * Half)}
        BY <2>2 DEF Taken
      <3>2. Subtracted(Wrap(n), a) = 0 \/ Subtracted(Wrap(n), a) = rest
        BY <1>4
      <3>3. QED
        BY <1>5, <1>6, <3>1, <3>2
    <2>3. QED
      BY <2>1, <2>2
  <1>11. QED
    BY <1>8, <1>9, <1>10

LEMMA FreshIs ==
  ASSUME NEW r \in RecType, NEW pts \in PointsType, NEW who \in Party
  PROVE  /\ Fresh(r, pts, who) \in RecType
         /\ \A i \in Slot, p \in Pool :
              /\ who[i] = NoChar => Fresh(r, pts, who)[i][p] = r[i][p]
              /\ who[i] # NoChar =>
                   /\ Owner[who[i]] \in Char
                   /\ Fresh(r, pts, who)[i][p] = Wrap(pts[p][Owner[who[i]]])
  <1>1. \A i \in Slot : who[i] # NoChar => Owner[who[i]] \in Char
    BY SlotsOf, MembersAssumption
  <1>2. \A i \in Slot, p \in Pool :
          who[i] # NoChar => Wrap(pts[p][Owner[who[i]]]) \in -Half .. Half - 1
    <2>1. \A p \in Pool, c \in Char : pts[p][c] \in Int
      BY Sizes DEF PointsType
    <2>2. QED
      BY <1>1, <2>1, WrapIs
  <1>3. QED
    BY <1>1, <1>2 DEF Fresh, RecType

\* A pool within its limits is copied as it is.
LEMMA FreshInLimits ==
  ASSUME NEW n \in 0 .. MaxPoints
  PROVE  Wrap(n) = n /\ n \in 0 .. 2 * Half - 1
  BY WrapIs, Sizes

PointsIn(pts) == \A p \in Pool, c \in Char : pts[p][c] \in 0 .. MaxPoints
RecIn(r)      == \A i \in Slot, p \in Pool : r[i][p] \in 0 .. MaxPoints
Touched(who, c) == \E i \in Slot : who[i] # NoChar /\ Owner[who[i]] = c

\* Filling a line-up up gives its members what it should and leaves the others
\* what they had.
LEMMA RestoredIs ==
  ASSUME NEW r \in RecType, NEW pts \in PointsType, NEW who \in Party
  PROVE  /\ Restored(r, pts, who)[1] \in RecType
         /\ Restored(r, pts, who)[2] \in PointsType
         /\ \A p \in Pool, c \in Char :
              /\ ~Touched(who, c) => Restored(r, pts, who)[2][p][c] = pts[p][c]
              /\ Touched(who, c) => Restored(r, pts, who)[2][p][c] \in Given(pts[p][c], Full)
         /\ PointsIn(pts) /\ RecIn(r) => /\ PointsIn(Restored(r, pts, who)[2])
                                         /\ RecIn(Restored(r, pts, who)[1])
  <1> DEFINE fresh == Fresh(r, pts, who)
             More(p, i) == Added(fresh[i][p], Full)
             At(c) == CHOOSE i \in Slot : who[i] # NoChar /\ Owner[who[i]] = c
             one == [i \in Slot |-> IF who[i] = NoChar THEN fresh[i]
                                    ELSE [p \in Pool |-> More(p, i)]]
             two == [p \in Pool |-> [c \in Char |->
                      IF \E i \in Slot : who[i] # NoChar /\ Owner[who[i]] = c
                      THEN Unsigned(More(p, At(c))) ELSE pts[p][c]]]
  <1>1. Restored(r, pts, who) = <<one, two>>
    BY DEF Restored
  <1>2. /\ fresh \in RecType
        /\ \A i \in Slot, p \in Pool :
             /\ who[i] = NoChar => fresh[i][p] = r[i][p]
             /\ who[i] # NoChar => /\ Owner[who[i]] \in Char
                                   /\ fresh[i][p] = Wrap(pts[p][Owner[who[i]]])
    BY FreshIs
  <1>3. Full \in -Half .. Half - 1
    BY Sizes
  <1>4. ASSUME NEW i \in Slot, NEW p \in Pool, who[i] # NoChar
        PROVE  /\ More(p, i) \in -Half .. Half - 1
               /\ Unsigned(More(p, i)) \in Given(pts[p][Owner[who[i]]], Full)
               /\ Unsigned(More(p, i)) \in 0 .. 2 * Half - 1
               /\ PointsIn(pts) => /\ More(p, i) \in 0 .. MaxPoints
                                   /\ Unsigned(More(p, i)) \in 0 .. MaxPoints
    <2> DEFINE n == pts[p][Owner[who[i]]]
    <2>1. n \in 0 .. 2 * Half - 1 /\ More(p, i) = Added(Wrap(n), Full)
      BY <1>2, <1>4 DEF PointsType
    <2>2. PointsIn(pts) => n \in 0 .. MaxPoints
      BY <1>2, <1>4 DEF PointsIn
    <2> HIDE DEF n, More
    <2>3. /\ More(p, i) \in -Half .. Half - 1
          /\ Unsigned(More(p, i)) \in Given(n, Full)
          /\ n <= MaxPoints /\ n + Full \in 0 .. Half - 1 => More(p, i) \in 0 .. MaxPoints
      BY <1>3, <2>1, AddedIs
    <2>4. Unsigned(More(p, i)) \in 0 .. 2 * Half - 1
          /\ (More(p, i) \in 0 .. 2 * Half - 1 => Unsigned(More(p, i)) = More(p, i))
      BY <2>3, UnsignedIs, Sizes
    <2>5. PointsIn(pts) => More(p, i) \in 0 .. MaxPoints
      BY <2>1, <2>2, <2>3, Sizes
    <2>6. PointsIn(pts) => Unsigned(More(p, i)) \in 0 .. MaxPoints
      BY <2>4, <2>5, Sizes
    <2>7. QED
      BY <2>3, <2>4, <2>5, <2>6 DEF n
  <1> HIDE DEF fresh, More
  <1>5. one \in RecType
    BY <1>2, <1>4 DEF RecType
  <1>6. ASSUME NEW p \in Pool, NEW c \in Char
        PROVE  /\ two[p][c] \in 0 .. 2 * Half - 1
               /\ ~Touched(who, c) => two[p][c] = pts[p][c]
               /\ Touched(who, c) => two[p][c] \in Given(pts[p][c], Full)
               /\ PointsIn(pts) => two[p][c] \in 0 .. MaxPoints
    <2>1. CASE Touched(who, c)
      <3>1. At(c) \in Slot /\ who[At(c)] # NoChar /\ Owner[who[At(c)]] = c
        BY <2>1 DEF Touched
      <3>2. two[p][c] = Unsigned(More(p, At(c)))
        BY <2>1 DEF Touched
      <3> HIDE DEF At, two
      <3>3. QED
        BY <1>4, <2>1, <3>1, <3>2
    <2>2. CASE ~Touched(who, c)
      <3>1. two[p][c] = pts[p][c]
        BY <2>2 DEF Touched
      <3> HIDE DEF two
      <3>2. QED
        BY <2>2, <3>1 DEF PointsType, PointsIn
    <2>3. QED
      BY <2>1, <2>2
  <1>7. two \in PointsType
    BY <1>6 DEF PointsType
  <1>8. PointsIn(pts) /\ RecIn(r) => RecIn(one)
    <2>1. ASSUME NEW i \in Slot, NEW p \in Pool, who[i] = NoChar, RecIn(r)
          PROVE  one[i][p] \in 0 .. MaxPoints
      BY <1>2, <2>1 DEF RecIn
    <2>2. ASSUME NEW i \in Slot, NEW p \in Pool, who[i] # NoChar, PointsIn(pts)
          PROVE  one[i][p] \in 0 .. MaxPoints
      BY <1>4, <2>2
    <2>3. QED
      BY <2>1, <2>2 DEF RecIn
  <1>9. PointsIn(pts) => PointsIn(two)
    BY <1>6 DEF PointsIn
  <1> HIDE DEF one, two
  <1>10. QED
    BY <1>1, <1>5, <1>6, <1>7, <1>8, <1>9

\* Everybody is filled up or left alone.
AllFilled == \A p \in Pool, c \in Char : points'[p][c] \in Filled(points[p][c])

\* What a step leaves of points: types, and the limits once they are kept.
HealthKept == HealthOK' /\ (SmallAmounts /\ PoolsInLimits => PoolsInLimits')

LEMMA LimitsAre == PoolsInLimits <=> PointsIn(points) /\ RecIn(rec)
  BY DEF PoolsInLimits, PointsIn, RecIn

LEMMA LimitsNext ==
  ASSUME PointsIn(points'), RecIn(rec')
  PROVE  PoolsInLimits'
  BY DEF PoolsInLimits, PointsIn, RecIn

LEMMA HmpmxInv ==
  ASSUME IInv, Hmpmx
  PROVE  HealthKept /\ AllFilled
  <1>1. rec \in RecType /\ points \in PointsType /\ partyID \in Party
    BY DEF IInv, HealthOK, PartyOK, RecType, PointsType
  <1>2. rec' = Restored(rec, points, partyID)[1] /\ points' = Restored(rec, points, partyID)[2]
    BY DEF Hmpmx
  <1>3. /\ rec' \in RecType /\ points' \in PointsType
        /\ \A p \in Pool, c \in Char :
              points'[p][c] \in {points[p][c]} \cup Given(points[p][c], Full)
        /\ PointsIn(points) /\ RecIn(rec) => PointsIn(points') /\ RecIn(rec')
    BY <1>1, <1>2, RestoredIs
  <1>4. AllFilled
    BY <1>3 DEF AllFilled, Filled
  <1>5. PoolsInLimits => PoolsInLimits'
    BY <1>3, LimitsAre, LimitsNext
  <1>6. QED
    BY <1>3, <1>4, <1>5 DEF HealthKept, HealthOK, RecType, PointsType

\* Nobody has a record of his own in two of the line-ups that MHMMX goes through.
LEMMA MhmmxInv ==
  ASSUME IInv, Mhmmx
  PROVE  HealthKept /\ AllFilled
  <1> DEFINE Own(c) == c \in Char /\ Owner[c] = c
             Three(n) == [i \in Slot |-> IF Own(n + i) THEN n + i ELSE NoChar]
             a == Restored(rec, points, Three(0))
             b == Restored(a[1], a[2], Three(3))
             d == Restored(b[1], b[2], Three(6))
             now == Restored(d[1], d[2], partyID)
  <1>1. rec \in RecType /\ points \in PointsType /\ partyID \in Party
    BY DEF IInv, HealthOK, PartyOK, RecType, PointsType
  <1>2. rec' = now[1] /\ points' = now[2]
    BY DEF Mhmmx
  <1>3. \A n : Three(n) \in Party
    BY DEF Party
  <1>4. ASSUME NEW n \in Nat, NEW c \in Char, Touched(Three(n), c)
        PROVE  c \in n .. n + 2
    <2>1. PICK i \in Slot : Three(n)[i] # NoChar /\ Owner[Three(n)[i]] = c
      BY <1>4 DEF Touched
    <2>2. c = n + i
      BY <2>1
    <2>3. QED
      BY <2>2 DEF Slot
  <1>5. \A c \in Char : /\ ~(Touched(Three(0), c) /\ Touched(Three(3), c))
                        /\ ~(Touched(Three(0), c) /\ Touched(Three(6), c))
                        /\ ~(Touched(Three(3), c) /\ Touched(Three(6), c))
    <2>1. ASSUME NEW c \in Char
          PROVE  /\ Touched(Three(0), c) => c \in 0 .. 2
                 /\ Touched(Three(3), c) => c \in 3 .. 5
                 /\ Touched(Three(6), c) => c \in 6 .. 8
      <3>1. Touched(Three(0), c) => c \in 0 .. 0 + 2
        BY <1>4
      <3>2. Touched(Three(3), c) => c \in 3 .. 3 + 2
        BY <1>4
      <3>3. Touched(Three(6), c) => c \in 6 .. 6 + 2
        BY <1>4
      <3> HIDE DEF Three
      <3>4. QED
        BY <3>1, <3>2, <3>3
    <2> HIDE DEF Three
    <2>2. QED
      BY <2>1
  <1> HIDE DEF Three
  <1>6. /\ a[1] \in RecType /\ a[2] \in PointsType
        /\ \A p \in Pool, c \in Char :
             /\ ~Touched(Three(0), c) => a[2][p][c] = points[p][c]
             /\ Touched(Three(0), c) => a[2][p][c] \in Given(points[p][c], Full)
        /\ PointsIn(points) /\ RecIn(rec) => PointsIn(a[2]) /\ RecIn(a[1])
    BY <1>1, <1>3, RestoredIs
  <1> HIDE DEF a
  <1>7. /\ b[1] \in RecType /\ b[2] \in PointsType
        /\ \A p \in Pool, c \in Char :
             /\ ~Touched(Three(3), c) => b[2][p][c] = a[2][p][c]
             /\ Touched(Three(3), c) => b[2][p][c] \in Given(a[2][p][c], Full)
        /\ PointsIn(a[2]) /\ RecIn(a[1]) => PointsIn(b[2]) /\ RecIn(b[1])
    BY <1>3, <1>6, RestoredIs
  <1> HIDE DEF b
  <1>8. /\ d[1] \in RecType /\ d[2] \in PointsType
        /\ \A p \in Pool, c \in Char :
             /\ ~Touched(Three(6), c) => d[2][p][c] = b[2][p][c]
             /\ Touched(Three(6), c) => d[2][p][c] \in Given(b[2][p][c], Full)
        /\ PointsIn(b[2]) /\ RecIn(b[1]) => PointsIn(d[2]) /\ RecIn(d[1])
    BY <1>3, <1>7, RestoredIs
  <1> HIDE DEF d
  <1>9. /\ now[1] \in RecType /\ now[2] \in PointsType
        /\ \A p \in Pool, c \in Char :
              now[2][p][c] = d[2][p][c] \/ now[2][p][c] \in Given(d[2][p][c], Full)
        /\ PointsIn(d[2]) /\ RecIn(d[1]) => PointsIn(now[2]) /\ RecIn(now[1])
    BY <1>1, <1>8, RestoredIs
  <1> HIDE DEF now
  <1>10. ASSUME NEW p \in Pool, NEW c \in Char
         PROVE  points'[p][c] \in Filled(points[p][c])
    <2>1. d[2][p][c] = points[p][c] \/ d[2][p][c] \in Given(points[p][c], Full)
      BY <1>5, <1>6, <1>7, <1>8
    <2>2. points'[p][c] = d[2][p][c] \/ points'[p][c] \in Given(d[2][p][c], Full)
      BY <1>2, <1>9
    <2>3. QED
      BY <2>1, <2>2 DEF Filled
  <1>11. PoolsInLimits => PoolsInLimits'
    BY <1>2, <1>6, <1>7, <1>8, <1>9, LimitsAre, LimitsNext
  <1>12. QED
    BY <1>2, <1>9, <1>10, <1>11 DEF HealthKept, HealthOK, RecType, PointsType, AllFilled

\* What a slot of a pool becomes, in the record and in the save data.
LEMMA GetsIs ==
  ASSUME NEW r \in RecType, NEW pts \in PointsType, partyID \in Party,
         NEW i \in Slot, partyID[i] # NoChar, NEW p \in Pool, NEW n \in -Half .. Half - 1
  PROVE  /\ Gets(r, pts, i, p, n)[1] \in RecType
         /\ Gets(r, pts, i, p, n)[2] \in PointsType
         /\ Gets(r, pts, i, p, n)[1] = [r EXCEPT ![i][p] = n]
         /\ Gets(r, pts, i, p, n)[2] = [pts EXCEPT ![p][Owner[partyID[i]]] = Unsigned(n)]
  <1>1. Owner[partyID[i]] \in Char
    BY SlotsOf, MembersAssumption
  <1>2. Gets(r, pts, i, p, n) = << [r EXCEPT ![i][p] = n],
                                   [pts EXCEPT ![p][Owner[partyID[i]]] = Unsigned(n)] >>
    BY DEF Gets
  <1>3. [r EXCEPT ![i][p] = n] \in RecType
    BY DEF RecType
  <1>4. Unsigned(n) \in 0 .. 2 * Half - 1
    BY UnsignedIs, Sizes
  <1>5. [pts EXCEPT ![p][Owner[partyID[i]]] = Unsigned(n)] \in PointsType
    BY <1>1, <1>4 DEF PointsType
  <1>6. QED
    BY <1>2, <1>3, <1>5

\* One pool of one character changes to n.
Becomes(p, c, n) == points' = [points EXCEPT ![p][c] = n]

\* HP+-, MP+- of a member: what Change(n) gives for the pool as it is in the
\* record, v, goes into the record and the save data; of anybody else: nothing.
LEMMA MemberGets ==
  ASSUME IInv, NEW p \in Pool, NEW s \in Slot,
         party[s] # NoChar, party[s] \in Members(partyID)
  PROVE  LET r == Fresh(rec, points, partyID)
             i == CHOOSE j \in Slot : partyID[j] = party[s]
         IN /\ i \in Slot /\ partyID[i] = party[s] /\ r \in RecType
            /\ Owner[partyID[i]] \in Char
            /\ r[i][p] = Wrap(points[p][Owner[partyID[i]]])
            /\ points[p][Owner[partyID[i]]] \in 0 .. 2 * Half - 1
            /\ PoolsInLimits => RecIn(r)
  <1> DEFINE r == Fresh(rec, points, partyID)
             i == CHOOSE j \in Slot : partyID[j] = party[s]
  <1>1. rec \in RecType /\ points \in PointsType /\ partyID \in Party
    BY DEF IInv, HealthOK, PartyOK, RecType, PointsType
  <1>2. i \in Slot /\ partyID[i] = party[s]
    BY DEF Members
  <1>3. r \in RecType /\ \A j \in Slot, q \in Pool :
          /\ partyID[j] = NoChar => r[j][q] = rec[j][q]
          /\ partyID[j] # NoChar => /\ Owner[partyID[j]] \in Char
                                    /\ r[j][q] = Wrap(points[q][Owner[partyID[j]]])
    BY <1>1, FreshIs
  <1> HIDE DEF r, i
  <1>4. PoolsInLimits => RecIn(r)
    <2>1. ASSUME PoolsInLimits, NEW j \in Slot, NEW q \in Pool
          PROVE  r[j][q] \in 0 .. MaxPoints
      <3>1. rec[j][q] \in 0 .. MaxPoints
        BY <2>1 DEF PoolsInLimits
      <3>2. CASE partyID[j] # NoChar
        <4>1. points[q][Owner[partyID[j]]] \in 0 .. MaxPoints
          BY <1>3, <2>1, <3>2 DEF PoolsInLimits
        <4>2. QED
          BY <1>3, <3>2, <4>1, FreshInLimits
      <3>3. QED
        BY <1>3, <3>1, <3>2
    <2>2. QED
      BY <2>1 DEF RecIn
  <1>5. points[p][Owner[partyID[i]]] \in 0 .. 2 * Half - 1
    BY <1>1, <1>2, <1>3 DEF PointsType
  <1>6. QED
    BY <1>2, <1>3, <1>4, <1>5 DEF r, i

LEMMA NobodyGets ==
  ASSUME IInv, rec' = Fresh(rec, points, partyID), points' = points
  PROVE  HealthKept
  <1>1. rec \in RecType /\ points \in PointsType /\ partyID \in Party
    BY DEF IInv, HealthOK, PartyOK, RecType, PointsType
  <1>2. rec' \in RecType /\ \A j \in Slot, q \in Pool :
          /\ partyID[j] = NoChar => rec'[j][q] = rec[j][q]
          /\ partyID[j] # NoChar => /\ Owner[partyID[j]] \in Char
                                    /\ rec'[j][q] = Wrap(points[q][Owner[partyID[j]]])
    BY <1>1, FreshIs
  <1>3. ASSUME PoolsInLimits, NEW j \in Slot, NEW q \in Pool
        PROVE  rec'[j][q] \in 0 .. MaxPoints
    <2>1. CASE partyID[j] # NoChar
      <3>1. points[q][Owner[partyID[j]]] \in 0 .. MaxPoints
        BY <1>2, <1>3, <2>1 DEF PoolsInLimits
      <3>2. QED
        BY <1>2, <2>1, <3>1, FreshInLimits
    <2>2. CASE partyID[j] = NoChar
      BY <1>2, <1>3, <2>2 DEF PoolsInLimits
    <2>3. QED
      BY <2>1, <2>2
  <1>4. PoolsInLimits => PoolsInLimits'
    BY <1>3 DEF PoolsInLimits
  <1>5. QED
    BY <1>1, <1>2, <1>4 DEF HealthKept, HealthOK, RecType, PointsType

\* A pool changes to v in the record: the save data follow.
LEMMA PoolSet ==
  ASSUME IInv, NEW p \in Pool, NEW i \in Slot, partyID[i] # NoChar, Owner[partyID[i]] \in Char,
         NEW r \in RecType, PoolsInLimits => RecIn(r), NEW v \in -Half .. Half - 1,
         SmallAmounts /\ PoolsInLimits => v \in 0 .. MaxPoints,
         rec' = Gets(r, points, i, p, v)[1], points' = Gets(r, points, i, p, v)[2]
  PROVE  HealthKept /\ Becomes(p, Owner[partyID[i]], Unsigned(v))
  <1>1. points \in PointsType /\ partyID \in Party
    BY DEF IInv, HealthOK, PartyOK, PointsType
  <1>2. /\ rec' \in RecType /\ points' \in PointsType
        /\ rec' = [r EXCEPT ![i][p] = v]
        /\ points' = [points EXCEPT ![p][Owner[partyID[i]]] = Unsigned(v)]
    BY <1>1, GetsIs
  <1>3. v \in 0 .. MaxPoints => Unsigned(v) = v
    BY UnsignedIs, Sizes
  <1>4. ASSUME SmallAmounts, PoolsInLimits
        PROVE  PoolsInLimits'
    <2>1. PointsIn(points) /\ RecIn(r) /\ v \in 0 .. MaxPoints /\ Unsigned(v) \in 0 .. MaxPoints
      BY <1>3, <1>4, LimitsAre
    <2>2. RecIn(rec')
      BY <1>2, <2>1 DEF RecIn, RecType
    <2>3. PointsIn(points')
      BY <1>1, <1>2, <2>1 DEF PointsIn, PointsType
    <2>4. QED
      BY <2>2, <2>3, LimitsNext
  <1>5. QED
    BY <1>2, <1>4 DEF HealthKept, HealthOK, RecType, PointsType, Becomes

LEMMA PlusInv ==
  ASSUME IInv, NEW p \in Pool, NEW s \in Slot, NEW a \in Amounts, Plus(p, s, a)
  PROVE  /\ HealthKept
         /\ points' = points
            \/ \E c \in Char : \E n \in Given(points[p][c], a) : Becomes(p, c, n)
  <1> DEFINE r == Fresh(rec, points, partyID)
             i == CHOOSE j \in Slot : partyID[j] = party[s]
             c == Owner[partyID[i]]
             v == Added(r[i][p], a)
  <1>1. IF party[s] # NoChar /\ party[s] \in Members(partyID)
        THEN rec' = Gets(r, points, i, p, v)[1] /\ points' = Gets(r, points, i, p, v)[2]
        ELSE rec' = r /\ points' = points
    BY DEF Plus, OnMember
  <1>2. CASE party[s] # NoChar /\ party[s] \in Members(partyID)
    <2>1. /\ i \in Slot /\ partyID[i] # NoChar /\ r \in RecType /\ c \in Char
          /\ r[i][p] = Wrap(points[p][c]) /\ points[p][c] \in 0 .. 2 * Half - 1
          /\ PoolsInLimits => RecIn(r)
      BY <1>2, MemberGets
    <2>2. a \in -Half .. Half - 1
      BY Sizes
    <2>3. PICK n \in 0 .. 2 * Half - 1 : n = points[p][c]
      BY <2>1
    <2>4. v = Added(Wrap(n), a)
      BY <2>1, <2>3
    <2> HIDE DEF r, i, v
    <2>5. /\ v \in -Half .. Half - 1 /\ Unsigned(v) \in Given(n, a)
          /\ n <= MaxPoints /\ n + a \in 0 .. Half - 1 => v \in 0 .. MaxPoints
      BY <2>2, <2>4, AddedIs
    <2>6. SmallAmounts /\ PoolsInLimits => v \in 0 .. MaxPoints
      <3>1. PoolsInLimits => n \in 0 .. MaxPoints
        BY <2>1, <2>3 DEF PoolsInLimits
      <3>2. SmallAmounts => a >= 0 /\ MaxPoints + a < Half
        BY DEF SmallAmounts
      <3>3. QED
        BY <2>2, <2>5, <3>1, <3>2, Sizes
    <2>7. HealthKept /\ Becomes(p, c, Unsigned(v))
      BY <1>1, <1>2, <2>1, <2>5, <2>6, PoolSet
    <2>8. QED
      BY <2>1, <2>3, <2>5, <2>7
  <1>3. CASE ~(party[s] # NoChar /\ party[s] \in Members(partyID))
    BY <1>1, <1>3, NobodyGets
  <1>4. QED
    BY <1>2, <1>3

LEMMA MinusInv ==
  ASSUME IInv, NEW p \in Pool, NEW s \in Slot, NEW a \in Amounts, Minus(p, s, a)
  PROVE  /\ HealthKept
         /\ points' = points
            \/ \E c \in Char : \E n \in Taken(points[p][c], a) : Becomes(p, c, n)
  <1> DEFINE r == Fresh(rec, points, partyID)
             i == CHOOSE j \in Slot : partyID[j] = party[s]
             c == Owner[partyID[i]]
             v == Subtracted(r[i][p], a)
  <1>1. IF party[s] # NoChar /\ party[s] \in Members(partyID)
        THEN rec' = Gets(r, points, i, p, v)[1] /\ points' = Gets(r, points, i, p, v)[2]
        ELSE rec' = r /\ points' = points
    BY DEF Minus, OnMember
  <1>2. CASE party[s] # NoChar /\ party[s] \in Members(partyID)
    <2>1. /\ i \in Slot /\ partyID[i] # NoChar /\ r \in RecType /\ c \in Char
          /\ r[i][p] = Wrap(points[p][c]) /\ points[p][c] \in 0 .. 2 * Half - 1
          /\ PoolsInLimits => RecIn(r)
      BY <1>2, MemberGets
    <2>2. a \in -Half .. Half - 1
      BY Sizes
    <2>3. PICK n \in 0 .. 2 * Half - 1 : n = points[p][c]
      BY <2>1
    <2>4. v = Subtracted(Wrap(n), a)
      BY <2>1, <2>3
    <2> HIDE DEF r, i, v
    <2>5. /\ v \in -Half .. Half - 1 /\ Unsigned(v) \in Taken(n, a)
          /\ n <= MaxPoints /\ n - a <= MaxPoints => v \in 0 .. MaxPoints
      BY <2>2, <2>4, SubtractedIs
    <2>6. SmallAmounts /\ PoolsInLimits => v \in 0 .. MaxPoints
      <3>1. PoolsInLimits => n \in 0 .. MaxPoints
        BY <2>1, <2>3 DEF PoolsInLimits
      <3>2. SmallAmounts => a >= 0
        BY DEF SmallAmounts
      <3>3. QED
        BY <2>2, <2>5, <3>1, <3>2, Sizes
    <2>7. HealthKept /\ Becomes(p, c, Unsigned(v))
      BY <1>1, <1>2, <2>1, <2>5, <2>6, PoolSet
    <2>8. QED
      BY <2>1, <2>3, <2>5, <2>7
  <1>3. CASE ~(party[s] # NoChar /\ party[s] \in Members(partyID))
    BY <1>1, <1>3, NobodyGets
  <1>4. QED
    BY <1>2, <1>3

\* Unsigned gil: a sum that wrapped is below what there was.
LEMMA GoldInv ==
  ASSUME IInv, NEW g \in Gils, GoldPlus(g) \/ GoldMinus(g)
  PROVE  PayOK'
  <1>1. gil \in 0 .. GilTop /\ g \in 0 .. GilTop /\ GilTop \in Nat /\ plan' = plan
    BY MembersAssumption DEF IInv, PayOK, GoldPlus, GoldMinus
  <1>2. (gil + g) % (GilTop + 1) \in 0 .. GilTop
    <2>1. \A x \in Nat, m \in Nat : m > 0 => x % m \in Nat /\ x % m < m
      OBVIOUS
    <2> DEFINE x == gil + g
               m == GilTop + 1
    <2>2. x \in Nat /\ m \in Nat /\ m > 0
      BY <1>1
    <2> HIDE DEF x
    <2>3. x % m \in Nat /\ x % m < m
      BY <2>1, <2>2
    <2>4. x % m \in 0 .. GilTop
      BY <1>1, <2>3
    <2>5. QED
      BY <2>4 DEF x
  <1>3. gil' \in 0 .. GilTop
    BY <1>1, <1>2 DEF GoldPlus, GoldMinus
  <1>4. QED
    BY <1>1, <1>3 DEF IInv, PayOK

----------------------------------------------------------------------------
(***************************************************************************)
(* The invariant: types, nobody twice in either copy or in what GPTYE kept, *)
(* no pool out of its limits.                                              *)
(***************************************************************************)
\* The opcodes and menus that work on the line-up, and those on points and gil.
LineUpStep ==
  \/ \E c \in Char : Prtyp(c) \/ Prtym(c) \/ Pc(c) \/ Cc(c)
  \/ \E c \in Listed : MmbPlus(c) \/ MmbMinus(c) \/ Mmblk(c) \/ Mmbuk(c)
  \/ Prtye \/ Sptye \/ Gptye \/ NextMap \/ Rsglb \/ WorldMap
  \/ MenuOn \/ MenuLeave \/ MenuEnd
  \/ \E i \in Slot, c \in Char \cup {NoChar} : MenuExchange(i, c)
PayStep ==
  \/ \E p \in Pool, s \in Slot, a \in Amounts : Plus(p, s, a) \/ Minus(p, s, a)
  \/ Hmpmx \/ Mhmmx
  \/ \E g \in Gils : GoldPlus(g) \/ GoldMinus(g)

LEMMA StepKinds ==
  ASSUME Next
  PROVE  LineUpStep \/ PayStep
  BY DEF Next, LineUpStep, PayStep

LEMMA LineUpLeaves ==
  ASSUME LineUpStep
  PROVE  UNCHANGED <<health, gil, plan>>
  BY DEF LineUpStep, Prtyp, Prtym, Pc, Cc, MmbPlus, MmbMinus, Mmblk, Mmbuk, Prtye, Sptye, Replace,
         Gptye, NextMap, Rsglb, WorldMap, MenuOn, MenuLeave, MenuEnd, MenuExchange

LEMMA PayLeaves ==
  ASSUME PayStep
  PROVE  UNCHANGED <<lineup, placed, pc, menu>>
  BY DEF PayStep, Plus, Minus, OnMember, Hmpmx, Mhmmx, GoldPlus, GoldMinus

LEMMA LineUpInv ==
  ASSUME IInv, LineUpStep
  PROVE  IInv'
  <1>1. PartyOK' /\ OnceInv'
    <2>1. ASSUME NEW c \in Char, Prtyp(c) \/ Prtym(c)
          PROVE  PartyOK' /\ OnceInv'
      BY <2>1, PrtypInv, PrtymInv
    <2>2. ASSUME NEW c \in Listed, MmbPlus(c) \/ MmbMinus(c) \/ Mmblk(c) \/ Mmbuk(c)
          PROVE  PartyOK' /\ OnceInv'
      BY <2>2, MmbInv, MembersAssumption
    <2>3. CASE Prtye \/ Sptye
      BY <2>3, PrtyeInv
    <2>4. CASE MenuEnd
      BY <2>4, MenuEndInv
    <2>5. CASE \/ Gptye \/ NextMap \/ Rsglb \/ WorldMap \/ MenuOn \/ MenuLeave
               \/ \E c \in Char : Pc(c) \/ Cc(c)
               \/ \E i \in Slot, c \in Char \cup {NoChar} : MenuExchange(i, c)
      BY <2>5, OtherPartyInv
    <2>6. QED
      BY <2>1, <2>2, <2>3, <2>4, <2>5 DEF LineUpStep
  <1>2. HealthOK' /\ PayOK'
    BY LineUpLeaves, PayKept DEF IInv
  <1>3. QED
    BY <1>1, <1>2 DEF IInv

LEMMA PayInv ==
  ASSUME IInv, PayStep
  PROVE  IInv'
  <1>1. PartyOK' /\ OnceInv'
    BY PayLeaves DEF IInv, PartyOK, OnceInv, Once, lineup
  <1>2. HealthOK' /\ PayOK'
    <2>1. CASE \E p \in Pool, s \in Slot, a \in Amounts : Plus(p, s, a) \/ Minus(p, s, a)
      <3>1. HealthOK'
        BY <2>1, PlusInv, MinusInv DEF HealthKept
      <3>2. UNCHANGED <<gil, plan>>
        BY <2>1 DEF Plus, Minus, OnMember
      <3>3. QED
        BY <3>1, <3>2 DEF IInv, PayOK
    <2>2. CASE Hmpmx \/ Mhmmx
      <3>1. HealthOK'
        BY <2>2, HmpmxInv, MhmmxInv DEF HealthKept
      <3>2. UNCHANGED <<gil, plan>>
        BY <2>2 DEF Hmpmx, Mhmmx
      <3>3. QED
        BY <3>1, <3>2 DEF IInv, PayOK
    <2>3. CASE \E g \in Gils : GoldPlus(g) \/ GoldMinus(g)
      <3>1. PayOK'
        BY <2>3, GoldInv
      <3>2. UNCHANGED <<points, rec>>
        BY <2>3 DEF GoldPlus, GoldMinus, health
      <3>3. QED
        BY <3>1, <3>2 DEF IInv, HealthOK
    <2>4. QED
      BY <2>1, <2>2, <2>3 DEF PayStep
  <1>3. QED
    BY <1>1, <1>2 DEF IInv

LEMMA InitInv == Init => IInv
  <1> SUFFICES ASSUME Init PROVE IInv
    OBVIOUS
  <1>1. party \in Party /\ Once(party) /\ partyID = party /\ kept = NoParty
    BY Codes DEF Init, Party, Once
  <1>2. PartyOK
    BY <1>1, Codes DEF Init, PartyOK
  <1>3. OnceInv
    BY <1>1 DEF OnceInv, Once
  <1>4. MaxPoints \in Nat /\ GilTop \in Nat
    BY MembersAssumption
  <1>5. HealthOK
    <2>1. points \in [Pool -> {[c \in Char |-> MaxPoints]}]
      BY DEF Init
    <2>2. [c \in Char |-> MaxPoints] \in [Char -> 0 .. 2 * Half - 1]
      BY Sizes
    <2>3. rec = [i \in Slot |-> [p \in Pool |-> 0]]
      BY DEF Init
    <2>4. QED
      BY <2>1, <2>2, <2>3, Sizes DEF HealthOK
  <1>6. PayOK
    BY <1>4 DEF Init, PayOK
  <1>7. QED
    BY <1>2, <1>3, <1>5, <1>6 DEF IInv

LEMMA StepInv == IInv /\ [Next]_vars => IInv'
  <1> SUFFICES ASSUME IInv, [Next]_vars PROVE IInv'
    OBVIOUS
  <1>1. CASE Next
    BY <1>1, StepKinds, LineUpInv, PayInv
  <1>2. CASE UNCHANGED vars
    BY <1>2 DEF vars, lineup, health, IInv, PartyOK, OnceInv, Once, HealthOK, PayOK
  <1>3. QED
    BY <1>1, <1>2

\* The invariant holds in every state of every play.
THEOREM MembersInv == Spec => []IInv
  <1>1. Init => IInv
    BY InitInv
  <1>2. IInv /\ [Next]_vars => IInv'
    BY StepInv
  <1>3. QED
    BY <1>1, <1>2, PTL DEF Spec

----------------------------------------------------------------------------
(***************************************************************************)
(* What it is for.                                                         *)
(***************************************************************************)
\* Every variable keeps its type: whatever numbers, negative and large ones too,
\* HP+, HP-, HMPMX and their twins add to and take from a pool, it stays in the
\* sixteen bits of its record and of the save data, and gil in its 32.
THEOREM MembersTypes == Spec => []TypeOK
  <1>1. IInv => TypeOK
    BY DEF IInv, PartyOK, HealthOK, PayOK, TypeOK
  <1>2. QED
    BY <1>1, MembersInv, PTL

LEMMA LimitsStep ==
  ASSUME SmallAmounts, IInv, PoolsInLimits, [Next]_vars
  PROVE  PoolsInLimits'
  <1>1. CASE UNCHANGED health
    BY <1>1 DEF health, PoolsInLimits
  <1>2. CASE \E p \in Pool, s \in Slot, a \in Amounts : Plus(p, s, a) \/ Minus(p, s, a)
    BY <1>2, PlusInv, MinusInv DEF HealthKept
  <1>3. CASE Hmpmx \/ Mhmmx
    BY <1>3, HmpmxInv, MhmmxInv DEF HealthKept
  <1>4. CASE \E g \in Gils : GoldPlus(g) \/ GoldMinus(g)
    BY <1>1, <1>4 DEF GoldPlus, GoldMinus
  <1>5. CASE LineUpStep
    BY <1>1, <1>5, LineUpLeaves
  <1>6. UNCHANGED vars => UNCHANGED health
    BY DEF vars
  <1>7. QED
    BY <1>1, <1>2, <1>3, <1>4, <1>5, <1>6, StepKinds DEF PayStep

\* Given amounts that are not negative and fit into sixteen bits on top of a full
\* pool, no pool leaves the range from nothing to its maximum, in the save data
\* and in the battle records, those of former line-ups included.  Of others that
\* is not so: HP+ has no lower limit and HP- no upper one.
THEOREM PoolsStayInLimits ==
  ASSUME SmallAmounts
  PROVE  Spec => []PoolsInLimits
  <1>1. Init => PoolsInLimits
    <2>1. ASSUME Init
          PROVE  PoolsInLimits
      <3>1. points \in [Pool -> {[c \in Char |-> MaxPoints]}]
            /\ rec = [i \in Slot |-> [p \in Pool |-> 0]]
        BY <2>1 DEF Init
      <3>2. QED
        BY <3>1, Sizes DEF PoolsInLimits
    <2>2. QED
      BY <2>1
  <1>2. IInv /\ PoolsInLimits /\ [Next]_vars => PoolsInLimits'
    BY LimitsStep
  <1>3. QED
    BY <1>1, <1>2, MembersInv, PTL DEF Spec

\* Nobody is in the party twice, neither in bank 2 nor in the save data, in
\* whatever order PRTYP, PRTYM, PRTYE, SPTYE, MMB- and menus change the two.
THEOREM NobodyTwice == Spec => []OnceEach
  <1>1. IInv => OnceEach
    BY DEF IInv, OnceInv, Once, OnceEach
  <1>2. QED
    BY <1>1, MembersInv, PTL

\* However far MMB- or a menu has set the two copies apart: an opcode that
\* carries the field's party over leaves the same members in both and those the
\* save data had where they were, and so does MENU the other way round.
THEOREM CopiesAreCarried == Spec => CopiesAgree
  <1>1. IInv /\ [Next]_vars =>
          [ /\ (SameMembers' /\ StayPut(partyID, partyID')) \/ ~ToSave
            /\ (SameMembers' /\ StayPut(party, party')) \/ ~MenuEnd ]_vars
    <2>1. ASSUME IInv, ToSave
          PROVE  SameMembers' /\ StayPut(partyID, partyID')
      <3>1. ASSUME NEW c \in Char, Prtyp(c) \/ Prtym(c)
            PROVE  Carried
        BY <2>1, <3>1, PrtypInv, PrtymInv
      <3>2. CASE Prtye \/ Sptye
        BY <2>1, <3>2, PrtyeInv DEF Carried
      <3>3. QED
        BY <2>1, <3>1, <3>2 DEF ToSave, Carried
    <2>2. ASSUME IInv, MenuEnd
          PROVE  SameMembers' /\ StayPut(party, party')
      BY <2>2, MenuEndInv
    <2>3. QED
      BY <2>1, <2>2
  <1>2. QED
    BY <1>1, MembersInv, PTL DEF Spec, CopiesAgree

LEMMA LeaderStep ==
  ASSUME IInv, LeaderShown, LineUpStep, ~MenuEnd, ~Rsglb, \A c \in Char : ~Cc(c)
  PROVE  LeaderShown'
  <1>1. placed \subseteq Char /\ NoChar \notin placed /\ party \in Party
    BY Codes DEF IInv, PartyOK
  <1>2. CASE SetPcModel /\ placed' = placed
    BY <1>2 DEF SetPcModel, LeaderShown
  <1>3. ASSUME NEW c \in Char, Pc(c)
        PROVE  LeaderShown'
    BY <1>3 DEF Pc, lineup, LeaderShown
  <1>4. ASSUME NEW c \in Listed, MmbMinus(c)
        PROVE  LeaderShown'
    <2>1. party'[0] = NoChar \/ party'[0] = party[0]
      BY <1>4, Codes DEF MmbMinus
    <2>2. placed' = placed /\ pc' = pc
      BY <1>4 DEF MmbMinus
    <2>3. QED
      BY <1>1, <2>1, <2>2 DEF LeaderShown
  <1>5. CASE placed' = {}
    BY <1>5 DEF LeaderShown
  <1>6. CASE UNCHANGED <<party, placed, pc>>
    BY <1>6 DEF LeaderShown
  <1>7. \/ SetPcModel /\ placed' = placed
        \/ placed' = {}
        \/ \E c \in Char : Pc(c)
        \/ \E c \in Listed : MmbMinus(c)
        \/ UNCHANGED <<party, placed, pc>>
    BY DEF LineUpStep, Prtyp, Prtym, MmbPlus, Mmblk, Mmbuk, Prtye, Sptye, Replace, Gptye,
           NextMap, WorldMap, MenuOn, MenuLeave, MenuExchange, lineup
  <1>8. QED
    BY <1>2, <1>3, <1>4, <1>5, <1>6, <1>7

\* Once the player has the leader's model, he keeps having it, in whatever order
\* the entities' PC and the opcodes on the party come, until CC gives him another,
\* the game is reset or a menu's party is carried over.
THEOREM LeaderIsKept == Spec => LeaderKept
  <1>1. IInv /\ [Next]_vars =>
          [LeaderShown' \/ ~LeaderShown \/ MenuEnd \/ Rsglb \/ \E c \in Char : Cc(c)]_vars
    <2>1. ASSUME IInv, PayStep, LeaderShown
          PROVE  LeaderShown'
      BY <2>1, PayLeaves DEF LeaderShown, lineup
    <2>2. QED
      BY <2>1, LeaderStep, StepKinds
  <1>2. QED
    BY <1>1, MembersInv, PTL DEF Spec, LeaderKept

LEMMA PoolSteps ==
  ASSUME IInv, PayStep, NEW q \in Pool
  PROVE  PoolStep(q)
  <1>1. points \in [Pool -> [Char -> 0 .. 2 * Half - 1]]
    BY DEF IInv, HealthOK
  <1>2. CASE points' = points
    BY <1>2 DEF PoolStep
  <1>3. ASSUME NEW p \in Pool, NEW c \in Char, NEW a \in Amounts,
               NEW n \in Given(points[p][c], a) \cup Taken(points[p][c], a), Becomes(p, c, n)
        PROVE  PoolStep(q)
    <2>1. CASE q # p
      <3>1. points'[q] = points[q]
        BY <1>1, <1>3, <2>1 DEF Becomes
      <3>2. QED
        BY <3>1 DEF PoolStep
    <2>2. CASE q = p
      <3>1. points'[q][c] = n /\ \A d \in Char \ {c} : points'[q][d] = points[q][d]
        BY <1>1, <1>3, <2>2 DEF Becomes
      <3>2. QED
        BY <1>3, <2>2, <3>1 DEF PoolStep
    <2>3. QED
      BY <2>1, <2>2
  <1>4. CASE AllFilled
    BY <1>4 DEF AllFilled, PoolStep
  <1>5. \/ points' = points \/ AllFilled
        \/ \E p \in Pool, c \in Char, a \in Amounts :
              \E n \in Given(points[p][c], a) \cup Taken(points[p][c], a) : Becomes(p, c, n)
    <2>1. ASSUME NEW p \in Pool, NEW s \in Slot, NEW a \in Amounts, Plus(p, s, a) \/ Minus(p, s, a)
          PROVE  \/ points' = points
                 \/ \E c \in Char :
                       \E n \in Given(points[p][c], a) \cup Taken(points[p][c], a) : Becomes(p, c, n)
      BY <2>1, PlusInv, MinusInv
    <2>2. CASE Hmpmx \/ Mhmmx
      BY <2>2, HmpmxInv, MhmmxInv
    <2>3. CASE \E g \in Gils : GoldPlus(g) \/ GoldMinus(g)
      BY <2>3 DEF GoldPlus, GoldMinus, health
    <2>4. QED
      BY <2>1, <2>2, <2>3 DEF PayStep
  <1>6. QED
    BY <1>2, <1>3, <1>4, <1>5

\* Points are given to and taken from one character by the amount, up to the
\* limits where the code sees them, or everybody is filled up: as the battle records are made anew before
\* each opcode, none that is out of date gets into somebody's save data.
THEOREM OnlyTheirPoints == Spec => OnlyTheirs
  <1>1. IInv /\ [Next]_vars => [\A p \in Pool : PoolStep(p)]_points
    <2>1. ASSUME IInv, LineUpStep
          PROVE  points' = points
      BY <2>1, LineUpLeaves DEF health
    <2>2. QED
      BY <2>1, PoolSteps, StepKinds DEF vars, health
  <1>2. QED
    BY <1>1, MembersInv, PTL DEF Spec, OnlyTheirs

=============================================================================
