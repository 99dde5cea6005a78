---------------------------- MODULE PartyMembers ----------------------------
(***************************************************************************)
(* Who is in the party, and how they are (src/src/field/field4.c, field5.c, *)
(* src/src/main/1255C.c).  The party is kept twice: memory bank 2 has the   *)
(* one the field works with, Savemap.partyID the one menus and battles work *)
(* with.  The opcodes change the first and carry the change over, a menu    *)
(* changes the second and the MENU opcode carries that back; MMB+- changes  *)
(* the first alone.  Hit and magic points are in the save data by character *)
(* and in a battle record by slot of partyID, which is made anew from the   *)
(* save data before every opcode that works on it.                          *)
(***************************************************************************)
EXTENDS PartyOps

CONSTANTS
    Owner,      \* g_BattleCharIdToCharId: whose save record a character uses
    Pool,       \* what a character has of: hit points, magic points
    MaxPoints,  \* the maximum of every pool
    Full,       \* 10000, what HMPMX adds
    Amounts,    \* what HP+, HP-, MP+ and MP- are given: any s16, negative ones too
    Half,       \* 2 ^ 15: pools are s16 in a battle record, u16 in the save data
    GilTop,     \* 2 ^ 32 - 1
    Gils,       \* what GOLD+ and GOLD- are given
    Triples,    \* what PRTYE is given
    Listed,     \* whom MMB+-, MMBLK and MMBUK are given
    Plans       \* which opcodes the scripts of a game use

NoParty == << >>

ASSUME MembersAssumption ==
    /\ Owner \in [Char -> Char]
    /\ MaxPoints \in Nat /\ GilTop \in Nat /\ Gils \subseteq 0 .. GilTop
    /\ Listed \subseteq Char
    /\ Full \in Nat /\ Half \in Nat
    /\ Full >= MaxPoints /\ MaxPoints + Full < Half
    /\ Amounts \subseteq -Half .. Half - 1
    \* PRTYE names nobody twice
    /\ \A t \in Triples : /\ t \in [Slot -> PartyCode]
                          /\ \A i, j \in Slot : t[i] = t[j] /\ t[i] \in Char => i = j

VARIABLES
    party,      \* memory_bank_2[9 .. 11]
    partyID,    \* Savemap.partyID
    visible,    \* Savemap.phs_visibility_mask
    locked,     \* Savemap.phs_locking_mask
    kept,       \* the variables GPTYE has written, SPTYE reads; NoParty before
    updated,    \* g_PartyUpdatedByFieldScript
    placed,     \* the characters with an entity on this map (g_CharIdToEntity)
    pc,         \* pcModelId: the character whose model it is, NoChar for model 0
    menu,       \* "none", or MENU's menu is "asked" for or "back"
    points,     \* hp_cur and mp_cur of the save records
    rec,        \* D_8009D84C: by slot, whose record it is and its pools
    gil,        \* Savemap.gil
    plan

lineup == <<party, partyID, visible, locked, kept, updated>>
health == <<points, rec>>
vars   == <<lineup, placed, pc, menu, health, gil, plan>>

Members(p) == {p[i] : i \in Slot} \ {NoChar}
Uses(op)   == op \in plan

-----------------------------------------------------------------------------
(* Carrying one copy over to the other.                                    *)

\* Variants of definitions whose name they begin with, each with one mistake,
\* that the properties must tell from the code.
PartyRemoveNone(p, gone) == p

\* PartyCompare: what p has and q has not, in the order of p; free slots of p
\* count as a member when q is full.
OnlyIn(p, q) ==
    LET Lone(i) == \A j \in Slot : q[j] # p[i]
        Before(i) == Cardinality({h \in 0 .. i - 1 : Lone(h)})
    IN [k \in Slot |-> IF \E i \in Slot : Lone(i) /\ Before(i) = k
                       THEN p[CHOOSE i \in Slot : Lone(i) /\ Before(i) = k]
                       ELSE NoChar]

PartyRemove(p, gone) ==
    [j \in Slot |-> IF \E i \in Slot : gone[i] = p[j] THEN NoChar ELSE p[j]]

\* PartyAdd: each character goes to the first free slot there is by then.
PutIn(p, c) ==
    IF \E j \in Slot : p[j] = NoChar
    THEN [p EXCEPT ![CHOOSE j \in Slot :
                       p[j] = NoChar /\ \A h \in 0 .. j - 1 : p[h] # NoChar] = c]
    ELSE p
PartyAdd(p, new) == PutIn(PutIn(PutIn(p, new[0]), new[1]), new[2])

\* The members of `from`, those of `to` among them at the slots they have.
Transfer(from, to) == PartyAdd(PartyRemove(to, OnlyIn(to, from)), OnlyIn(from, to))

PartyFromBank2ToSave == /\ partyID' = Transfer(party', partyID)
                        /\ updated' = TRUE
PartyFromSaveToBank2 == party' = Transfer(partyID, party)

SetPcModelOld == pc' = IF party[0] \in placed THEN party[0] ELSE pc

\* The leader's model becomes the player's, if the leader has one here.
SetPcModel == pc' = IF party'[0] \in placed THEN party'[0] ELSE pc

-----------------------------------------------------------------------------
(* The opcodes on the party.                                               *)

FirstFreeAll(c) == [j \in Slot |-> IF party[j] = NoChar THEN c ELSE party[j]]
FirstFree(c) == IF \E j \in Slot : party[j] = NoChar THEN PutIn(party, c)
                ELSE [party EXCEPT ![2] = c]

Prtyp(c) ==
    /\ Uses("PRTYP")
    /\ IF c \in Members(party) THEN UNCHANGED <<party, visible>>
       ELSE party' = FirstFree(c) /\ visible' = visible \cup {c}
    /\ SetPcModel /\ PartyFromBank2ToSave
    /\ UNCHANGED <<locked, kept, placed, menu, health, gil, plan>>

\* PRTYM: the first slot with c is emptied.
TakeOut(c) ==
    IF c \in Members(party)
    THEN [party EXCEPT ![CHOOSE j \in Slot :
                           party[j] = c /\ \A h \in 0 .. j - 1 : party[h] # c] = NoChar]
    ELSE party

Prtym(c) ==
    /\ Uses("PRTYM")
    /\ party' = TakeOut(c)
    /\ PartyFromBank2ToSave /\ SetPcModel
    /\ UNCHANGED <<visible, locked, kept, placed, menu, health, gil, plan>>

Replace(new) ==
    /\ party' = PartyReplace(party, new)
    /\ visible' = visible \cup Members(party')
    /\ PartyFromBank2ToSave /\ SetPcModel
    /\ UNCHANGED <<locked, kept, placed, menu, health, gil, plan>>

Prtye == Uses("PRTYE") /\ \E new \in Triples : Replace(new)
Sptye == Uses("SPTYE") /\ kept # NoParty /\ Replace(kept)
Gptye ==
    /\ Uses("GPTYE")
    /\ kept' = party
    /\ UNCHANGED <<party, partyID, visible, locked, updated, placed, pc, menu, health, gil, plan>>

\* MMB+-: taken away for good, a member leaves the field's party only.
MmbPlus(c) ==
    /\ Uses("MMB")
    /\ visible' = visible \cup {c}
    /\ UNCHANGED <<party, partyID, locked, kept, updated, placed, pc, menu, health, gil, plan>>
MmbMinus(c) ==
    /\ Uses("MMB")
    /\ visible' = visible \ {c}
    /\ party' = [j \in Slot |-> IF party[j] = c THEN NoChar ELSE party[j]]
    /\ UNCHANGED <<partyID, locked, kept, updated, placed, pc, menu, health, gil, plan>>

Mmblk(c) == Uses("MMBLK") /\ locked' = locked \cup {c}
            /\ UNCHANGED <<party, partyID, visible, kept, updated, placed, pc, menu, health, gil, plan>>
Mmbuk(c) == Uses("MMBLK") /\ locked' = locked \ {c}
            /\ UNCHANGED <<party, partyID, visible, kept, updated, placed, pc, menu, health, gil, plan>>

\* PC: this entity is character c's.
Pc(c) ==
    /\ Uses("PC") /\ c \notin placed
    /\ placed' = placed \cup {c}
    /\ pc' = IF party[0] = c THEN c ELSE pc
    /\ UNCHANGED <<lineup, menu, health, gil, plan>>

\* CC: the player gets the model of another entity.
Cc(c) ==
    /\ Uses("CC") /\ c \in placed
    /\ pc' = c
    /\ UNCHANGED <<lineup, placed, menu, health, gil, plan>>

\* Another map: no entity is anybody's until its init script has run.
NextMap ==
    /\ placed # {} /\ menu = "none"
    /\ placed' = {} /\ pc' = NoChar
    /\ UNCHANGED <<lineup, menu, health, gil, plan>>

\* RSGLB: everything as in a new game.
Rsglb ==
    /\ Uses("RSGLB")
    /\ party' = [i \in Slot |-> IF i = 0 THEN 0 ELSE NoChar]
    /\ partyID' = party'
    /\ visible' = {0} /\ updated' = FALSE
    /\ kept' = NoParty
    /\ UNCHANGED <<locked, placed, pc, menu, health, gil, plan>>

\* The world map has drawn the portraits of a party that was changed.
WorldMap ==
    /\ menu = "none" /\ updated
    /\ updated' = FALSE
    /\ UNCHANGED <<party, partyID, visible, locked, kept, placed, pc, menu, health, gil, plan>>

-----------------------------------------------------------------------------
(* MENU.  The menu comes up at the end of the frame and the opcode collects *)
(* it in a later one: the scripts of other entities run before and between. *)

MenuOn ==
    /\ Uses("MENU") /\ menu = "none"
    /\ menu' = "asked"
    /\ UNCHANGED <<lineup, placed, pc, health, gil, plan>>

\* The party menu: one character after the other is exchanged for, or put to, a
\* visible one; those that are locked stay where they are.
MenuExchange(i, c) ==
    /\ menu = "asked"
    /\ partyID[i] \notin locked /\ c \notin Members(partyID)
    /\ c \in (visible \ locked) \cup {NoChar}
    /\ partyID' = [partyID EXCEPT ![i] = c]
    /\ UNCHANGED <<party, visible, locked, kept, updated, placed, pc, menu, health, gil, plan>>

MenuLeave ==
    /\ menu = "asked"
    /\ menu' = "back"
    /\ UNCHANGED <<lineup, placed, pc, health, gil, plan>>

MenuEnd ==
    /\ menu = "back"
    /\ menu' = "none"
    /\ PartyFromSaveToBank2
    /\ UNCHANGED <<partyID, visible, locked, kept, updated, placed, pc, health, gil, plan>>

-----------------------------------------------------------------------------
(* Hit points, magic points and gil.                                       *)

\* A number stored in sixteen bits, with a sign and without.
Wrap(n)     == ((n + Half) % (2 * Half)) - Half
Unsigned(n) == n % (2 * Half)

FreshNever(r, pts, who) == r

\* SystemRefreshParty: the record of each member, from the save data.  What makes
\* it is assembly; it is taken to copy the pools.
Fresh(r, pts, who) ==
    [i \in Slot |-> IF who[i] = NoChar THEN r[i]
                    ELSE [p \in Pool |-> Wrap(pts[p][Owner[who[i]]])]]

\* SystemMenuAddHpByPartyId, func_80025800 and their twins: a pool of a slot.  A
\* sum is compared when it is back in sixteen bits, a difference before, and the
\* first has no lower limit, the second no upper one.
Added(n, a)      == LET sum == Wrap(n + a) IN IF sum > MaxPoints THEN MaxPoints ELSE sum
Subtracted(n, a) == IF n - a < 0 THEN 0 ELSE Wrap(n - a)

\* The pool of slot i becomes n, in the record and in the save data.
Gets(r, pts, i, p, n) ==
    << [r EXCEPT ![i][p] = n], [pts EXCEPT ![p][Owner[partyID[i]]] = Unsigned(n)] >>

\* HP+, HP-, MP+, MP-: of the one in the field's slot s, looked for in partyID.
OnMember(op, p, s, Change(_)) ==
    LET r == Fresh(rec, points, partyID)
    IN /\ Uses(op)
       /\ IF party[s] # NoChar /\ party[s] \in Members(partyID)
          THEN LET i == CHOOSE j \in Slot : partyID[j] = party[s]
                   now == Gets(r, points, i, p, Change(r[i][p]))
               IN rec' = now[1] /\ points' = now[2]
          ELSE rec' = r /\ UNCHANGED points
       /\ UNCHANGED <<lineup, placed, pc, menu, gil, plan>>

Plus(p, s, a)  == LET More(n) == Added(n, a)      IN OnMember("PLUS", p, s, More)
Minus(p, s, a) == LET Less(n) == Subtracted(n, a) IN OnMember("MINUS", p, s, Less)

\* SystemResoreParty for line-up who: records made anew, every pool filled.
Restored(r, pts, who) ==
    LET fresh == Fresh(r, pts, who)
        More(p, i) == Added(fresh[i][p], Full)
    IN << [i \in Slot |-> IF who[i] = NoChar THEN fresh[i]
                          ELSE [p \in Pool |-> More(p, i)]],
          [p \in Pool |-> [c \in Char |->
              IF \E i \in Slot : who[i] # NoChar /\ Owner[who[i]] = c
              THEN Unsigned(More(p, CHOOSE i \in Slot : who[i] # NoChar /\ Owner[who[i]] = c))
              ELSE pts[p][c]]] >>

Hmpmx ==
    /\ Uses("HMPMX")
    /\ LET now == Restored(rec, points, partyID) IN rec' = now[1] /\ points' = now[2]
    /\ UNCHANGED <<lineup, placed, pc, menu, gil, plan>>

\* MHMMX: the characters three at a time, then the real party again.
Mhmmx ==
    /\ Uses("MHMMX")
    /\ LET Own(c) == c \in Char /\ Owner[c] = c
           Three(n) == [i \in Slot |-> IF Own(n + i) THEN n + i ELSE NoChar]
           a == Restored(rec, points, Three(0))
           b == Restored(a[1], a[2], Three(3))
           d == Restored(b[1], b[2], Three(6))
           now == Restored(d[1], d[2], partyID)
       IN rec' = now[1] /\ points' = now[2]
    /\ UNCHANGED <<lineup, placed, pc, menu, gil, plan>>

\* GOLD+ and GOLD-: unsigned, the sum is compared after it has wrapped.
GoldPlus(g) ==
    /\ Uses("GOLD")
    /\ gil' = LET sum == (gil + g) % (GilTop + 1) IN IF sum < gil THEN GilTop ELSE sum
    /\ UNCHANGED <<lineup, placed, pc, menu, health, plan>>
GoldMinus(g) ==
    /\ Uses("GOLD")
    /\ gil' = IF gil < g THEN 0 ELSE gil - g
    /\ UNCHANGED <<lineup, placed, pc, menu, health, plan>>

-----------------------------------------------------------------------------
Init ==
    /\ party = [i \in Slot |-> IF i = 0 THEN 0 ELSE NoChar]
    /\ partyID = party /\ visible = {0} /\ locked = {} /\ updated = FALSE
    /\ kept = NoParty
    /\ placed = {} /\ pc = NoChar /\ menu = "none"
    /\ points \in [Pool -> {[c \in Char |-> MaxPoints]}]
    /\ rec = [i \in Slot |-> [p \in Pool |-> 0]]
    /\ gil = 0
    /\ plan \in Plans

Next ==
    \/ \E c \in Char : \/ Prtyp(c) \/ Prtym(c) \/ Pc(c) \/ Cc(c)
    \/ \E c \in Listed : MmbPlus(c) \/ MmbMinus(c) \/ Mmblk(c) \/ Mmbuk(c)
    \/ Prtye \/ Sptye \/ Gptye \/ NextMap \/ Rsglb \/ WorldMap
    \/ MenuOn \/ MenuLeave \/ MenuEnd
    \/ \E i \in Slot, c \in Char \cup {NoChar} : MenuExchange(i, c)
    \/ \E p \in Pool, s \in Slot, a \in Amounts : Plus(p, s, a) \/ Minus(p, s, a)
    \/ Hmpmx \/ Mhmmx
    \/ \E g \in Gils : GoldPlus(g) \/ GoldMinus(g)

Spec == Init /\ [][Next]_vars

-----------------------------------------------------------------------------
(* Properties.                                                             *)

\* Every variable keeps its type, whatever is added to and taken from pools and
\* gil.
TypeOK ==
    /\ party \in Party /\ partyID \in Party /\ kept \in Party \cup {NoParty}
    /\ visible \subseteq Char /\ locked \subseteq Char /\ placed \subseteq Char
    /\ updated \in BOOLEAN /\ menu \in {"none", "asked", "back"}
    /\ pc \in Char \cup {NoChar}
    /\ points \in [Pool -> [Char -> 0 .. 2 * Half - 1]]
    /\ rec \in [Slot -> [Pool -> -Half .. Half - 1]]
    /\ gil \in 0 .. GilTop /\ plan \in Plans

\* Nobody is in the party twice, in neither copy, in whatever order opcodes
\* and menus change them (PRTYP, PartyReplace, PartyCompare, PartyAdd).
OnceEach == \A i, j \in Slot : /\ party[i] = party[j] /\ party[i] # NoChar => i = j
                               /\ partyID[i] = partyID[j] /\ partyID[i] # NoChar => i = j

\* Whatever MMB+- or a menu has done to one copy alone: what is carried over
\* leaves the same members in both, and those it had where they were
\* (PartyFromBank2ToSave, PartyFromSaveToBank2).
SameMembers == Members(party) = Members(partyID)
StayPut(p, q) == \A i \in Slot : p[i] \in Members(q) => q[i] = p[i]
ToSave   == Prtye \/ Sptye \/ \E c \in Char : Prtyp(c) \/ Prtym(c)
CopiesAgree == [][ /\ (SameMembers' /\ StayPut(partyID, partyID')) \/ ~ToSave
                   /\ (SameMembers' /\ StayPut(party, party')) \/ ~MenuEnd ]_vars

\* The player's model is the leader's, in whatever order the entities' PC and
\* the party's opcodes come; only CC, RSGLB and a menu part the two.
LeaderShown == party[0] \in placed => pc = party[0]
LeaderKept  == [][LeaderShown' \/ ~LeaderShown \/ MenuEnd \/ Rsglb \/ \E c \in Char : Cc(c)]_vars

\* Given amounts that are not negative and fit into sixteen bits on top of a full
\* pool, no pool leaves its limits (the compares of HP+-, MP+- and HMPMX).
SmallAmounts == \A a \in Amounts : a >= 0 /\ MaxPoints + a < Half
PoolsInLimits == /\ \A p \in Pool, c \in Char : points[p][c] \in 0 .. MaxPoints
                 /\ \A i \in Slot, p \in Pool : rec[i][p] \in 0 .. MaxPoints

\* What n points may become when a are given or taken: what they should, up to
\* the limits; when the code's compares do not see the result for what it is, also
\* what sixteen bits make of it.
Limited(n)  == IF n < 0 THEN 0 ELSE IF n > MaxPoints THEN MaxPoints ELSE n
Given(n, a) == IF n <= MaxPoints /\ n + a \in 0 .. Half - 1
               THEN {Limited(n + a)} ELSE {MaxPoints, (n + a) % (2 * Half)}
Taken(n, a) == IF n <= MaxPoints /\ n - a <= MaxPoints
               THEN {Limited(n - a)} ELSE {0, (n - a) % (2 * Half)}

\* Nothing, or all one can have; MHMMX fills the party itself up twice.
Filled(n) == {n} \cup Given(n, Full) \cup UNION {Given(m, Full) : m \in Given(n, Full)}

\* Points are given to and taken from one character by the amount, or everybody is
\* filled up: no old battle record gets into the save data of somebody else
\* (SystemRefreshParty before HP+-, MP+-, HMPMX, MHMMX), whatever the amount.
PoolStep(p) ==
    \/ points'[p] = points[p]
    \/ \E c \in Char, a \in Amounts :
           /\ \A d \in Char \ {c} : points'[p][d] = points[p][d]
           /\ points'[p][c] \in Given(points[p][c], a) \cup Taken(points[p][c], a)
    \/ \A c \in Char : points'[p][c] \in Filled(points[p][c])
OnlyTheirs == [][\A p \in Pool : PoolStep(p)]_points

=============================================================================
