----------------------------- MODULE FieldPartyMC -----------------------------
(***************************************************************************)
(* Field maps for model checking the party side of FieldScript.  Entities  *)
(* 0, 1 and 2 play characters 0, 1 and 2, entity 3 is a director without a *)
(* model.  A driver splits the party and joins it again, the director      *)
(* asks questions, takes the player's control and addresses party slots,   *)
(* and another character walks on its own.                                 *)
(***************************************************************************)
EXTENDS TLC, FieldScript

CONSTANTS Drivers,      \* entities whose main script splits and joins the party
          Directions,   \* what the director does meanwhile
          Parties       \* the party the map is entered with

Maps == [driver : Drivers, dir : Directions, members : Parties]

Asm == INSTANCE ScriptImages WITH Entities <- 4, Scripts <- 7, BodyLen <- 5

Gather(d) == IF d = "prtye"
             THEN << Asm!I("SPLIT"), Asm!I("JOIN"), Asm!P(0, 2, 254), Asm!J("BACK", 1) >>
             ELSE << Asm!I("SPLIT"), Asm!I("JOIN"), Asm!J("BACK", 1) >>
Direct(d) ==
    CASE d = "ask"   -> << Asm!N("UC", 0), Asm!I("ASK"), Asm!N("UC", 1), Asm!J("BACK", 1) >>
      [] d = "preq"  -> << Asm!R("PREQ", 1, 2, 1), Asm!R("PRQSW", 2, 2, 1), Asm!J("BACK", 1) >>
      [] d = "prqew" -> << Asm!R("PRQEW", 1, 2, 1), Asm!R("PREQ", 2, 0, 2), Asm!J("BACK", 1) >>
      [] d = "retto" -> << Asm!R("REQSW", 2, 5, 2), Asm!R("REQSW", 2, 3, 3), Asm!J("BACK", 1) >>
      [] d = "reqew" -> << Asm!R("REQEW", 2, 3, 1), Asm!J("BACK", 1) >>
      [] d = "swap"  -> << Asm!P(0, 2, 254), Asm!I("WAIT1"), Asm!P(0, 1, 254), Asm!J("BACK", 1) >>
      [] OTHER       -> << Asm!I("MOVE") >>

Members0(p) == CASE p = "two"  -> <<0, 1, NoChar>>
                 [] p = "back" -> <<2, NoChar, 0>>
                 [] p = "full" -> <<0, 1, 2>>

Body(m) == [e \in 0 .. 3 |->
    IF e = m.driver THEN (0 :> Gather(m.dir))
    ELSE IF e = 3 THEN (0 :> Direct(m.dir))
    ELSE IF e = 2 THEN (0 :> << Asm!I("MOVE"), Asm!J("BACK", 1) >>)
                    @@ (1 :> << Asm!I("MOVE") >>)
                    @@ (2 :> << Asm!I("POLL") >>)
                    @@ (3 :> << Asm!J("IF", 3), Asm!R("RETTO", 0, 4, 1), Asm!R("RETTO", 0, 7, 4) >>)
                    @@ (4 :> << Asm!I("WAIT1"), Asm!J("BACK", 1) >>)
    ELSE (0 :> << Asm!I("WAIT1"), Asm!J("BACK", 1) >>)
      @@ (1 :> << Asm!I("MOVE"), Asm!I("NOP") >>)]

\* Nobody is talked to or pushed while the director waits with REQEW.
Talkable(m) == IF m.dir = "reqew" THEN <<>> ELSE <<0, 1, 2>>
Built == Asm!Table([m \in Maps |->
             [Asm!Assemble(Body(m), Talkable(m), <<>>, [c \in Char |-> c],
                           [i \in Slot |-> Members0(m.members)[i + 1]], FALSE)
              EXCEPT !.modelled = {0, 1, 2}]])
\* The main scripts and what RETTO puts in the place of entity 2's.
ASSUME MainScripts ==
    \A m \in Map : MainCode(Image[m], {a \in Addr : (a - 1) \div 5 \in {0, 7, 14, 18, 21}})
\* TLC keeps the value of a definition, not that of a constant it replaces.
Images == Built
Given  == Maps
=============================================================================
