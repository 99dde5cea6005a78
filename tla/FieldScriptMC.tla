---------------------------- MODULE FieldScriptMC ----------------------------
(***************************************************************************)
(* Field maps for model checking the requests of FieldScript.  Two         *)
(* directors, entities 0 and 1, ask entity 2 over and over for two of its  *)
(* scripts, each on its own level and with its own kind of request.  The   *)
(* player's triggers preempt entity 2 or director 0, whose triggered       *)
(* script makes a request of its own.                                      *)
(***************************************************************************)
EXTENDS TLC, FieldScript

CONSTANTS Kinds0, Kinds1,   \* kinds of request of the two directors
          Levels0, Levels1, \* levels they ask for
          Triggers          \* what the player can do

Maps == [k0 : Kinds0, k1 : Kinds1, q0 : Levels0, q1 : Levels1, trig : Triggers]

Asm == INSTANCE ScriptImages WITH Entities <- 3, Scripts <- 7, BodyLen <- 4

\* The director's script 1 is the one a trigger on it starts.
Body(m) == [e \in 0 .. 2 |->
    CASE e = 0 -> (0 :> << Asm!R(m.k0, 2, m.q0, 1), Asm!J("BACK", 1) >>)
               @@ (1 :> << Asm!R(m.k1, 2, m.q0, 2) >>)
      [] e = 1 -> (0 :> << Asm!R(m.k1, 2, m.q1, 2), Asm!J("BACK", 1) >>)
      [] e = 2 -> (0 :> << Asm!N("WAIT", 2), Asm!J("BACK", 1) >>)
               @@ (1 :> << Asm!N("WAIT", 2) >>)
               @@ (2 :> << Asm!J("IF", 3), Asm!I("WAIT1") >>)
               @@ (4 :> << Asm!N("LINON", 0), Asm!I("NOP"), Asm!N("LINON", 1) >>)
               @@ (6 :> << Asm!J("SKIP", 3), Asm!I("NOP"), Asm!N("WAIT", 0) >>)]

Models(m) == CASE m.trig = "talk target" -> <<2>>
               [] m.trig = "talk director" -> <<0>>
               [] OTHER -> <<>>
Lines(m)  == IF m.trig = "line" THEN <<2>> ELSE <<>>

Built == Asm!Table([m \in Maps |->
             Asm!Assemble(Body(m), Models(m), Lines(m),
                          [c \in 0 .. 0 |-> NoEntity], [i \in Slot |-> NoChar], FALSE)])
\* TLC keeps the value of a definition, not that of a constant it replaces.
Images == Built
Given  == Maps
=============================================================================
