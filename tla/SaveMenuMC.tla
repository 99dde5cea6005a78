----------------------------- MODULE SaveMenuMC -----------------------------
(***************************************************************************)
(* One card has a good file, and a torn one; the other is not formatted.   *)
(***************************************************************************)
EXTENDS SaveMenu, TLC

CONSTANTS used, raw

Good(g) == FileOf([game |-> g, sum |-> g])
Torn    == [Good(1) EXCEPT ![Chunks] = Blank[1]]
OnCards ==
    (used :> [formatted |-> TRUE, dir |-> {0}, block |-> [f \in File |-> IF f = 0 THEN Good(1) ELSE Torn]])
    @@ (raw :> [formatted |-> FALSE, dir |-> {}, block |-> [f \in File |-> Blank]])
=============================================================================
