------------------------------ MODULE ItemBag -------------------------------
(***************************************************************************)
(* What the inventory promises to those who use it: a number of each item,  *)
(* up to a limit, whatever places the items lie at and in which order.      *)
(***************************************************************************)
EXTENDS Integers

CONSTANTS Ids, Cap

VARIABLE bag

TypeOK == bag \in [Ids -> 0 .. Cap]

Less(a, b) == IF a < b THEN a ELSE b

Put(id, n)  == bag' = [bag EXCEPT ![id] = Less(@ + n, Cap)]
Take(id, n) == bag' = [bag EXCEPT ![id] = IF n < @ THEN @ - n ELSE 0]
Clear       == bag' = [id \in Ids |-> 0]
Fill        == bag' = [id \in Ids |-> Cap]

Init == TypeOK
Next == \/ \E id \in Ids, n \in 0 .. Cap : Put(id, n) \/ Take(id, n)
        \/ Clear \/ Fill

Spec == Init /\ [][Next]_bag
=============================================================================
