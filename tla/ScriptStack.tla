---------------------------- MODULE ScriptStack ----------------------------
(***************************************************************************)
(* What the script scheduler of the field module promises about the        *)
(* scripts of one entity, without program counters in registers, parked    *)
(* entry points, waiters or turns: every level holds at most one script,   *)
(* the most urgent script is the one that runs, it alone advances and only *)
(* it can go away, a script may be put on an empty level only, and the     *)
(* bottom level always holds the main script.                              *)
(***************************************************************************)
EXTENDS Integers

CONSTANTS Entity, Level, Bottom, Addr, None

VARIABLE frames     \* frames[e][l]: where e's script on level l stands, or None

Frames == [Entity -> [Level -> Addr \cup {None}]]

\* Level l holds the script of e that runs.
Runs(e, l) == /\ frames[e][l] # None
              /\ \A k \in Level : k < l => frames[e][k] = None

Init == /\ frames \in Frames
        /\ \A e \in Entity, l \in Level : frames[e][l] # None <=> l = Bottom

\* Its script moves on.
Advance(e) == \E l \in Level, a \in Addr :
                /\ Runs(e, l)
                /\ frames'[e] = [frames[e] EXCEPT ![l] = a]

\* A script is put on an empty level: it preempts the running one or is parked.
Push(e) == \E l \in Level, a \in Addr :
             /\ frames[e][l] = None
             /\ frames'[e] = [frames[e] EXCEPT ![l] = a]

\* The running script returns; the main script never does.
Pop(e) == \E l \in Level :
            /\ Runs(e, l) /\ l # Bottom
            /\ frames'[e] = [frames[e] EXCEPT ![l] = None]

\* A request moves the asking entity and the asked one in the same step.
Next == /\ frames' \in Frames
        /\ \A e \in Entity :
             frames'[e] = frames[e] \/ Advance(e) \/ Push(e) \/ Pop(e)

Spec == Init /\ [][Next]_frames
=============================================================================
