--------------------------- MODULE FieldMotionMC ---------------------------
(***************************************************************************)
(* Instances of FieldMotion: a map is named for what the scripts of entity *)
(* 0, the player's, are made of; entity 1 stands there or plays its part.  *)
(***************************************************************************)
EXTENDS FieldMotion, TLC

CONSTANT Names      \* the maps of this run

AnimLasts == (0 :> 0) @@ (1 :> 0) @@ (2 :> 1)

Do(op)          == [op |-> op, who |-> 1, at |-> 0, steps |-> 1, to |-> 0, way |-> 0, kind |-> 1,
                    anim |-> 2, first |-> 0, stop |-> 2, div |-> 1, on |-> FALSE]
At(op, p)       == [Do(op) EXCEPT !.at = p]
By(op, d, n, k) == [Do(op) EXCEPT !.to = d, !.steps = n, !.kind = k]
On(op)          == [Do(op) EXCEPT !.on = TRUE]
Stand           == {Do("IDLE")}

Scripts(name) ==
    CASE name = "walk"  -> << {At("MOVE", 2), At("CMOVE", 0), Do("RET")}, Stand >>
      [] name = "meet"  -> << {Do("MOVA"), Do("DIRA")}, {At("FMOVE", 2)} >>
      [] name = "fix"   -> << {At("FMOVE", 2), At("CMOVE", 1), On("FCFIX"), Do("RET")}, Stand >>
      [] name = "jump"  -> << {[At("JUMP", 5) EXCEPT !.steps = 2], At("XYZI", 0), Do("RETTO")}, Stand >>
      [] name = "climb" -> << {[At("LADER", 5) EXCEPT !.way = 3], At("LADER", 0), Do("RET")}, Stand >>
      [] name = "turn"  -> << {By("TURN", 2, 3, 1), By("TURN", 1, 1, 2), Do("TURNW"), Do("RET")}, Stand >>
      [] name = "face"  -> << {[By("TURNR", 1, 2, 1) EXCEPT !.way = 1], [Do("TURA") EXCEPT !.way = 2],
                               By("DIR", 3, 1, 1), Do("DIRA"), Do("RET")}, Stand >>
      [] name = "shift" -> << {By("OFST", 0, 2, 1), By("OFST", 0, 1, 2), Do("OFSTW"), Do("RET")}, Stand >>
      [] name = "play"  -> << {Do("ANIME1"), Do("ANIM!1"), Do("ANIMW"), Do("RET")}, Stand >>
      [] name = "loop"  -> << {Do("ANIME2"), Do("ANIM!2"), Do("DFANM"), Do("ANIMB"), Do("ANIMW")}, Stand >>
      [] name = "part"  -> << {[Do("CANIM1") EXCEPT !.first = 2, !.div = 2],
                               [Do("CANM!2") EXCEPT !.first = 1, !.stop = 1], Do("ANIMW"), Do("RET")}, Stand >>
      [] name = "lock"  -> << {Do("ANIME1"), At("FMOVE", 2)}, {On("UC"), Do("UC")} >>
      [] name = "swap"  -> << {At("LADER", 2)}, {Do("CC"), Do("IDLE")} >>

MapOf(name) == [words |-> [e \in Body |-> Scripts(name)[e + 1]], locked |-> name \notin {"lock", "swap"}]
MapsHere == {MapOf(n) : n \in Names}
=============================================================================
