-------------------------- MODULE FieldEventCmdMC ---------------------------
(***************************************************************************)
(* Plans for model checking FieldEventCmd: in each, a command is asked for *)
(* by one entity only, but for "free", where the player asks as well.      *)
(***************************************************************************)
EXTENDS FieldEventCmd

CONSTANT Names      \* the plans of this run

Do(name, c, a) == [op |-> name, cmd |-> c, arg |-> a]
Fight    == Do("BATLE", "BATTLE", 0)
Swap     == Do("DSKCG", "DISC", 0)
Jump(m)  == Do("MJUMP", "MAP", m)
Play     == Do("MGAME", "GAME", 10)
Menu(c)  == Do("MENU", c, 1)
Film     == << Do("PMVIE", "LOAD", 100), Do("MOVIE", "PLAY", 0) >>
Ahead(m) == << Do("PMJMP", "NONE", m), Do("PMJMP2", "NONE", 0) >>

PlanOf(name) ==
    CASE name = "screens" ->    \* battles, menus, discs and events, player's menu
           [script |-> << << Fight, Menu("PARTY"), Do("MENU", "PARTY", 0), Swap, Play >>,
                          << Menu("NAME"), Menu("EVENT") >> >>,
            gates |-> {11}, free |-> FALSE, menu |-> TRUE, mvlck |-> FALSE]
      [] name = "movies" ->     \* a disc, movies, then another map
           [script |-> << << Swap >> \o Film \o Film \o << Jump(11) >>, << >> >>,
            gates |-> {11}, free |-> FALSE, menu |-> FALSE, mvlck |-> FALSE]
      [] name = "ahead" ->      \* the next map is named and waited for
           [script |-> << Ahead(11) \o << Jump(11) >>, << >> >>,
            gates |-> {}, free |-> FALSE, menu |-> FALSE, mvlck |-> FALSE]
      [] name = "locked" ->     \* movies are switched off
           [script |-> << Film, << Do("GMOVR", "OVER", 0) >> >>,
            gates |-> {30}, free |-> FALSE, menu |-> TRUE, mvlck |-> TRUE]
      [] name = "free" ->       \* the player walks meanwhile
           [script |-> << << Fight, Jump(20) >>, << >> >>,
            gates |-> {11, 20, 30}, free |-> TRUE, menu |-> TRUE, mvlck |-> FALSE]
      [] name = "walk" ->       \* the player walks past a movie that is stopped
           [script |-> << Film, << Menu("STOP"), Menu("CREDITS") >> >>,
            gates |-> {11, 20}, free |-> TRUE, menu |-> FALSE, mvlck |-> FALSE]

PlansHere == {LET p == PlanOf(name)
              IN [p EXCEPT !.script = [e \in Entity |-> p.script[e + 1]]] : name \in Names}

ASSUME OneAsker
=============================================================================
