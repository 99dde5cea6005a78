---------------------------- MODULE FieldDialogMC ----------------------------
(***************************************************************************)
(* Plans for model checking FieldDialog.  A plan says what each entity's   *)
(* scripts may do with the windows, at the level of the main script and on *)
(* top of it.                                                              *)
(***************************************************************************)
EXTENDS FieldDialog

CONSTANT Names      \* the plans of this run

Texts == [m \in {"long", "timed", "rows", "short"} |->
            CASE m = "long"  -> <<"CHAR", "OK", "NEXT">>
              [] m = "timed" -> <<"PAUSE", "SCROLL">>
              [] m = "rows"  -> <<"ROW", "CHAR", "ROW">>
              [] m = "short" -> <<>>]

Do(name, w)   == [op |-> name, w |-> w, m |-> "short", n |-> 2]
Num(name, n)  == [op |-> name, w |-> 0, m |-> "short", n |-> n]
Mess(w, m)    == [op |-> "MES", w |-> w, m |-> m, n |-> 0]

Scripts(name) ==
    CASE name = "share" ->      \* two entities want the same window
           [main |-> << {Mess(0, "long")}, {Mess(0, "rows"), Do("WCLSE", 0)} >>,
            talk |-> << {Mess(1, "timed")}, {Do("WCLS", 0)} >>]
      [] name = "mode" ->       \* a window that OK does not close
           [main |-> << {Num("WMODE", 1), Mess(0, "short")},
                        {Do("WSIZW", 0), Num("WROW", 1), Do("WCLSE", 0), Num("WMODE", 0)} >>,
            talk |-> << {Do("WSIZW", 0)}, {} >>]
      [] name = "own" ->        \* a script shows something in the window of the one beneath
           [main |-> << {Mess(0, "timed")}, {Do("MENU", 0), Mess(1, "rows")} >>,
            talk |-> << {Mess(0, "rows")}, {Do("BATLE", 0)} >>]
      [] name = "reset" ->      \* a window is reset while it is open
           [main |-> << {Mess(0, "long")}, {Mess(1, "short")} >>,
            talk |-> << {Do("WREST", 0)}, {Do("WREST", 0)} >>]

PlanOf(name) == [main |-> [e \in 0 .. 1 |-> Scripts(name).main[e + 1]],
                 talk |-> [e \in 0 .. 1 |-> Scripts(name).talk[e + 1]]]
PlansHere == {PlanOf(name) : name \in Names}
=============================================================================
