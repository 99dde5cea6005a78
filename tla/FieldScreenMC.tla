--------------------------- MODULE FieldScreenMC ---------------------------
(***************************************************************************)
(* Seven maps, each with two scripts that want the same part of the picture. *)
(***************************************************************************)
EXTENDS FieldScreen, TLC

CONSTANTS pc, npc, none, a, b

I(op) == [op |-> op, x |-> 0, n |-> 0, mode |-> 0, model |-> none, axes |-> {}, src |-> 0, dst |-> 0, from |-> 0, by |-> <<0, 0, 0>>]
To(op, x, n)    == [I(op) EXCEPT !.x = x, !.n = n]
On(op, m, k, n) == [I(op) EXCEPT !.model = m, !.mode = k, !.n = n]
Fading(op, k, x, n) == [I(op) EXCEPT !.mode = k, !.x = x, !.n = n]
Shaking(axes, amp, n) == [I("SHAKE") EXCEPT !.axes = axes, !.x = amp, !.n = n]
Cells(op, dst, src, n) == [I(op) EXCEPT !.dst = dst, !.src = src, !.n = n]
Tint(op, dst, src, n, by) == [Cells(op, dst, src, n) EXCEPT !.by = by]

Rgb(r, g, bl) == [r |-> r, g |-> g, b |-> bl, stp |-> FALSE]
Map == [scripts |-> [e \in {a, b} |-> <<>>], limits |-> <<-2, 3>>, places |-> {1, 4}, walkers |-> {}, movies |-> FALSE,
        leaves |-> FALSE, bias |-> 1, wrap |-> 2, parallax |-> 128,
        pal |-> [c \in 0 .. 5 |-> IF c % 3 = 0 THEN Hole ELSE Rgb(c, 20, 3 * c)],
        vram |-> [c \in 0 .. 5 |-> Rgb(c, c, 31)]]
With(as, bs) == [Map EXCEPT !.scripts = (a :> as @@ b :> bs)]

Scrolling == [With(<<To("SCR2DL", 5, 2), I("SCRLW"), To("SCR2DC", -3, 3), I("SCRLW"), I("SCRCC")>>,
                   <<To("SCR2D", 4, 0), I("SCRLW"), I("WAIT"), To("SCR2DC", 1, 1)>>) EXCEPT !.leaves = TRUE]
Following == [With(<<On("SCRLA", npc, 3, 2), I("SCRLW"), I("SCRCC"), I("SCRLW")>>,
                   <<On("SCRLP", none, 2, 1), On("SCRLA", none, 1, 1), On("SCRLP", pc, 2, 2)>>) EXCEPT !.walkers = {pc, npc}]
Shakes    == With(<<Shaking({"x"}, 4, 2), I("WAIT"), Shaking({}, 0, 0), I("WAIT"), Shaking({"x"}, 200, 1), I("WAIT"),
                    Shaking({}, 0, 0)>>,
                  <<Fading("VWOFT", 1, 3, 2), I("WAIT"), Fading("VWOFT", 2, 0, 1), On("SCRLC", none, 1, 0), Fading("VWOFT", 0, 2, 0)>>)
Left      == [With(<<Shaking({"x"}, 4, 1), I("WAIT"), Shaking({}, 0, 0)>>,
                   <<On("SCRLC", none, 1, 1), To("SCR2DL", 2, 1)>>) EXCEPT !.leaves = TRUE]
Fadings   == [With(<<Fading("FADE", 6, 0, 4), I("FADEW"), Fading("NFADE", 11, 0, 2), I("FADEW"), Fading("FADE", 4, 0, 0), I("FADEW")>>,
                   <<Fading("FADE", 5, 2, 4), I("FADEW"), Fading("NFADE", 12, 0, 3), I("FADEW")>>) EXCEPT !.leaves = TRUE]
Layered   == [With(<<To("BGSCR", 2, 16), I("WAIT"), To("BGSCR", 3, -16), To("BGON", 0, 7), To("BGON", 0, 0), To("BGROL", 0, 0), To("BGOFF", 0, 1)>>,
                   <<To("BGON", 1, 3), To("BGROL2", 0, 0), To("SCR2DL", 4, 2), I("SCRLW"), To("BGCLR", 1, 0)>>) EXCEPT !.movies = TRUE]
Colouring == With(<<Tint("ADPAL", 0, 0, 2, <<254, 236, 250>>), Cells("CPPAL", 3, 0, 1), Tint("MPPAL", 3, 0, 2, <<64, 128, 32>>), Cells("LDPAL", 0, 3, 2)>>,
                  <<Tint("ADPAL", 3, 0, 2, <<1, 2, 128>>), Cells("STPAL", 1, 1, 0), [Cells("RTPAL", 0, 0, 1) EXCEPT !.x = 1],
                    Tint("MPPAL", 0, 0, 2, <<1, 1, 1>>), Cells("CPPAL", 1, 0, 2)>>)

PlansHere == {Scrolling, Following, Shakes, Left, Fadings, Layered, Colouring}
=============================================================================
