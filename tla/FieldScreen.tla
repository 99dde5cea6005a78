---------------------------- MODULE FieldScreen ----------------------------
(***************************************************************************)
(* What field scripts do to the picture: scrolling the camera, the view    *)
(* offset, shaking, fading, the animated layers and the palettes           *)
(* (src/src/field/field4.c, field5.c), and the functions that carry the    *)
(* orders out once per frame (src/src/field/field2.c, field.c).            *)
(*                                                                         *)
(* An order is a few fields of the field's state that the opcode writes    *)
(* and the frame reads; SCRLW and FADEW poll it.  There is one camera, one *)
(* shake and one fade for all scripts of the map, and the orders outlive   *)
(* the script, and in part the map, that gave them.                        *)
(*                                                                         *)
(* Both axes go the same way: the camera has one here, and `place' is      *)
(* where a model is on it, as the projection has it.  The sine of an eased *)
(* movement is left out: it starts, ends and turns back where a linear one *)
(* does.  Fades are carried out by code outside src/: `Fades' is what the  *)
(* opcodes that start and poll them take for granted.                      *)
(***************************************************************************)
EXTENDS Integers, Sequences, FiniteSets

CONSTANTS
    Plans,      \* scripts, models, limits and what else may happen, of one map each
    Scripts, Models, Player, NoModel,
    Rolls,      \* what the random table holds
    FadeEnd,    \* the end of a fade to a colour (255 in the game)
    MaxMaps     \* bound: maps entered

Byte == 0 .. 255
Word(x) == ((x + 32768) % 65536) - 32768    \* (s16)x
SByte(x) == ((x + 128) % 256) - 128         \* (s8)x
\* C divides towards zero, and a remainder has the sign of the dividend.
Abs(a) == IF a < 0 THEN -a ELSE a
Quot(a, b) == IF (a < 0) = (b < 0) THEN Abs(a) \div Abs(b) ELSE -(Abs(a) \div Abs(b))
Rem(a, b)  == a - b * Quot(a, b)
Clamped(x, least, most) == IF x < least THEN least ELSE IF x > most THEN most ELSE x

Axes == {"x", "y"}
Layers == {2, 3}                            \* the layers with a scroll of their own

\* The modes that take steps, linear and smooth.
ToEntity == {2, 3}
ToCoords == {5, 6}

VARIABLES
    plan,       \* the map
    pos,        \* how far each script is
    rest,       \* a script that waits for the next frame: "no", "begun", "over"
    camera,     \* cameraScroll..., D_8009A100, D_80071E38 and g_CameraScroll...
    place,      \* where each model is
    view,       \* viewOffset...
    shake,      \* shakeX, shakeY
    fade,       \* fadeType, fadeAdjust, fadeSpeed
    layer,      \* how far the layers have scrolled by themselves, and their speeds
    lit,        \* backgroundLayerVisibility: the bits that are set
    pal,        \* the stored palettes, one colour after the other
    vram,       \* the palettes that are drawn with
    streams,    \* a movie plays with a camera of its own
    picture,    \* where the background and the layers were drawn last
    maps        \* maps entered so far

orders == <<camera, view, shake, fade>>
colours == <<pal, vram>>
vars == <<plan, pos, rest, camera, place, view, shake, fade, layer, lit, pal, vram, streams, picture, maps>>

More(e) == pos[e] <= Len(plan.scripts[e])
Op(e) == plan.scripts[e][pos[e]]
Executes(e, op) == More(e) /\ Op(e).op = op /\ pos' = [pos EXCEPT ![e] = @ + 1]
KeepRest == UNCHANGED <<plan, rest, place, streams, picture, maps>>
----------------------------------------------------------------------------
(***************************************************************************)
(* The camera: SCR2D, SCR2DC, SCR2DL, SCRLC, SCRLA, SCRLP, SCRCC, SCRLW    *)
(***************************************************************************)
OrderScroll(c) == camera' = c /\ KeepRest /\ UNCHANGED <<view, shake, fade, layer, lit, colours>>

ToPoint(mode, i) == [camera EXCEPT !.mode = mode, !.target = i.x, !.state = 0]
ToPointIn(mode, i) == [ToPoint(mode, i) EXCEPT !.n = i.n]
ToModel(mode, m, n) == [camera EXCEPT !.mode = mode, !.model = m, !.n = n, !.state = 0]

Scr2d(e)  == Executes(e, "SCR2D")  /\ OrderScroll(ToPoint(4, Op(e)))
Scr2dl(e) == Executes(e, "SCR2DL") /\ OrderScroll(ToPointIn(5, Op(e)))
Scr2dcRuns(e) == Executes(e, "SCR2DC") /\ OrderScroll([ToPointIn(6, Op(e)) EXCEPT !.state = camera.state])
Scr2dc(e) == Executes(e, "SCR2DC") /\ OrderScroll(ToPointIn(6, Op(e)))
Scrlc(e)  == Executes(e, "SCRLC")  /\ OrderScroll(ToModel(Op(e).mode, Player, Op(e).n))
Scrcc(e)  == Executes(e, "SCRCC")  /\ OrderScroll(ToModel(0, Player, camera.n))
\* Without a model SCRLA and SCRLP do nothing.
Scrla(e)  == /\ Executes(e, "SCRLA")
             /\ OrderScroll(IF Op(e).model = NoModel THEN camera ELSE ToModel(Op(e).mode, Op(e).model, Op(e).n))
\* SCRLP of an empty slot looks behind the table of models.
Scrlp(e)  == /\ Executes(e, "SCRLP")
             /\ \E m \in (IF Op(e).model = NoModel THEN Models \cup {NoModel} ELSE {Op(e).model}) :
                    OrderScroll(IF m = NoModel THEN camera ELSE ToModel(Op(e).mode, m, Op(e).n))
\* The wait that ends turns the order into its lasting form.
Scrlw(e)  == /\ camera.state = 2
             /\ Executes(e, "SCRLW")
             /\ OrderScroll([camera EXCEPT !.state = 0,
                    !.mode = IF @ \in 1 .. 3 THEN 1 ELSE IF @ \in ToCoords THEN 4 ELSE @])

Linear(from, to, n, k) == from + Quot((to - from) * k, n)
\* One step too many turns back.
Eased(from, to, n, k) == Linear(from, to, n, IF k > n THEN 2 * n - k ELSE k)
FieldBGClampPos(x) == Clamped(x, plan.limits[1], plan.limits[2])
Shown(m, v) == -FieldBGClampPos(place[m] + v.offset)

FieldBGScrollInit(c) ==
    IF c.state # 0 THEN c
    ELSE CASE c.mode = 0 -> [c EXCEPT !.on = FALSE, !.at = 0, !.state = 2]
           [] c.mode = 1 -> [c EXCEPT !.on = TRUE, !.state = 1]
           [] c.mode = 4 -> [c EXCEPT !.on = TRUE, !.at = c.target, !.state = 2]
           [] c.mode \in ToEntity \cup ToCoords ->
                [c EXCEPT !.on = TRUE, !.state = 1, !.step = 0, !.steps = c.n, !.start = c.at,
                          !.end = IF c.mode \in ToCoords THEN c.target ELSE @]
           [] OTHER -> c

Goal(c, v) == IF c.mode \in ToCoords THEN c.end ELSE Shown(c.model, v)
Moved(c, v) == IF c.mode \in {2, 5} THEN Linear(c.start, Goal(c, v), c.steps, c.step)
                                    ELSE Eased(c.start, Goal(c, v), c.steps, c.step)
FieldBGScrollUpdate(c, v) ==
    CASE c.state = 1 /\ c.mode = 1 -> [c EXCEPT !.at = Goal(c, v)]
      [] c.state = 1 /\ c.mode \in ToEntity \cup ToCoords /\ c.steps = c.step ->
            [c EXCEPT !.at = Moved(c, v), !.state = 2]
      [] c.state = 1 /\ c.mode \in ToEntity \cup ToCoords /\ c.steps # c.step ->
            [c EXCEPT !.at = Moved(c, v), !.step = @ + 1]
      [] OTHER -> c
----------------------------------------------------------------------------
(***************************************************************************)
(* The view offset: VWOFT                                                  *)
(***************************************************************************)
Vwoft(e) ==
    /\ Executes(e, "VWOFT")
    /\ view' = IF Op(e).mode # 0
               THEN [view EXCEPT !.start = view.offset, !.target = Op(e).x, !.n = Op(e).n, !.mode = Op(e).mode, !.step = 0]
               ELSE [offset |-> Op(e).x, start |-> 0, target |-> 0, n |-> 0, mode |-> 0, step |-> 0]
    /\ KeepRest /\ UNCHANGED <<camera, shake, fade, layer, lit, colours>>

\* On its way the offset is cut to a byte.
ViewStep(v) ==
    IF v.mode \notin {1, 2} THEN v
    ELSE LET at == (IF v.mode = 1 THEN Linear(v.start, v.target, v.n, v.step)
                                  ELSE Eased(v.start, v.target, v.n, v.step)) % 256
         IN IF v.step # v.n THEN [v EXCEPT !.offset = at, !.step = @ + 1]
                            ELSE [v EXCEPT !.offset = at, !.mode = 3]
----------------------------------------------------------------------------
(***************************************************************************)
(* The shake: SHAKE                                                        *)
(***************************************************************************)
Shake(e) ==
    /\ Executes(e, "SHAKE")
    /\ shake' = [a \in Axes |-> IF a \in Op(e).axes
                                THEN [shake[a] EXCEPT !.on = TRUE, !.amp = Op(e).x, !.n = Op(e).n]
                                ELSE [shake[a] EXCEPT !.on = FALSE]]
    /\ KeepRest /\ UNCHANGED <<camera, view, fade, layer, lit, colours>>

Swing(s, roll) == Quot(Word(roll * s.amp), 256)
Back(s, roll)  == Quot(-Word(roll * s.amp), 256)
FieldBGShakeUpdateSwings(s, roll) ==
    CASE s.on /\ ~s.active -> [s EXCEPT !.step = 0, !.start = 0, !.target = Swing(s, roll), !.active = TRUE]
      [] s.active /\ s.n < s.step ->
            [s EXCEPT !.step = 0, !.start = s.target,
                      !.target = IF s.target < 0 THEN Swing(s, roll) ELSE Back(s, roll)]
      [] ~s.on /\ ~s.active /\ s.n = s.step -> [s EXCEPT !.offset = 0]
      [] OTHER -> [s EXCEPT !.step = Word(@ + 1), !.offset = SByte(Eased(s.start, s.target, s.n, s.step + 1))]
FieldBGShakeUpdate(s, roll) ==
    CASE s.on /\ ~s.active -> [s EXCEPT !.step = 0, !.start = 0, !.target = Swing(s, roll), !.active = TRUE]
      [] s.on /\ s.active /\ s.n < s.step ->
            [s EXCEPT !.step = 0, !.start = s.target,
                      !.target = IF s.target < 0 THEN Swing(s, roll) ELSE Back(s, roll)]
      [] ~s.on /\ s.active /\ s.n < s.step ->
            [s EXCEPT !.step = 0, !.start = s.target, !.target = 0, !.active = FALSE]
      [] ~s.on /\ ~s.active /\ s.n = s.step -> [s EXCEPT !.offset = 0]
      [] OTHER -> [s EXCEPT !.step = Word(@ + 1), !.offset = SByte(Eased(s.start, s.target, s.n, s.step + 1))]
----------------------------------------------------------------------------
(***************************************************************************)
(* The fade: FADE, NFADE, FADEW                                            *)
(***************************************************************************)
ToField  == {1, 5, 7, 9}    \* types that count down to 0
ToColour == {2, 6, 8, 10}   \* types that count up to FadeEnd
AtOnce   == {0, 4}
OrderFade(f) == fade' = f /\ KeepRest /\ UNCHANGED <<camera, view, shake, layer, lit, colours>>

Fade(e)  == /\ Executes(e, "FADE")
            /\ OrderFade([type |-> Op(e).mode, speed |-> Op(e).n,
                          adjust |-> CASE Op(e).mode \in ToField  -> Op(e).x + 1
                                       [] Op(e).mode \in ToColour -> Op(e).x
                                       [] OTHER                   -> fade.adjust])
NfadeGoesOn(e) == Executes(e, "NFADE") /\ OrderFade([type |-> Op(e).mode, speed |-> Op(e).n, adjust |-> fade.adjust])
Nfade(e) == Executes(e, "NFADE") /\ OrderFade([type |-> Op(e).mode, speed |-> Op(e).n, adjust |-> 0])
Faded == CASE fade.type \in AtOnce   -> TRUE
           [] fade.type \in ToField  -> fade.adjust = 0
           [] fade.type \in ToColour -> fade.adjust >= FadeEnd
           [] OTHER                  -> fade.adjust = fade.speed
Fadew(e) == Faded /\ Executes(e, "FADEW") /\ OrderFade(fade)

\* External: a fade comes nearer to its end in every frame.
Fades == [fade EXCEPT !.adjust =
            IF Faded THEN @ ELSE IF fade.type \in ToField THEN @ - 1 ELSE IF @ > FadeEnd THEN @ ELSE @ + 1]
----------------------------------------------------------------------------
(***************************************************************************)
(* The layers: BGSCR, BGON, BGOFF, BGCLR, BGROL, BGROL2                    *)
(***************************************************************************)
OrderLayers(l, b) == layer' = l /\ lit' = b /\ KeepRest /\ UNCHANGED <<orders, colours>>
Lit(e) == lit[Op(e).x]
Light(e, op, bits) == Executes(e, op) /\ OrderLayers(layer, [lit EXCEPT ![Op(e).x] = bits])

Bgscr(e) == /\ Executes(e, "BGSCR")
            /\ OrderLayers([l \in Layers |-> IF l = Op(e).x THEN [layer[l] EXCEPT !.speed = Op(e).n] ELSE layer[l]], lit)
Bgon(e)   == Light(e, "BGON",   Lit(e) \cup {Op(e).n})
Bgoff(e)  == Light(e, "BGOFF",  Lit(e) \ {Op(e).n})
Bgclr(e)  == Light(e, "BGCLR",  {})
Bgrol(e)  == Light(e, "BGROL",  {n + 1 : n \in Lit(e)} \cap 0 .. 7)
Bgrol2(e) == Light(e, "BGROL2", {n - 1 : n \in Lit(e)} \cap 0 .. 7)

Scrolled(l) == [layer[l] EXCEPT !.at = Rem(Word(@ + layer[l].speed), plan.wrap * 16)]
Plane(l, x) == Rem(Word((x * plan.parallax) \div 256 + Scrolled(l).at \div 16), plan.wrap)
----------------------------------------------------------------------------
(***************************************************************************)
(* The palettes: STPAL, STPLS, LDPAL, LDPLS, CPPAL, CPPAL2, RTPAL, RTPAL2, *)
(* ADPAL, ADPAL2, MPPAL, MPPAL2                                            *)
(***************************************************************************)
\* In an instruction on palettes src and dst are entries of the store (or rows
\* and columns of video memory): the palette times Size and the first colour.
\* n is its size parameter: n + 1 colours.
Top == 31
Colour == [r : 0 .. Top, g : 0 .. Top, b : 0 .. Top, stp : BOOLEAN]
Hole  == [r |-> 0, g |-> 0, b |-> 0, stp |-> FALSE]     \* transparent
Black == [Hole EXCEPT !.stp = TRUE]
OrderColours(p, v) == pal' = p /\ vram' = v /\ KeepRest /\ UNCHANGED <<orders, layer, lit>>
Run(i) == i.dst .. i.dst + i.n
Taken(i, from, to) == [c \in DOMAIN to |-> IF c \in Run(i) THEN from[c - i.dst + i.src] ELSE to[c]]

\* One colour after the other: what was overwritten is read as it is now.  The
\* last argument makes the colour that is written of the one that is read and the
\* one that is there.
Passed(p, dst, src, n, Made(_, _)) ==
    LET p2[k \in 0 .. n] ==
            IF k = 0 THEN p ELSE [p2[k - 1] EXCEPT ![dst + k - 1] = Made(p2[k - 1][src + k - 1], @)]
    IN  IF n <= 0 THEN p ELSE p2[n]
Smeared(p, dst, src, n) == LET Copied(c, there) == c IN Passed(p, dst, src, n, Copied)
\* i.x and i.from are the first colours in the palettes dst and src.  Both halves
\* include the colour behind the run, and the second is put to where the run is
\* read from: to the first colour, if that is there.
Rotated(i) ==
    LET end == i.n + 1 + i.from
    IN  Smeared(Smeared(pal, i.dst + i.x, i.src + i.from, end - i.x + 1),
                i.dst + i.from, i.src + end - i.x, i.x + 1)

\* by is the change per channel, <<red, green, blue>>.
Signed8(x) == IF x >= 128 THEN x - 256 ELSE x
Added(c, d) ==
    LET s == [c EXCEPT !.r = Clamped(@ + Signed8(d[1]), 0, Top), !.g = Clamped(@ + Signed8(d[2]), 0, Top),
                       !.b = Clamped(@ + Signed8(d[3]), 0, Top)]
    IN IF s = Hole /\ c # Hole THEN Black ELSE s
\* A channel is doubled with the highest bit of the one below it.
Scaled(c, f) ==
    LET Times(v, k) == Clamped((v * k) \div 128, 0, Top)
        s == [c EXCEPT !.r = Times(2 * @, f[1]), !.g = Times(2 * @ + c.r \div 16, f[2]), !.b = Times(2 * @ + c.g \div 16, f[3])]
    IN IF s = Hole THEN Black ELSE s
AddedRun(i) == LET Made(c, there) == Added(c, i.by) IN Passed(pal, i.dst, i.src, i.n + 1, Made)
\* A hole is skipped: the destination keeps what it has.
ScaledRun(i) ==
    LET Made(c, there) == IF c = Hole THEN there ELSE Scaled(c, i.by) IN Passed(pal, i.dst, i.src, i.n + 1, Made)

Stpal(e) == Executes(e, "STPAL") /\ OrderColours(Taken(Op(e), vram, pal), vram)
Ldpal(e) == Executes(e, "LDPAL") /\ OrderColours(pal, Taken(Op(e), pal, vram))
Cppal(e) == Executes(e, "CPPAL") /\ OrderColours(Smeared(pal, Op(e).dst, Op(e).src, Op(e).n + 1), vram)
Rtpal(e) == Executes(e, "RTPAL") /\ OrderColours(Rotated(Op(e)), vram)
Adpal(e) == Executes(e, "ADPAL") /\ OrderColours(AddedRun(Op(e)), vram)
Mppal(e) == Executes(e, "MPPAL") /\ OrderColours(ScaledRun(Op(e)), vram)
----------------------------------------------------------------------------
(***************************************************************************)
(* Frames and maps                                                         *)
(***************************************************************************)
\* WAIT, and every other opcode after which the script goes on in a later frame.
WaitOn(e) == /\ More(e) /\ Op(e).op = "WAIT" /\ rest[e] = "no"
             /\ rest' = [rest EXCEPT ![e] = "begun"]
             /\ UNCHANGED <<plan, pos, orders, place, layer, lit, colours, streams, picture, maps>>
WaitEnd(e) == /\ rest[e] = "over"
              /\ Executes(e, "WAIT")
              /\ rest' = [rest EXCEPT ![e] = "no"]
              /\ UNCHANGED <<plan, orders, place, layer, lit, colours, streams, picture, maps>>

\* FieldBGUpdateDrawenv: without an order the camera is on the player, and the
\* view offset takes a step.
Follows(c) == ~streams /\ ~c.on
Tracked(c, v) == IF Follows(c) THEN [c EXCEPT !.at = Shown(Player, v)] ELSE c
FieldBGUpdateDrawenv(c, s) ==
    /\ layer' = [l \in Layers |-> Scrolled(l)]
    /\ IF streams THEN \E at \in {c.at, 0} : picture' = [picture EXCEPT ![1] = at]
                  ELSE picture' = [l \in 1 .. 3 |-> s["x"].offset + IF l = 1 THEN c.at ELSE -Plane(l, -c.at)]

Frame ==
    LET c == FieldBGScrollUpdate(FieldBGScrollInit(camera), view)
        v == IF Follows(c) THEN ViewStep(view) ELSE view
    IN /\ view' = v
       /\ camera' = Tracked(c, v)
       /\ \E roll \in [Axes -> Rolls] : shake' = [a \in Axes |-> FieldBGShakeUpdate(shake[a], roll[a])]
       /\ FieldBGUpdateDrawenv(camera', shake')
       /\ fade' = Fades
       /\ rest' = [e \in Scripts |-> IF rest[e] = "begun" THEN "over" ELSE rest[e]]
       /\ UNCHANGED <<plan, pos, place, lit, colours, streams, maps>>

\* The engine: a model walks, a movie with a camera of its own starts or ends.
Walk == /\ \E m \in plan.walkers, x \in plan.places : place[m] # x /\ place' = [place EXCEPT ![m] = x]
        /\ UNCHANGED <<plan, pos, rest, orders, layer, lit, colours, streams, picture, maps>>
Movie == /\ plan.movies /\ streams' = ~streams
         /\ UNCHANGED <<plan, pos, rest, orders, place, layer, lit, colours, picture, maps>>

FadeIn == [type |-> 1, speed |-> 16, adjust |-> FadeEnd + 1]
\* FieldMain: the field comes back from a battle or a menu.
Resume == /\ maps < MaxMaps /\ plan.leaves
          /\ fade' = FadeIn /\ maps' = maps + 1
          /\ UNCHANGED <<plan, pos, rest, camera, view, shake, place, layer, lit, colours, streams, picture>>
\* FieldInitDefaultValues and FieldMain: neither how far a scroll is nor where
\* it led is reset, only the mode, the switch and the place of the camera.
EnterMapSwinging ==
    /\ maps < MaxMaps /\ plan.leaves
    /\ camera' = [camera EXCEPT !.mode = 0, !.on = FALSE, !.at = 0]
    /\ view' = [offset |-> plan.bias, start |-> 0, target |-> 0, n |-> 0, mode |-> 0, step |-> 0]
    /\ shake' = [a \in Axes |-> [shake[a] EXCEPT !.on = FALSE, !.amp = 0, !.n = 0, !.step = 0]]
    /\ layer' = [l \in Layers |-> [at |-> 0, speed |-> 0]]
    /\ lit' = [b \in DOMAIN lit |-> {}]
    /\ fade' = FadeIn
    /\ pos' = [e \in Scripts |-> 1] /\ rest' = [e \in Scripts |-> "no"]
    /\ pal' = plan.pal /\ vram' = plan.vram
    /\ streams' = FALSE /\ maps' = maps + 1
    /\ UNCHANGED <<plan, place, picture>>
EnterMap ==
    /\ maps < MaxMaps /\ plan.leaves
    /\ camera' = [camera EXCEPT !.mode = 0, !.on = FALSE, !.at = 0]
    /\ view' = [offset |-> plan.bias, start |-> 0, target |-> 0, n |-> 0, mode |-> 0, step |-> 0]
    /\ shake' = [a \in Axes |-> [shake[a] EXCEPT !.on = FALSE, !.active = FALSE, !.amp = 0, !.n = 0, !.step = 0]]
    /\ layer' = [l \in Layers |-> [at |-> 0, speed |-> 0]]
    /\ lit' = [b \in DOMAIN lit |-> {}]
    /\ fade' = FadeIn
    /\ pos' = [e \in Scripts |-> 1] /\ rest' = [e \in Scripts |-> "no"]
    /\ pal' = plan.pal /\ vram' = plan.vram
    /\ streams' = FALSE /\ maps' = maps + 1
    /\ UNCHANGED <<plan, place, picture>>

Init ==
    /\ plan \in Plans
    /\ pos = [e \in Scripts |-> 1] /\ rest = [e \in Scripts |-> "no"]
    /\ camera = [mode |-> 0, state |-> 0, target |-> 0, model |-> Player, n |-> 0,
                 on |-> FALSE, at |-> 0, step |-> 0, steps |-> 0, start |-> 0, end |-> 0]
    /\ place = [m \in Models |-> CHOOSE x \in plan.places : TRUE]
    /\ view = [offset |-> plan.bias, start |-> 0, target |-> 0, n |-> 0, mode |-> 0, step |-> 0]
    /\ shake = [a \in Axes |-> [on |-> FALSE, active |-> FALSE, amp |-> 0, n |-> 0, step |-> 0,
                                start |-> 0, target |-> 0, offset |-> 0]]
    /\ fade = FadeIn
    /\ layer = [l \in Layers |-> [at |-> 0, speed |-> 0]]
    /\ lit = [b \in 0 .. 1 |-> {}]
    /\ pal = plan.pal /\ vram = plan.vram
    /\ streams = FALSE /\ picture = [l \in 1 .. 3 |-> 0]
    /\ maps = 1

Scrolls(e) == Scr2d(e) \/ Scr2dl(e) \/ Scr2dc(e) \/ Scrlc(e) \/ Scrla(e) \/ Scrlp(e) \/ Scrcc(e) \/ Scrlw(e)
Effects(e) == Vwoft(e) \/ Shake(e) \/ Fade(e) \/ Nfade(e) \/ Fadew(e) \/ WaitOn(e) \/ WaitEnd(e)
Shows(e)   == Bgscr(e) \/ Bgon(e) \/ Bgoff(e) \/ Bgclr(e) \/ Bgrol(e) \/ Bgrol2(e)
Colours(e) == Stpal(e) \/ Ldpal(e) \/ Cppal(e) \/ Rtpal(e) \/ Adpal(e) \/ Mppal(e)
Runs(e) == Scrolls(e) \/ Effects(e) \/ Shows(e) \/ Colours(e)
Next == (\E e \in Scripts : Runs(e)) \/ Frame \/ Walk \/ Movie \/ Resume \/ EnterMap
Spec == Init /\ [][Next]_vars

\* Frames follow one another, and every script has its turn between two of them.
FairSpec == Spec /\ WF_vars(Frame) /\ \A e \in Scripts : WF_vars(Runs(e))
----------------------------------------------------------------------------
(***************************************************************************)
(* What must hold                                                          *)
(***************************************************************************)
\* The camera stands where its order says.  SCRLW lets a script go on only when
\* the camera is at the point that was asked for last, whoever asked for it; and
\* without an order every frame shows the player, also on a map that was entered
\* in the middle of a scroll.
CameraStands ==
    [][ /\ (\E e \in Scripts : Scrlw(e)) /\ camera.mode >= 4 => camera.at = camera.target
        /\ Frame /\ camera.mode = 0 /\ ~streams => camera'.at = Shown(Player, view') ]_vars

\* What waits for the camera or a fade goes on in the end, whatever other scripts
\* ask of them meanwhile.
ScriptsEnd == <>[](\A e \in Scripts : ~More(e))

\* When no script shakes the picture any more it comes to rest where the camera is.
ShakeRests == <>[](\A a \in Axes : ~shake[a].on) => <>[](plan.movies \/ picture[1] = camera.at)

\* No frame divides by the frames of an order that has none: what a frame takes a
\* step of was begun by an order since the steps were last reset, however scrolls,
\* offsets and shakes supersede one another, and whatever of them was under way
\* when a map was left.  (An order of no frames divides by zero; no plan gives one.)
StepsAreCounted ==
    LET c == FieldBGScrollInit(camera)
        Swings(s) == s.active \/ (~s.on /\ s.step # s.n)
    IN  /\ c.state = 1 /\ c.mode \in ToEntity \cup ToCoords => c.steps # 0
        /\ view.mode \in {1, 2} => view.n # 0
        /\ \A a \in Axes : Swings(shake[a]) => shake[a].n # 0
=============================================================================
