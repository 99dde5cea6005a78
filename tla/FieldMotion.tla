---------------------------- MODULE FieldMotion ----------------------------
(***************************************************************************)
(* How the event scripts of the field module move, turn and animate the    *)
(* models of their entities (src/src/field/field4.c), and what the engine  *)
(* does with those orders once a frame (src/src/field/field2.c).           *)
(*                                                                         *)
(* An order is a handshake between an opcode handler, which is polled once *)
(* a frame and writes the order into the model, and the engine, which      *)
(* carries it out a step at a time and reports back in the same fields.    *)
(* The model belongs to the entity, not to the script: a script that       *)
(* preempts another finds the order of the preempted one in it.            *)
(*                                                                         *)
(* Scripts are abstract here.  An entity has a stack of scripts, of which  *)
(* the first runs; every script is some sequence of the instructions of    *)
(* `words', chosen as it goes along.   FieldScript is the module about how  *)
(* the stack is kept.  A frame is: a turn for every entity, the animation  *)
(* state machine, the movement update.  The ground is a line of places.    *)
(***************************************************************************)
EXTENDS Integers, Sequences, FiniteSets

CONSTANTS
    LastBody,       \* entities 0 .. LastBody have a model each
    Far,            \* places 0 .. Far
    Yard,           \* bound: the places the player's pad leads to
    Stride,         \* MoveSpeed: how far a walk goes in one frame
    Reach,          \* the sum of two solid radii: where a MOVA stops
    Short,          \* the longest way that is multiplied before it is divided (0x7FFFF)
    Rung,           \* how much of a ladder is one step (4 units of 0x1000 in the game)
    FullTurn,       \* directions in a circle (256 in the game)
    StepLimit,      \* values of a TurnStep (256: it is a byte)
    MaxSteps,       \* bound: steps a turn, an offset or a jump may ask for
    AnimLast,       \* the last frame of every animation
    OpsPerTurn,     \* opcodes per entity and cycle (8 in the game)
    MaxDepth,       \* bound: scripts on a stack (8 levels in the game)
    MaxAsks,        \* bound: requests that preempt
    MayBlock,       \* entities that may meet an obstacle when they walk
    Maps            \* the maps: what the scripts of every entity are made of, and
                    \* whether the init scripts leave the player locked

Body   == 0 .. LastBody
Place  == 0 .. Far
Dir    == 0 .. FullTurn - 1
AnimId == DOMAIN AnimLast

NoMode == 0  Walking == 1  Jumping == 3  Ladders == {4, 5}  \* enum ScriptedMoveMode

IdleAnim == 0  WalkAnim == 1

TurnOps == {"TURN", "TURNR", "TURA"}
AnimOps == {"ANIME1", "ANIME2", "ANIM!1", "ANIM!2", "CANIM1", "CANIM2", "CANM!1", "CANM!2"}
AsyncOps == {"ANIME2", "ANIM!2", "CANIM2", "CANM!2"}
Op == {"MOVE", "FMOVE", "CMOVE", "MOVA", "JUMP", "LADER", "FCFIX", "XYZI", "TURNW", "DIR", "DIRA",
       "OFST", "OFSTW", "ANIMW", "ANIMB", "DFANM", "UC", "CC", "RET", "RETTO", "IDLE"}
      \cup TurnOps \cup AnimOps

\* One record for all instructions; each handler reads the operands it has.
\* IDLE stands for a handler that returns 1 and touches none of this state.
Instr == [op : Op, who : Body, at : Place, steps : 1 .. MaxSteps, to : Dir, way : 0 .. 3,
          kind : 0 .. 2, anim : AnimId, first : Nat, stop : Nat, div : Nat \ {0}, on : BOOLEAN]

ASSUME MotionSizes ==
    /\ LastBody \in Nat /\ Far \in Nat /\ Stride \in Nat \ {0} /\ Reach \in Nat
    /\ Yard \subseteq 0 .. Far /\ Short \in Nat /\ Rung \in Nat \ {0}
    /\ FullTurn \in Nat \ {0} /\ FullTurn % 2 = 0
    /\ MaxSteps \in Nat \ {0} /\ StepLimit \in Nat /\ StepLimit > MaxSteps
    /\ OpsPerTurn \in Nat \ {0} /\ MaxDepth \in Nat \ {0} /\ MaxAsks \in Nat
    /\ MayBlock \subseteq Body
ASSUME MotionAnims ==
    /\ AnimLast \in [AnimId -> Nat] /\ {IdleAnim, WalkAnim} \subseteq AnimId
\* A script can always go on: some instruction is no RET.
ASSUME MotionWords ==
    \A m \in Maps : /\ m.locked \in BOOLEAN
                    /\ m.words \in [Body -> SUBSET Instr]
                    /\ \A e \in Body : \E i \in m.words[e] : i.op # "RET"

VARIABLES
    words,      \* the instructions an entity's scripts are made of on this map
    stack,      \* the instruction each script of an entity stands on, the running one first
    pos,        \* PosX, PosY, PosZ, PosI
    dir,        \* Dir
    fix,        \* DirLock
    go,         \* scriptedMoveMode, ActionState, MoveEnd, ActionArg, MoveStart, MoveStep(s)
    turn,       \* TurnType, TurnStep, TurnSteps, TurnStart, TurnEnd
    ofs,        \* OfsType, OffsetStep, OffsetSteps
    anim,       \* D_800756E8, activeAnimId, animCurrentFrame, animLastFrame, D_8008325C
    pcModel,    \* FieldState.pcModelId; g_PlayerModelId is set to it before each use
    lock,       \* FieldState.characterLock # 0
    halted,     \* the processor stopped on a division by zero
    phase,      \* where the frame is: "scripts", "anims" or "moves"
    cur,        \* g_CurrentEntity
    ops,        \* opcodes left in this turn
    asks        \* requests made so far

body  == <<pos, dir, fix, go, turn, ofs, anim>>
clock == <<phase, cur, ops>>
vars  == <<words, stack, body, pcModel, lock, halted, clock, asks>>

Now(e)  == Head(stack[e])
I       == Now(cur)
Free(e) == e = pcModel /\ ~lock         \* under the player's control when no script moves it

Dist(p, q)  == IF p < q THEN q - p ELSE p - q
DirTo(p, q) == IF p < q THEN 0 ELSE FullTurn \div 2    \* FieldEntityDirByVec on a line
----------------------------------------------------------------------------
(***************************************************************************)
(* FieldEventStructInit, and the scripts at their first instructions.      *)
(***************************************************************************)
Standing == [mode |-> NoMode, act |-> 0, end |-> 0, arg |-> 0, from |-> 0, step |-> 0, steps |-> 0]
NoTurn   == [type |-> 0, step |-> 0, steps |-> 0, start |-> 0, end |-> 0]
NoOffset == [type |-> 0, step |-> 0, steps |-> 0]
NoAnim   == [state |-> 0, id |-> IdleAnim, frame |-> 0, last |-> 0, dflt |-> IdleAnim]

Init ==
    /\ \E m \in Maps : words = m.words /\ lock = m.locked
    /\ stack \in [Body -> {<<i>> : i \in UNION {words[e] : e \in Body}}]
    /\ \A e \in Body : Now(e) \in words[e] /\ Now(e).op # "RET"
    /\ pos = [e \in Body |-> e % (Far + 1)]
    /\ dir = [e \in Body |-> 0]
    /\ fix = [e \in Body |-> FALSE]
    /\ go = [e \in Body |-> Standing]
    /\ turn = [e \in Body |-> NoTurn]
    /\ ofs = [e \in Body |-> NoOffset]
    /\ anim = [e \in Body |-> NoAnim]
    /\ pcModel = 0
    /\ halted = FALSE
    /\ phase = "scripts" /\ cur = 0 /\ ops = OpsPerTurn
    /\ asks = 0

----------------------------------------------------------------------------
(***************************************************************************)
(* What a handler does with the turn and the program counter.              *)
(***************************************************************************)
EndTurn ==
    /\ cur' = IF cur = LastBody THEN 0 ELSE cur + 1
    /\ phase' = IF cur = LastBody THEN "anims" ELSE "scripts"
    /\ ops' = OpsPerTurn

\* Only a script that preempted another returns to it.
Follows(e) == {i \in words[e] : i.op = "RET" => Len(stack[e]) > 1}
StepPC == \E i \in Follows(cur) : stack' = [stack EXCEPT ![cur] = <<i>> \o Tail(@)]

UseOp == IF ops > 1 THEN ops' = ops - 1 /\ UNCHANGED <<cur, phase>> ELSE EndTurn

Poll == EndTurn /\ UNCHANGED stack          \* return 1
Done == UseOp /\ StepPC                     \* PC_INC, return 0
DoneEndTurn == EndTurn /\ StepPC            \* PC_INC, return 1

Running(op) == phase = "scripts" /\ ~halted /\ I.op \in op
Fixed == UNCHANGED <<words, halted, asks>>
----------------------------------------------------------------------------
(***************************************************************************)
(* Walks, jumps and ladders: an opcode that finds an order of its mode     *)
(* under way waits for it or ends with it, and otherwise gives the order.  *)
(***************************************************************************)
UnderWay(modes) == go[cur].mode \in modes /\ go[cur].act = 1
Arrived(modes)  == go[cur].mode \in modes /\ go[cur].act = 2
Ordered(modes)  == UnderWay(modes) \/ Arrived(modes)

PollWalk(order, actAfter) ==
    \/ /\ UnderWay({Walking})
       /\ go' = [go EXCEPT ![cur] = order]
       /\ Poll
    \/ /\ Arrived({Walking})
       /\ go' = [go EXCEPT ![cur] = [order EXCEPT !.mode = NoMode, !.act = actAfter]]
       /\ Done
    \/ /\ ~Ordered({Walking})
       /\ go' = [go EXCEPT ![cur] = [order EXCEPT !.mode = Walking, !.act = 0]]
       /\ Poll

WalkingAnim(a) == IF a.id = WalkAnim
                  THEN [a EXCEPT !.state = 1]
                  ELSE [a EXCEPT !.state = 1, !.id = WalkAnim, !.frame = 0, !.last = AnimLast[WalkAnim]]
OrderTo(p, range) == [go[cur] EXCEPT !.end = p, !.arg = range]

Move ==
    /\ Running({"MOVE"})
    /\ fix' = [fix EXCEPT ![cur] = FALSE]
    /\ PollWalk(OrderTo(I.at, 0), 0)
    /\ anim' = [anim EXCEPT ![cur] = LET w == WalkingAnim(@)
                                     IN IF Arrived({Walking}) THEN [w EXCEPT !.state = 0] ELSE w]
    /\ UNCHANGED <<pos, dir, turn, ofs, pcModel, lock>> /\ Fixed

Fmove ==
    /\ Running({"FMOVE"})
    /\ fix' = [fix EXCEPT ![cur] = FALSE]
    /\ PollWalk(OrderTo(I.at, 0), 0)
    /\ UNCHANGED <<pos, dir, turn, ofs, anim, pcModel, lock>> /\ Fixed

Cmove ==
    /\ Running({"CMOVE"})
    /\ fix' = [fix EXCEPT ![cur] = ~Arrived({Walking})]
    /\ PollWalk(OrderTo(I.at, 0), 0)
    /\ UNCHANGED <<pos, dir, turn, ofs, anim, pcModel, lock>> /\ Fixed

\* MOVA, PMOVA: the end follows the other entity, the order stays ActionState 2.
FieldMoveToEntityUpdate ==
    /\ Running({"MOVA"})
    /\ fix' = [fix EXCEPT ![cur] = FALSE]
    /\ PollWalk(OrderTo(pos[I.who], Reach), 2)
    /\ anim' = [anim EXCEPT ![cur] = CASE UnderWay({Walking}) -> WalkingAnim(@)
                                       [] Arrived({Walking})  -> [@ EXCEPT !.state = 0]
                                       [] OTHER               -> @]
    /\ UNCHANGED <<pos, dir, turn, ofs, pcModel, lock>> /\ Fixed

JumpKeepsAct ==
    /\ Running({"JUMP"})
    /\ \/ UnderWay({Jumping}) /\ UNCHANGED go /\ Poll
       \/ /\ Arrived({Jumping})
          /\ go' = [go EXCEPT ![cur].mode = NoMode]
          /\ Done
       \/ /\ ~Ordered({Jumping})
          /\ go' = [go EXCEPT ![cur].mode = Jumping, ![cur].end = I.at, ![cur].steps = I.steps]
          /\ Poll
    /\ UNCHANGED <<pos, dir, fix, turn, ofs, anim, pcModel, lock>> /\ Fixed
Jump ==
    /\ Running({"JUMP"})
    /\ \/ UnderWay({Jumping}) /\ UNCHANGED go /\ Poll
       \/ /\ Arrived({Jumping})
          /\ go' = [go EXCEPT ![cur].mode = NoMode, ![cur].act = 0]
          /\ Done
       \/ /\ ~Ordered({Jumping})
          /\ go' = [go EXCEPT ![cur].mode = Jumping, ![cur].act = 0,
                              ![cur].end = I.at, ![cur].steps = I.steps]
          /\ Poll
    /\ UNCHANGED <<pos, dir, fix, turn, ofs, anim, pcModel, lock>> /\ Fixed

Lader ==
    /\ Running({"LADER"})
    /\ \/ UnderWay(Ladders) /\ Poll /\ UNCHANGED <<go, dir, anim>>
       \/ /\ Arrived(Ladders)
          /\ go' = [go EXCEPT ![cur].mode = NoMode, ![cur].act = 0]
          /\ Done /\ UNCHANGED <<dir, anim>>
       \/ /\ ~Ordered(Ladders)
          /\ go' = [go EXCEPT ![cur].mode = 4 + I.way \div 2, ![cur].arg = I.way % 2,
                              ![cur].act = 0, ![cur].end = I.at]
          /\ dir' = [dir EXCEPT ![cur] = I.to]
          /\ anim' = [anim EXCEPT ![cur] = [@ EXCEPT !.state = 0, !.id = I.anim, !.frame = 0,
                                                     !.last = AnimLast[I.anim]]]
          /\ Poll
    /\ UNCHANGED <<pos, fix, turn, ofs, pcModel, lock>> /\ Fixed

Fcfix ==
    /\ Running({"FCFIX"})
    /\ fix' = [fix EXCEPT ![cur] = I.on]
    /\ Done
    /\ UNCHANGED <<pos, dir, go, turn, ofs, anim, pcModel, lock>> /\ Fixed

\* XYZI, XYZ, XYI
Xyzi ==
    /\ Running({"XYZI"})
    /\ pos' = [pos EXCEPT ![cur] = I.at]
    /\ DoneEndTurn
    /\ UNCHANGED <<dir, fix, go, turn, ofs, anim, pcModel, lock>> /\ Fixed
----------------------------------------------------------------------------
(***************************************************************************)
(* Turns                                                                   *)
(***************************************************************************)
\* The end of a turn from direction s to direction t: 0 clockwise, 1
\* anticlockwise, 2 the shorter way.
TurnEnd(s, t, way) ==
    CASE way = 2 /\ Dist(s, t) > FullTurn \div 2 -> IF t > s THEN t - FullTurn ELSE t + FullTurn
      [] way = 1 /\ s < t -> t - FullTurn
      [] way = 0 /\ t < s -> t + FullTurn
      [] OTHER -> t

\* A turn that is over is collected, whichever opcode asked for it; another one
\* goes on if it looks the same, and is replaced but keeps its TurnStep if not.
PollTurn(same, order) ==
    \/ /\ turn[cur].type = 3
       /\ turn' = [turn EXCEPT ![cur].type = 0, ![cur].step = 0, ![cur].steps = 0]
       /\ Done
    \/ /\ turn[cur].type # 3
       /\ turn' = IF turn[cur].step # 0 /\ same THEN turn ELSE [turn EXCEPT ![cur] = order]
       /\ Poll

OrderTurn(type, end) ==
    [turn[cur] EXCEPT !.type = type, !.steps = I.steps, !.start = dir[cur], !.end = end]
SameTurn(type) == turn[cur].type = type /\ turn[cur].steps = I.steps

Turn ==
    /\ Running({"TURN"})
    /\ PollTurn(SameTurn(I.kind) /\ turn[cur].end = I.to, OrderTurn(I.kind, I.to))
    /\ UNCHANGED <<pos, dir, fix, go, ofs, anim, pcModel, lock>> /\ Fixed

Turnr ==
    /\ Running({"TURNR"})
    /\ PollTurn(SameTurn(I.kind), OrderTurn(I.kind, TurnEnd(dir[cur], I.to, I.way)))
    /\ UNCHANGED <<pos, dir, fix, go, ofs, anim, pcModel, lock>> /\ Fixed

\* TURA, PTURA
FieldEntityTurnToEntity ==
    /\ Running({"TURA"})
    /\ PollTurn(SameTurn(2),
                OrderTurn(2, TurnEnd(dir[cur], DirTo(pos[cur], pos[I.who]), I.way)))
    /\ UNCHANGED <<pos, dir, fix, go, ofs, anim, pcModel, lock>> /\ Fixed

Turnw ==
    /\ Running({"TURNW"})
    /\ \/ turn[cur].type = 0 /\ Done /\ UNCHANGED turn
       \/ /\ turn[cur].type = 3
          /\ turn' = [turn EXCEPT ![cur].type = 0, ![cur].step = 0, ![cur].steps = 0]
          /\ Done
       \/ turn[cur].type \in {1, 2} /\ Poll /\ UNCHANGED turn
    /\ UNCHANGED <<pos, dir, fix, go, ofs, anim, pcModel, lock>> /\ Fixed

SnapTo(d) ==
    /\ dir' = [dir EXCEPT ![cur] = d]
    /\ turn' = [turn EXCEPT ![cur].type = 0, ![cur].step = 0]
    /\ DoneEndTurn
    /\ UNCHANGED <<pos, fix, go, ofs, anim, pcModel, lock>> /\ Fixed

SetDir == Running({"DIR"}) /\ SnapTo(I.to)

\* DIRA, PDIRA
FieldEventSetDirByActorId == Running({"DIRA"}) /\ SnapTo(DirTo(pos[cur], pos[I.who]))
----------------------------------------------------------------------------
(***************************************************************************)
(* Offsets: OFSTD, OFSTL, OFSTC never wait, OFSTW does                     *)
(***************************************************************************)
Ofstd ==
    /\ Running({"OFST"})
    /\ ofs' = [ofs EXCEPT ![cur] = [type |-> I.kind, step |-> 0, steps |-> I.steps]]
    /\ Done
    /\ UNCHANGED <<pos, dir, fix, go, turn, anim, pcModel, lock>> /\ Fixed

Ofstw ==
    /\ Running({"OFSTW"})
    /\ \/ ofs[cur].type \in {0, 3} /\ ofs' = [ofs EXCEPT ![cur] = NoOffset] /\ Done
       \/ ofs[cur].type \in {1, 2} /\ UNCHANGED ofs /\ Poll
    /\ UNCHANGED <<pos, dir, fix, go, turn, anim, pcModel, lock>> /\ Fixed
----------------------------------------------------------------------------
(***************************************************************************)
(* Animations.  State 0: default, 1: walk, 2: a script waits, 3: last      *)
(* frame held, 4: over and not collected, 5 and 6: nobody waits.           *)
(***************************************************************************)
PlayAnimation(first, last, collected, unattended) ==
    LET a == anim[cur]
        Start(s) == [a EXCEPT !.state = s, !.id = I.anim, !.frame = first, !.last = last]
    IN \/ /\ a.state \in {0, 1, 3} /\ I.op \in AsyncOps
          /\ anim' = [anim EXCEPT ![cur] = Start(unattended)]
          /\ Done
       \/ /\ a.state \in {0, 1, 3} /\ I.op \notin AsyncOps
          /\ anim' = [anim EXCEPT ![cur] = Start(2)]
          /\ Poll
       \/ /\ a.state = 4
          /\ anim' = [anim EXCEPT ![cur].state = collected]
          /\ Done
       \/ /\ a.state \in {2, 5, 6}
          /\ UNCHANGED anim
          /\ Poll

Clamped == LET stop == I.stop \div I.div IN
           IF AnimLast[I.anim] < stop THEN AnimLast[I.anim] ELSE stop

AnimFrame == UNCHANGED <<pos, dir, fix, go, turn, ofs, pcModel, lock>> /\ Fixed

Anime  == Running({"ANIME1", "ANIME2"}) /\ PlayAnimation(0, AnimLast[I.anim], 0, 5) /\ AnimFrame
AnimEx == Running({"ANIM!1", "ANIM!2"}) /\ PlayAnimation(0, AnimLast[I.anim], 3, 6) /\ AnimFrame
Canim  == Running({"CANIM1", "CANIM2"}) /\ PlayAnimation(I.first \div I.div, Clamped, 0, 5) /\ AnimFrame
CanmEx == Running({"CANM!1", "CANM!2"}) /\ PlayAnimation(I.first, Clamped, 3, 6) /\ AnimFrame

Animw ==
    /\ Running({"ANIMW"})
    /\ \/ anim[cur].state \in {2, 5, 6} /\ UNCHANGED anim /\ Poll
       \/ anim[cur].state = 4 /\ anim' = [anim EXCEPT ![cur].state = 0] /\ Done
       \/ anim[cur].state \in {0, 1, 3} /\ UNCHANGED anim /\ Done
    /\ AnimFrame

Animb ==
    /\ Running({"ANIMB"})
    /\ anim' = [anim EXCEPT ![cur].last = anim[cur].frame, ![cur].state = 3]
    /\ Done
    /\ AnimFrame

Dfanm ==
    /\ Running({"DFANM"})
    /\ anim' = [anim EXCEPT ![cur].dflt = I.anim,
                            ![cur].state = IF anim[cur].state = 3 THEN 0 ELSE anim[cur].state]
    /\ DoneEndTurn
    /\ AnimFrame
----------------------------------------------------------------------------
(***************************************************************************)
(* Who the player controls, and the scripts themselves                     *)
(***************************************************************************)
Uc ==
    /\ Running({"UC"})
    /\ lock' = I.on
    /\ anim' = IF I.on THEN anim ELSE [anim EXCEPT ![pcModel].state = 0]
    /\ Done
    /\ UNCHANGED <<pos, dir, fix, go, turn, ofs, pcModel>> /\ Fixed

Cc ==
    /\ Running({"CC"})
    /\ pcModel' = I.who
    /\ Done
    /\ UNCHANGED <<body, lock>> /\ Fixed

Idle == Running({"IDLE"}) /\ Poll /\ UNCHANGED <<body, pcModel, lock>> /\ Fixed

Ret ==
    /\ Running({"RET"})
    /\ stack' = [stack EXCEPT ![cur] = Tail(@)]
    /\ UseOp
    /\ UNCHANGED <<body, pcModel, lock>> /\ Fixed

\* RETTO: the scripts down to a level are dropped and another one runs on it.
Retto ==
    /\ Running({"RETTO"})
    /\ \E i \in words[cur], n \in 0 .. Len(stack[cur]) - 1 :
         LET rest == SubSeq(stack[cur], n + 2, Len(stack[cur])) IN
         /\ i.op = "RET" => rest # << >>
         /\ stack' = [stack EXCEPT ![cur] = <<i>> \o rest]
    /\ UseOp
    /\ UNCHANGED <<body, pcModel, lock>> /\ Fixed

\* FieldEventRequest, FieldEventRequestRun: a request of another entity, or of
\* a trigger, puts a script on top.  Of the orders only the walk, jump or climb
\* is called off; the position, a turn, an offset and an animation stay.
RequestKeepsMove(e) ==
    /\ phase = "scripts" /\ ~halted
    /\ e = cur => ops = OpsPerTurn
    /\ asks < MaxAsks /\ asks' = asks + 1
    /\ Len(stack[e]) < MaxDepth
    /\ \E i \in words[e] : stack' = [stack EXCEPT ![e] = <<i>> \o @]
    /\ UNCHANGED <<words, body, pcModel, lock, halted, clock>>
Request(e) ==
    /\ phase = "scripts" /\ ~halted
    /\ e = cur => ops = OpsPerTurn
    /\ asks < MaxAsks /\ asks' = asks + 1
    /\ Len(stack[e]) < MaxDepth
    /\ \E i \in words[e] : stack' = [stack EXCEPT ![e] = <<i>> \o @]
    /\ go' = [go EXCEPT ![e].mode = NoMode]
    /\ anim' = IF go[e].mode = Walking
               THEN [anim EXCEPT ![e] = [@ EXCEPT !.id = 0, !.frame = 0, !.last = 0]]
               ELSE anim
    /\ UNCHANGED <<words, pos, dir, fix, turn, ofs, pcModel, lock, halted, clock>>
----------------------------------------------------------------------------
(***************************************************************************)
(* The engine: FieldUpdateAnimationState at the end of the script cycle    *)
(***************************************************************************)
NextAnim(a) ==
    LET over == a.frame >= a.last IN
    CASE a.state = 0 /\ a.id # a.dflt -> [a EXCEPT !.id = a.dflt, !.frame = 0, !.last = AnimLast[a.dflt]]
      [] a.state = 0 /\ a.id = a.dflt -> [a EXCEPT !.last = AnimLast[a.id],
                                                   !.frame = IF a.frame >= AnimLast[a.id] THEN 0 ELSE @]
      [] a.state = 1 /\ over -> [a EXCEPT !.frame = 0]
      [] a.state = 2 /\ over -> [a EXCEPT !.state = 4, !.frame = a.last]
      [] a.state \in {3, 4}  -> [a EXCEPT !.frame = a.last]
      [] a.state = 5 /\ over -> [a EXCEPT !.state = 0]
      [] a.state = 6 /\ over -> [a EXCEPT !.state = 3]
      [] OTHER -> a

FieldUpdateAnimationState ==
    /\ phase = "anims" /\ ~halted
    /\ anim' = [e \in Body |-> IF Free(e) THEN anim[e] ELSE NextAnim(anim[e])]
    /\ phase' = "moves"
    /\ UNCHANGED <<pos, dir, fix, go, turn, ofs, stack, pcModel, lock, cur, ops>> /\ Fixed
----------------------------------------------------------------------------
(***************************************************************************)
(* FieldEntityMovementUpdate                                               *)
(***************************************************************************)
\* FieldCalcLinearStep; a C division truncates towards zero.  A way so long
\* that its product with the step might overflow is divided first, and then
\* its last step leaves out the remainder.
Exact(from, to, n, s) == IF from <= to THEN from + ((to - from) * s) \div n
                                       ELSE from - ((from - to) * s) \div n
Linear(from, to, n, s) == CASE Dist(from, to) <= Short -> Exact(from, to, n, s)
                            [] Dist(from, to) > Short /\ from <= to -> from + ((to - from) \div n) * s
                            [] Dist(from, to) > Short /\ from > to -> from - ((from - to) \div n) * s
\* FieldCalcEaseInOut: a cosine of period 2n from one end to the other and
\* back; a triangle of the same period here.
EaseInOut(from, to, n, s) == LET r == s % (2 * n)
                             IN Exact(from, to, n, IF r <= n THEN r ELSE 2 * n - r)

TurnedSticks(t) == CASE t.type \in {1, 2} /\ t.step = t.steps -> [t EXCEPT !.type = 3]
                     [] t.type \in {1, 2} /\ t.step < t.steps -> [t EXCEPT !.step = @ + 1]
                     [] OTHER -> t
Turned(t) == CASE t.type \in {1, 2} /\ t.step = t.steps -> [t EXCEPT !.type = 3]
               [] t.type \in {1, 2} /\ t.step # t.steps -> [t EXCEPT !.step = (@ + 1) % StepLimit]
               [] OTHER -> t
\* The way of a turn is at most two circles, 512, which is short.
TurnedDir(e) == LET t == turn[e] IN
    CASE t.type = 1 -> Exact(t.start, t.end, t.steps, t.step) % FullTurn
      [] t.type = 2 -> EaseInOut(t.start, t.end, t.steps, t.step) % FullTurn
      [] OTHER -> dir[e]

Offset(o) == CASE o.type \in {1, 2} /\ o.step = o.steps -> [o EXCEPT !.type = 3]
               [] o.type \in {1, 2} /\ o.step # o.steps -> [o EXCEPT !.step = @ + 1]
               [] OTHER -> o

\* FieldEntityAnimationUpdate: a free player's animation starts over, any
\* other stops on its last frame.
AnimStep(e, a) ==
    LET f == a.frame + 1 IN
    IF Free(e) THEN [a EXCEPT !.last = AnimLast[a.id], !.frame = IF AnimLast[a.id] < f THEN 0 ELSE f]
               ELSE [a EXCEPT !.frame = IF a.last < f THEN a.last ELSE f]

\* What the outside decides in a frame: how far the player's pad and obstacles
\* take the models, how they then face, and the ladder keys.
Pace == -Stride .. Stride
Outside == [stick : Pace, slide : [MayBlock -> Pace], face : Dir, key : {"none", "back", "forth"}]
Possible(x) == /\ pos[pcModel] + x.stick \in Yard \/ x.stick = 0
               /\ \A e \in MayBlock : pos[e] + x.slide[e] \in Place

\* Mode 0: nothing, or FieldEntityMove for the player.
Controlled(e, d, x) ==
    IF Free(e)
    THEN [pos |-> pos[e] + x.stick, go |-> go[e],
          dir |-> IF fix[e] THEN d ELSE x.face,
          anim |-> AnimStep(e, [anim[e] EXCEPT !.id = IF x.stick = 0 THEN IdleAnim ELSE WalkAnim])]
    ELSE [pos |-> pos[e], go |-> go[e], dir |-> d, anim |-> AnimStep(e, anim[e])]

\* Mode 1: FieldEntityAutoMove, then FieldEntityMove.
Walked(e, d, x) ==
    LET g == go[e]
        there == Dist(pos[e], g.end) < Stride
        close == g.arg # 0 /\ Dist(pos[e], g.end) <= Reach
        ahead == IF pos[e] < g.end THEN pos[e] + Stride ELSE pos[e] - Stride
    IN IF there \/ close
       THEN [pos |-> IF close THEN pos[e] ELSE g.end, go |-> [g EXCEPT !.act = 2],
             dir |-> d, anim |-> AnimStep(e, anim[e])]
       ELSE [pos |-> IF e \in MayBlock THEN pos[e] + x.slide[e] ELSE ahead, go |-> [g EXCEPT !.act = 1],
             dir |-> CASE fix[e] -> d [] ~fix[e] /\ e \in MayBlock -> x.face
                       [] OTHER -> DirTo(pos[e], g.end),
             anim |-> AnimStep(e, anim[e])]

\* Mode 3
Jumped(e, d) ==
    LET g == go[e] IN
    [dir |-> d, anim |-> AnimStep(e, anim[e]),
     pos |-> IF g.act # 0 /\ g.step # g.steps THEN Linear(g.from, g.end, g.steps, g.step + 1) ELSE pos[e],
     go |-> CASE g.act = 0 -> [g EXCEPT !.act = 1, !.from = pos[e], !.step = 0]
              [] g.act # 0 /\ g.step = g.steps -> [g EXCEPT !.act = 2]
              [] OTHER -> [g EXCEPT !.step = @ + 1]]

\* Modes 4 and 5: a free player climbs with the keys, anyone else goes forth.
Climbed(e, d, x) ==
    LET g == go[e]
        a == anim[e]
        key == IF Free(e) THEN x.key ELSE "forth"
        moved == CASE key = "back" /\ g.step = 0 -> [g EXCEPT !.act = 2]
                   [] key = "back" /\ g.step # 0 -> [g EXCEPT !.step = @ - 1]
                   [] key = "forth" /\ g.step = g.steps -> [g EXCEPT !.act = 2]
                   [] key = "forth" /\ g.step # g.steps -> [g EXCEPT !.step = @ + 1]
                   [] OTHER -> g
        frame == CASE moved.step > g.step -> IF a.last < a.frame + 1 THEN 0 ELSE a.frame + 1
                   [] moved.step < g.step -> IF a.frame = 0 THEN a.last ELSE a.frame - 1
                   [] OTHER -> a.frame
    IN IF g.act = 0
       THEN [pos |-> pos[e], dir |-> d, anim |-> [a EXCEPT !.last = AnimLast[a.id]],
             go |-> [g EXCEPT !.act = 1, !.from = pos[e], !.step = 0, !.steps = Dist(pos[e], g.end) \div Rung]]
       ELSE [pos |-> Linear(g.from, g.end, g.steps, moved.step), dir |-> d,
             anim |-> [a EXCEPT !.frame = frame], go |-> moved]

After(e, x) ==
    CASE go[e].mode = NoMode  -> Controlled(e, TurnedDir(e), x)
      [] go[e].mode = Walking -> Walked(e, TurnedDir(e), x)
      [] go[e].mode = Jumping -> Jumped(e, TurnedDir(e))
      [] OTHER                -> Climbed(e, TurnedDir(e), x)

\* A climb of less than a rung has no steps to divide by.
DividesByZero == \E e \in Body : go[e].mode \in Ladders /\ go[e].act # 0 /\ go[e].steps = 0

FieldEntityMovementUpdate ==
    /\ phase = "moves" /\ ~halted /\ ~DividesByZero
    /\ turn' = [e \in Body |-> Turned(turn[e])]
    /\ ofs' = [e \in Body |-> Offset(ofs[e])]
    /\ \E x \in Outside :
         /\ Possible(x)
         /\ pos' = [e \in Body |-> After(e, x).pos]
         /\ dir' = [e \in Body |-> After(e, x).dir]
         /\ go' = [e \in Body |-> After(e, x).go]
         /\ anim' = [e \in Body |-> After(e, x).anim]
    /\ phase' = "scripts"
    /\ UNCHANGED <<fix, stack, pcModel, lock, cur, ops>> /\ Fixed

Halt ==
    /\ phase = "moves" /\ ~halted /\ DividesByZero
    /\ halted' = TRUE
    /\ UNCHANGED <<words, stack, body, pcModel, lock, clock, asks>>

Stopped == halted /\ UNCHANGED vars
----------------------------------------------------------------------------
Handler == \/ Move \/ Fmove \/ Cmove \/ FieldMoveToEntityUpdate \/ Jump \/ Lader \/ Fcfix \/ Xyzi
           \/ Turn \/ Turnr \/ FieldEntityTurnToEntity \/ Turnw \/ SetDir \/ FieldEventSetDirByActorId
           \/ Ofstd \/ Ofstw \/ Anime \/ AnimEx \/ Canim \/ CanmEx \/ Animw \/ Animb \/ Dfanm
           \/ Uc \/ Cc \/ Idle \/ Ret \/ Retto
Engine == FieldUpdateAnimationState \/ FieldEntityMovementUpdate \/ Halt \/ Stopped
Next == Handler \/ Engine \/ \E e \in Body : Request(e)

Spec == Init /\ [][Next]_vars

\* FieldMainLoop runs a frame after the other, and no handler loops.
FairSpec == Spec /\ WF_vars(Next)
----------------------------------------------------------------------------
(***************************************************************************)
(* What must hold                                                          *)
(***************************************************************************)
Going == [mode : {NoMode, Walking, Jumping} \cup Ladders, act : 0 .. 2, end : Place, arg : {0, 1, Reach},
          from : Place, step : Nat, steps : Nat]
Turning == [type : 0 .. 3, step : 0 .. StepLimit - 1, steps : 0 .. MaxSteps,
            start : Dir, end : -FullTurn .. 2 * FullTurn]
Offsetting == [type : 0 .. 3, step : 0 .. MaxSteps, steps : 0 .. MaxSteps]
Animating == [state : 0 .. 6, id : AnimId, frame : Nat, last : Nat, dflt : AnimId]

TypeOK ==
    /\ \E m \in Maps : words = m.words
    /\ stack \in [Body -> Seq(Instr)]
    /\ \A e \in Body : stack[e] # << >> /\ Now(e) \in words[e]
    /\ pos \in [Body -> Place]
    /\ dir \in [Body -> Dir]
    /\ fix \in [Body -> BOOLEAN]
    /\ go \in [Body -> Going]
    /\ turn \in [Body -> Turning]
    /\ ofs \in [Body -> Offsetting]
    /\ anim \in [Body -> Animating]
    /\ pcModel \in Body
    /\ lock \in BOOLEAN
    /\ halted \in BOOLEAN
    /\ phase \in {"scripts", "anims", "moves"}
    /\ cur \in Body
    /\ ops \in 1 .. OpsPerTurn
    /\ asks \in 0 .. MaxAsks

\* A model is walked, jumped or carried along a ladder only while the running
\* script of its entity stands on the opcode that asked for it: the scripts
\* that preempt it, return or drop others leave no movement behind.
Asks(i, m) == \/ m = Walking /\ i.op \in {"MOVE", "FMOVE", "CMOVE", "MOVA"}
              \/ m = Jumping /\ i.op = "JUMP"
              \/ m \in Ladders /\ i.op = "LADER" /\ m = 4 + i.way \div 2
MoveOwned == \A e \in Body : go[e].mode # NoMode => Asks(Now(e), go[e].mode)

\* A walk, a jump or a climb that reports its end has brought the model where
\* the opcode about to collect it wants it, a climb there or back; never where
\* an opcode of a script that has been preempted or has returned wanted it.  A
\* long jump or climb is let fall short of the place, by less than its steps.
Reached(p, from, at, n) == IF Dist(from, at) <= Short THEN p = at ELSE Dist(p, at) < n
EndsWhereAsked ==
    \A e \in Body : go[e].mode # NoMode /\ go[e].act = 2 =>
        CASE go[e].mode = Walking /\ Now(e).op = "MOVA" -> Dist(pos[e], go[e].end) <= Reach
          [] go[e].mode = Walking /\ Now(e).op # "MOVA" -> pos[e] = Now(e).at
          [] go[e].mode = Jumping -> Reached(pos[e], go[e].from, Now(e).at, go[e].steps)
          [] OTHER -> \/ pos[e] = go[e].from
                       \/ Reached(pos[e], go[e].from, Now(e).at, go[e].steps)

\* The step counter of an offset, of a jump and of a climb that is under way
\* never passes the number of steps it is compared with for equality.
StepsInside ==
    \A e \in Body :
        /\ ofs[e].type \in {1, 2} => ofs[e].step <= ofs[e].steps /\ ofs[e].steps > 0
        /\ go[e].mode \in {Jumping} \cup Ladders /\ go[e].act # 0 => go[e].step <= go[e].steps

FacingHeld(e) ==
    go[e].mode = Walking /\ Now(e).op = "CMOVE" /\ go'[e].mode = Walking /\ turn[e].type \notin {1, 2} =>
        dir'[e] = dir[e]
\* A script that walks its model with CMOVE does not turn it, however the
\* scripts that preempted it have used DirLock, unless a turn is under way.
CmoveHoldsFacing == [][\A e \in Body : FacingHeld(e)]_vars

\* Every order comes to its end: a turn even when a script that preempts asks
\* for one of fewer steps than are behind it and the byte has to wrap; an offset
\* unless another is ordered; an animation unless the player gets control of the
\* model, whose own animations are then played on it; a walk that nothing
\* obstructs to a place that stays; a jump; a climb the player has no hand in.
TurnUnderWay(e)   == turn[e].type \in {1, 2} /\ ~halted
OffsetUnderWay(e) == ofs[e].type \in {1, 2} /\ ~halted
AnimUnderWay(e)   == anim[e].state \in {2, 5, 6} /\ ~halted
WalkUnderWay(e)   == e \notin MayBlock /\ go[e].mode = Walking /\ Now(e).op # "MOVA" /\ ~halted
JumpUnderWay(e)   == go[e].mode = Jumping /\ ~halted
ClimbUnderWay(e)  == go[e].mode \in Ladders /\ ~halted
OrdersEnd ==
    \A e \in Body :
        /\ TurnUnderWay(e)   ~> ~TurnUnderWay(e)
        /\ OffsetUnderWay(e) ~> ~OffsetUnderWay(e) \/ (cur = e /\ Running({"OFST"}))
        /\ AnimUnderWay(e)   ~> ~AnimUnderWay(e) \/ Free(e)
        /\ WalkUnderWay(e)   ~> ~WalkUnderWay(e)
        /\ JumpUnderWay(e)   ~> ~JumpUnderWay(e)
        /\ ClimbUnderWay(e)  ~> ~ClimbUnderWay(e) \/ Free(e)

=============================================================================
