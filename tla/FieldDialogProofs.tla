------------------------- MODULE FieldDialogProofs -------------------------
(***************************************************************************)
(* Proofs about FieldDialog: types, the owner of every open window, and    *)
(* what an open window keeps, for any number of entities, windows and      *)
(* messages and whatever the scripts do.                                   *)
(***************************************************************************)
EXTENDS FieldDialog, FiniteSetTheorems, TLAPS

\* A window that is opening has not reached its full size.
Opening == \A w \in Window : state[w] = "SHOW" => size[w] \in 1 .. 3
TypeInv == TypeOK /\ Opening

\* The variables an update of one window may change.
WinType ==
    /\ state \in [Window -> State]
    /\ owner \in [Window -> Entity \cup {NoEntity}]
    /\ count \in 0 .. CountSize - 1
    /\ msg \in [Window -> Message]
    /\ pos \in [Window -> Nat]
    /\ row \in [Window -> Int]
    /\ size \in [Window -> 0 .. 4]
    /\ scroll \in [Window -> 0 .. ScrollSteps]
    /\ fast \in [Window -> 1 .. FastStep]
    /\ pause \in [Window -> 0 .. PauseTime]
    /\ Opening

\* The rows above a place in the text are counted in integers.
LEMMA RowTyped ==
    ASSUME TypeOK, NEW w \in Window, NEW q \in Nat
    PROVE  RowAt(w, q) \in Int
<1> DEFINE S == {i \in pos[w] .. q - 1 : At(w, i) = "ROW"}
<1>1. pos[w] \in Int /\ q - 1 \in Int
  BY DEF TypeOK
<1>2. IsFiniteSet(pos[w] .. q - 1)
  BY <1>1, FS_Interval
<1>3. IsFiniteSet(S)
  BY <1>2, FS_Subset
<1>4. Cardinality(S) \in Nat
  BY <1>3, FS_CardinalityType
<1> QED BY <1>4 DEF RowAt, TypeOK

LEMMA EndTyped ==
    ASSUME TypeOK, NEW w \in Window
    PROVE  End(w) \in Nat
<1>1. msg[w] \in Message /\ Text[msg[w]] \in Seq(Code)
  BY DialogAssumption DEF TypeOK
<1> QED BY <1>1 DEF End

LEMMA CountTyped ==
    ASSUME NEW c \in Int
    PROVE  c % CountSize \in 0 .. CountSize - 1
<1>1. CountSize \in Nat \ {0}
  BY DialogAssumption
<1> QED BY <1>1

\* Every way a poll can move a window keeps the types.
LEMMA UpdateTyped ==
    ASSUME TypeInv, NEW w \in Window, NEW m \in Message, NEW s \in State, NEW r,
           s = "SHOW" => state[w] = "SHOW",
           UpdateStates(w, m, s, r)
    PROVE  WinType'
<1> USE DEF Goes, Idles
<1>0. /\ WinType /\ cur \in Entity
      /\ ScrollSteps \in Nat \ {0} /\ FastStep \in Nat \ {0} /\ PauseTime \in Nat
  BY DialogAssumption DEF TypeInv, TypeOK, WinType
<1>1. CASE Open(w, m, s)
  <2>1. count' \in 0 .. CountSize - 1
    BY <1>0, <1>1, CountTyped DEF Open, WinType
  <2> QED BY <1>0, <1>1, <2>1 DEF Open, WinType, State, Opening
<1>2. CASE Grow(w, s)
  <2>1. size[w] \in 1 .. 3
    BY <1>2 DEF Grow, TypeInv, Opening
  <2>2. /\ size[w] + 1 \in 0 .. 4
        /\ size[w] # 3 => size[w] + 1 \in 1 .. 3
    BY <2>1
  <2>3. state' \in [Window -> State] /\ size' \in [Window -> 0 .. 4]
    BY <1>0, <1>2, <2>2 DEF Grow, WinType, State
  <2>4. Opening'
    BY <1>0, <1>2, <2>2 DEF Grow, WinType, Opening
  <2> QED BY <1>0, <1>2, <2>3, <2>4 DEF Grow, WinType, textVars
<1>3. CASE WriteSome(w, s)
  <2>1. \A q \in pos[w] .. End(w) : q \in Nat /\ RowAt(w, q) \in Int
    BY <1>0, EndTyped, RowTyped DEF TypeInv, WinType
  <2> QED BY <1>0, <1>3, <2>1 DEF WriteSome, WriteRest, WinType, State, Opening
<1>4. CASE WriteStop(w, s)
  <2>1. \A q \in pos[w] .. End(w) : /\ q \in Nat /\ RowAt(w, q) \in Int
                                    /\ After(w, q) \in Nat
                                    /\ StopState(w, q) \in State \ {"SHOW"}
    BY <1>0, EndTyped, RowTyped DEF TypeInv, WinType, After, StopState, State
  <2> QED BY <1>0, <1>4, <2>1 DEF WriteStop, WriteRest, WinType, Opening
<1>5. CASE ScrollRow(w, s) \/ WaitRow(w, s)
  BY <1>0, <1>5 DEF ScrollRow, WaitRow, WinType, State, Opening
<1>6. CASE ScrollWhileOk(w, s) \/ ScrollPause(w, s)
  BY <1>0, <1>6 DEF ScrollWhileOk, ScrollPause, WinType, State, Opening
<1>7. CASE PauseOk(w, s) \/ PauseTxt(w, s) \/ InitNext(w, s)
  BY <1>0, <1>7 DEF PauseOk, PauseTxt, InitNext, WinType, State, Opening, textVars
<1>8. CASE Shrink(w)
  BY <1>0, <1>8 DEF Shrink, WinType, State, Opening, textVars
<1>9. CASE Release(w)
  <2>1. count' \in 0 .. CountSize - 1
    BY <1>0, <1>9, CountTyped DEF Release, WinType
  <2> QED BY <1>0, <1>9, <2>1 DEF Release, WinType, State, Opening, textVars
<1>10. CASE \E t \in State : Idles(w, t) /\ (t = "SHOW" => state[w] = "SHOW")
  BY <1>0, <1>10 DEF WinType, Opening, textVars
<1> QED BY <1>1, <1>2, <1>3, <1>4, <1>5, <1>6, <1>7, <1>8, <1>9, <1>10
        DEF UpdateStates, Dismiss, State

\* The running opcode is one a script can stand on.
LEMMA HeadTyped ==
    ASSUME TypeInv, NEW ks, Polling(ks)
    PROVE  /\ Head1 \in Op /\ Head1.w \in Window /\ Head1.m \in Message
           /\ Head1.n \in Nat
           /\ Tail(task[cur]) \in Seq(Op)
<1>1. task[cur] \in Seq(Op) /\ task[cur] # <<>>
  BY DEF TypeInv, TypeOK, Polling
<1>2. Len(task[cur]) \in Nat \ {0} /\ Tail(task[cur]) \in Seq(Op)
  BY <1>1
<1>3. task[cur][1] \in Op
  BY <1>1, <1>2
<1> QED BY <1>2, <1>3 DEF Head1, Op

\* The turn stays with the same entity or goes to the next one.
LEMMA TurnTyped ==
    ASSUME TypeInv, TurnEnds \/ UNCHANGED turnVars
    PROVE  cur' \in Entity /\ phase' \in {"frame", "cycle"}
<1>1. PICK n \in Nat \ {0} : n = NumEntities
  BY DialogAssumption
<1>2. cur \in 0 .. n - 1 /\ phase \in {"frame", "cycle"}
  BY <1>1 DEF TypeInv, TypeOK, Entity
<1>3. (cur + 1) % n \in 0 .. n - 1
  BY <1>1, <1>2
<1> QED BY <1>1, <1>2, <1>3 DEF TurnEnds, turnVars, Entity

LEMMA PopTyped ==
    ASSUME TypeInv, NEW ks, Polling(ks),
           task' = [task EXCEPT ![cur] = Tail(@)] \/ task' = task
    PROVE  task' \in [Entity -> Seq(Op)]
BY HeadTyped DEF TypeInv, TypeOK
\* What every opcode leaves alone or keeps in type besides the window's variables.
RestType ==
    /\ plan \in Plan
    /\ rows \in [Window -> Nat] /\ stay \in [Window -> BOOLEAN]
    /\ task \in [Entity -> Seq(Op)]
    /\ ok \in {"up", "edge", "held"} /\ refresh \in BOOLEAN
    /\ talks \in 0 .. MaxTalks
    /\ phase \in {"frame", "cycle"} /\ cur \in Entity

LEMMA TypeParts == TypeInv <=> WinType /\ RestType
BY DEF TypeInv, TypeOK, WinType, RestType

LEMMA ResetTyped ==
    ASSUME TypeInv, ResetAll
    PROVE  WinType'
<1>1. 0 \in 0 .. CountSize - 1 /\ 0 \in 0 .. PauseTime
  BY DialogAssumption
<1>2. WinType
  BY TypeParts
<1> QED BY <1>1, <1>2 DEF ResetAll, WinType, Opening, State

LEMMA KeptTyped ==
    ASSUME TypeInv, UNCHANGED winVars
    PROVE  WinType'
<1>1. WinType
  BY TypeParts
<1> QED BY <1>1 DEF WinType, winVars, textVars, Opening

LEMMA InitTyped == Init => TypeInv
<1> SUFFICES ASSUME Init PROVE TypeInv
  OBVIOUS
<1>1. /\ 0 \in 0 .. CountSize - 1 /\ 0 \in 0 .. PauseTime /\ 0 \in 0 .. ScrollSteps
      /\ 1 \in 1 .. FastStep /\ MaxTalks \in 0 .. MaxTalks /\ 0 \in 0 .. 4
      /\ Rows \in Nat /\ 0 \in Entity
  BY DialogAssumption DEF Entity
<1>2. Message # {} => (CHOOSE m \in Message : TRUE) \in Message
  OBVIOUS
<1>3. Message # {}
  BY DialogAssumption
<1>4. <<>> \in Seq(Op)
  OBVIOUS
<1> QED BY <1>1, <1>2, <1>3, <1>4 DEF Init, TypeInv, TypeOK, Opening, State

\* The poll of the running opcode, with the window's state as it is or set to
\* CLOSING first.
LEMMA PollTyped ==
    ASSUME TypeInv, NEW ks, Polling(ks), NEW s, NEW r,
           s = state[Head1.w] \/ s = ToClose(state[Head1.w]),
           UpdateStates(Head1.w, Head1.m, s, r)
    PROVE  WinType'
<1>1. Head1.w \in Window /\ Head1.m \in Message
  BY HeadTyped
<1>2. s \in State /\ (s = "SHOW" => state[Head1.w] = "SHOW")
  BY <1>1 DEF ToClose, State, TypeInv, TypeOK
<1> QED BY <1>1, <1>2, UpdateTyped

LEMMA CycleTyped ==
    ASSUME TypeInv, Cycle
    PROVE  TypeInv'
<1> USE DEF OpEnds, PollAgain, Rest, formVars
<1>0. WinType /\ RestType
  BY TypeParts
<1>1. CASE MesOn \/ MesEnd
  <2>1. PICK r \in BOOLEAN : Mes(r)
    BY <1>1 DEF MesOn, MesEnd
  <2>2. WinType'
    BY <2>1, PollTyped DEF Mes
  <2>3. task' \in [Entity -> Seq(Op)] /\ cur' \in Entity /\ phase' \in {"frame", "cycle"}
    BY <2>1, PopTyped, TurnTyped DEF Mes
  <2> QED BY <1>0, <2>1, <2>2, <2>3, TypeParts DEF Mes, RestType, TypeInv, TypeOK, WinType
<1>2. CASE WclsOn \/ WsizwOn
  <2>1. PICK r \in BOOLEAN :
          UpdateStates(Head1.w, Head1.m, ToClose(state[Head1.w]), r)
    BY <1>2 DEF WclsOn, WsizwOn, CloseAndPoll
  <2>2. WinType'
    BY <1>2, <2>1, PollTyped DEF WclsOn, WsizwOn
  <2>3. cur' \in Entity /\ phase' \in {"frame", "cycle"}
    BY <1>2, TurnTyped DEF WclsOn, WsizwOn, CloseAndPoll
  <2> QED BY <1>0, <1>2, <2>2, <2>3
          DEF WclsOn, WsizwOn, CloseAndPoll, RestType, TypeInv, TypeOK, WinType
<1>3. CASE WclsEnd \/ WclseWait \/ WsizwWait
  <2>1. WinType'
    BY <1>3, KeptTyped DEF WclsEnd, WclseWait, WsizwWait
  <2>2. task' \in [Entity -> Seq(Op)] /\ cur' \in Entity /\ phase' \in {"frame", "cycle"}
    BY <1>3, PopTyped, TurnTyped DEF WclsEnd, WclseWait, WsizwWait
  <2> QED BY <1>0, <1>3, <2>1, <2>2
          DEF WclsEnd, WclseWait, WsizwWait, RestType, TypeInv, TypeOK, WinType
<1>4. CASE WclseEnd
  <2>1. Head1.w \in Window /\ ToClose(state[Head1.w]) \in State \ {"SHOW"}
    BY <1>4, HeadTyped DEF WclseEnd, ToClose, State, TypeInv, TypeOK
  <2>2. WinType'
    BY <1>0, <1>4, <2>1 DEF WclseEnd, Idles, Goes, WinType, Opening, textVars
  <2>3. task' \in [Entity -> Seq(Op)] /\ cur' \in Entity /\ phase' \in {"frame", "cycle"}
    BY <1>4, PopTyped, TurnTyped DEF WclseEnd
  <2> QED BY <1>0, <1>4, <2>2, <2>3 DEF WclseEnd, RestType, TypeInv, TypeOK, WinType
<1>5. CASE WsizwEnd \/ Wrow \/ Wmode
  <2>1. WinType'
    BY <1>5, KeptTyped DEF WsizwEnd, Wrow, Wmode
  <2>2. task' \in [Entity -> Seq(Op)] /\ cur' \in Entity /\ phase' \in {"frame", "cycle"}
    BY <1>5, PopTyped, TurnTyped DEF WsizwEnd, Wrow, Wmode
  <2>3. Head1.w \in Window /\ Head1.n \in Nat
    BY <1>5, HeadTyped DEF WsizwEnd, Wrow, Wmode
  <2>4. rows' \in [Window -> Nat] /\ stay' \in [Window -> BOOLEAN]
    BY <1>0, <1>5, <2>3 DEF WsizwEnd, Wrow, Wmode, RestType
  <2> QED BY <1>0, <1>5, <2>1, <2>2, <2>4
          DEF WsizwEnd, Wrow, Wmode, RestType, TypeInv, TypeOK, WinType
<1>6. CASE Wrest
  <2>1. Head1.w \in Window /\ 0 \in 0 .. PauseTime /\ Rows \in Nat
    BY <1>6, HeadTyped, DialogAssumption DEF Wrest
  <2>2. WinType' /\ rows' \in [Window -> Nat] /\ stay' \in [Window -> BOOLEAN]
    BY <1>0, <1>6, <2>1 DEF Wrest, Goes, WinType, RestType, Opening, State
  <2>3. task' \in [Entity -> Seq(Op)] /\ cur' \in Entity /\ phase' \in {"frame", "cycle"}
    BY <1>6, PopTyped, TurnTyped DEF Wrest
  <2> QED BY <1>0, <1>6, <2>2, <2>3 DEF Wrest, RestType, TypeInv, TypeOK, WinType
<1>7. CASE Batle \/ Menu
  <2>1. WinType'
    BY <1>7, KeptTyped, ResetTyped DEF Batle, Menu
  <2>2. task' \in [Entity -> Seq(Op)] /\ cur' \in Entity /\ phase' \in {"frame", "cycle"}
    BY <1>7, PopTyped, TurnTyped DEF Batle, Menu
  <2> QED BY <1>0, <1>7, <2>1, <2>2 DEF Batle, Menu, RestType, TypeInv, TypeOK, WinType
<1>8. CASE Idle \/ Begin
  <2>1. WinType'
    BY <1>8, KeptTyped DEF Idle, Begin
  <2>2. cur' \in Entity /\ phase' \in {"frame", "cycle"}
    BY <1>8, TurnTyped DEF Idle, Begin
  <2>3. \A o \in plan.main[cur] : o \in Op /\ <<o>> \in Seq(Op)
    BY <1>0, DialogAssumption DEF RestType, Plans
  <2>4. task' \in [Entity -> Seq(Op)]
    BY <1>0, <1>8, <2>3 DEF Idle, Begin, RestType
  <2> QED BY <1>0, <1>8, <2>1, <2>2, <2>4 DEF Idle, Begin, RestType, TypeInv, TypeOK, WinType
<1> QED BY <1>1, <1>2, <1>3, <1>4, <1>5, <1>6, <1>7, <1>8 DEF Cycle

LEMMA FrameTyped ==
    ASSUME TypeInv, FrameStart
    PROVE  TypeInv'
<1>0. WinType /\ RestType
  BY TypeParts
<1>1. WinType'
  BY ResetTyped, KeptTyped DEF FrameStart, Frame
<1>2. ok' \in {"up", "edge", "held"} /\ phase' = "cycle" /\ refresh' = FALSE
      /\ UNCHANGED <<plan, formVars, task, talks, cur>>
  BY DEF FrameStart, Frame
<1> QED BY <1>0, <1>1, <1>2 DEF formVars, RestType, TypeInv, TypeOK, WinType

LEMMA PreemptTyped ==
    ASSUME TypeInv, NEW e \in Entity, Preempt(e)
    PROVE  TypeInv'
<1>0. WinType /\ RestType
  BY TypeParts
<1>1. WinType'
  BY KeptTyped DEF Preempt
<1>2. PICK o \in plan.talk[e] : task' = [task EXCEPT ![e] = <<o>> \o @]
  BY DEF Preempt
<1>3. o \in Op /\ <<o>> \o task[e] \in Seq(Op)
  BY <1>0, DialogAssumption DEF RestType, Plans
<1>4. task' \in [Entity -> Seq(Op)]
  BY <1>0, <1>2, <1>3 DEF RestType
<1>5. talks' \in 0 .. MaxTalks
  BY <1>0, DialogAssumption DEF Preempt, RestType
<1> QED BY <1>0, <1>1, <1>4, <1>5
        DEF Preempt, formVars, turnVars, RestType, TypeInv, TypeOK, WinType

LEMMA NextTyped == TypeInv /\ [Next]_vars => TypeInv'
<1>1. TypeInv /\ UNCHANGED vars => TypeInv'
  BY DEF vars, winVars, formVars, turnVars, textVars, TypeInv, TypeOK, Opening
<1> QED BY <1>1, CycleTyped, FrameTyped, PreemptTyped DEF Next

LEMMA TypeInvariant == Spec => []TypeInv
BY InitTyped, NextTyped, PTL DEF Spec

\* Every variable of the windows keeps its type: the size of a window and its
\* counters stay in range however the polls of several entities interleave.
THEOREM WindowTypes == Spec => []TypeOK
<1>1. TypeInv => TypeOK
  BY DEF TypeInv
<1> QED BY <1>1, TypeInvariant, PTL
----------------------------------------------------------------------------
(***************************************************************************)
(* Who owns an open window                                                 *)
(***************************************************************************)
\* What one update may do to the owner of window w.
Passes(w, s, r) ==
    /\ state' = [state EXCEPT ![w] = state'[w]]
    /\ owner' = [owner EXCEPT ![w] = owner'[w]]
    /\ \/ /\ s # "INIT" /\ state'[w] # "INIT" /\ owner'[w] = owner[w]
          /\ r = TRUE => owner[w] # cur
       \/ s = "INIT" /\ state'[w] = "INIT" /\ owner'[w] = owner[w] /\ r = FALSE
       \/ s = "INIT" /\ state'[w] # "INIT" /\ owner'[w] = cur /\ r = FALSE
       \/ s # "INIT" /\ state'[w] = "INIT" /\ owner'[w] = NoEntity

LEMMA UpdatePasses ==
    ASSUME TypeInv, NEW w \in Window, NEW m, NEW s \in State, NEW r \in BOOLEAN,
           UpdateStates(w, m, s, r)
    PROVE  Passes(w, s, r)
<1> USE DEF Goes, Idles
<1>0. state \in [Window -> State] /\ owner \in [Window -> Entity \cup {NoEntity}]
  BY DEF TypeInv, TypeOK
<1>1. ASSUME r = FALSE, s # "INIT", owner' = owner,
             NEW t \in State \ {"INIT"}, state' = [state EXCEPT ![w] = t]
      PROVE  Passes(w, s, r)
  BY <1>0, <1>1 DEF Passes
<1>2. CASE Open(w, m, s) /\ r = FALSE
  BY <1>0, <1>2 DEF Open, Passes
<1>3. CASE (Grow(w, s) \/ WriteSome(w, s)) /\ r = FALSE
  BY <1>1, <1>3 DEF Grow, WriteSome, WriteRest, State
<1>4. CASE WriteStop(w, s) /\ r = FALSE
  <2>1. PICK q \in pos[w] .. End(w) : state' = [state EXCEPT ![w] = StopState(w, q)]
    BY <1>4 DEF WriteStop
  <2>2. StopState(w, q) \in State \ {"INIT"}
    BY DEF StopState, State
  <2> QED BY <1>1, <1>4, <2>1, <2>2 DEF WriteStop, WriteRest
<1>5. CASE (ScrollRow(w, s) \/ WaitRow(w, s) \/ ScrollWhileOk(w, s)) /\ r = FALSE
  BY <1>1, <1>5 DEF ScrollRow, WaitRow, ScrollWhileOk, State
<1>6. CASE (ScrollPause(w, s) \/ PauseOk(w, s) \/ PauseTxt(w, s) \/ InitNext(w, s)) /\ r = FALSE
  BY <1>1, <1>6 DEF ScrollPause, PauseOk, PauseTxt, InitNext, State
<1>7. CASE (Dismiss(w, s) \/ (s = "CLOSING" /\ Shrink(w))) /\ r = FALSE
  BY <1>1, <1>7 DEF Dismiss, Shrink, State
<1>8. CASE Stalls(w, s) /\ Idles(w, s) /\ r = FALSE
  BY <1>0, <1>8 DEF Passes
<1>9. CASE r = TRUE /\ s = "CLOSING" /\ Release(w)
  BY <1>0, <1>9 DEF Release, Passes
<1>10. CASE r \in Undefined /\ s = "CLOSING" /\ ~Mine(w) /\ Idles(w, s)
  BY <1>0, <1>10 DEF Mine, Passes
<1> QED BY <1>2, <1>3, <1>4, <1>5, <1>6, <1>7, <1>8, <1>9, <1>10 DEF UpdateStates

\* A script that ends at an opcode takes no MES but its own away.
LEMMA PopShows ==
    ASSUME TypeInv, NEW ks, Polling(ks), task' = [task EXCEPT ![cur] = Tail(@)],
           NEW e \in Entity, NEW w \in Window, Shows(e, w),
           e = cur => ~(Head1.op = "MES" /\ Head1.w = w)
    PROVE  Shows(e, w)'
<1>1. task \in [Entity -> Seq(Op)]
  BY DEF TypeInv, TypeOK
<1>2. CASE e # cur
  BY <1>1, <1>2 DEF Shows
<1>3. CASE e = cur
  <2>1. PICK i \in DOMAIN task[e] : task[e][i].op = "MES" /\ task[e][i].w = w
    BY DEF Shows
  <2>2. i # 1 /\ i \in 1 .. Len(task[e]) /\ task[e] \in Seq(Op) /\ task[e] # <<>>
    BY <1>1, <1>3, <2>1 DEF Head1, Polling
  <2>3. task'[e] = Tail(task[e])
    BY <1>1, <1>3
  <2>4. i - 1 \in DOMAIN Tail(task[e]) /\ Tail(task[e])[i - 1] = task[e][i]
    BY <2>2
  <2> QED BY <2>1, <2>3, <2>4 DEF Shows
<1> QED BY <1>2, <1>3

LEMMA PushShows ==
    ASSUME TypeInv, NEW f \in Entity, NEW o \in Op,
           task' = [task EXCEPT ![f] = <<o>> \o @],
           NEW e \in Entity, NEW w \in Window, Shows(e, w)
    PROVE  Shows(e, w)'
<1>1. task \in [Entity -> Seq(Op)]
  BY DEF TypeInv, TypeOK
<1>2. PICK i \in DOMAIN task[e] : task[e][i].op = "MES" /\ task[e][i].w = w
  BY DEF Shows
<1>3. CASE e # f
  BY <1>1, <1>2, <1>3 DEF Shows
<1>4. CASE e = f
  <2>1. task'[e] = <<o>> \o task[e] /\ task[e] \in Seq(Op)
    BY <1>1, <1>4
  <2>2. i + 1 \in DOMAIN task'[e] /\ task'[e][i + 1] = task[e][i]
    BY <1>2, <2>1
  <2> QED BY <1>2, <2>2 DEF Shows
<1> QED BY <1>3, <1>4

OwnInv == TypeInv /\ OwnerPolls

\* The owner of every window is free to stay: only the windows of the running
\* opcode are touched.
LEMMA NoEntityOut == NoEntity \notin Entity
<1>1. NumEntities \in 1 .. 255
  BY DialogAssumption
<1> QED BY <1>1 DEF NoEntity, Entity

\* OwnerPolls of the next state, entity by entity.
LEMMA NextOwners ==
    ASSUME OpenOwned', TypeInv',
           \A v \in Window, e \in Entity : owner'[v] = e => Shows(e, v)'
    PROVE  OwnerPolls'
<1>1. ASSUME NEW v \in Window, owner'[v] # NoEntity
      PROVE  \E e \in Entity : owner'[v] = e /\ Shows(e, v)'
  BY <1>1 DEF TypeInv, TypeOK
<1> QED BY <1>1 DEF OwnerPolls, Shows

LEMMA MesOwned ==
    ASSUME OwnInv, NEW r \in BOOLEAN, Mes(r)
    PROVE  OwnerPolls'
<1> DEFINE w == Head1.w
           s == state[w]
<1>0. /\ TypeInv /\ w \in Window /\ s \in State /\ Polling({"MES"}) /\ Head1.op = "MES"
      /\ cur \in Entity /\ cur # NoEntity
      /\ state \in [Window -> State] /\ owner \in [Window -> Entity \cup {NoEntity}]
      /\ task \in [Entity -> Seq(Op)] /\ task[cur] # <<>>
  BY HeadTyped, NoEntityOut DEF OwnInv, Mes, TypeInv, TypeOK, Polling
<1>1. Passes(w, s, r)
  BY <1>0, UpdatePasses DEF Mes
<1>2. OpenOwned'
  BY <1>0, <1>1 DEF Passes, OpenOwned, OwnInv, OwnerPolls
<1>3. ASSUME NEW v \in Window, NEW e \in Entity, owner'[v] = e
      PROVE  Shows(e, v)'
  <2>0. e # NoEntity
    BY NoEntityOut
  <2>1. CASE r = FALSE
    <3>1. task' = task
      BY <2>1 DEF Mes, PollAgain
    <3>2. CASE owner[v] = e
      <4>1. Shows(e, v)
        BY <2>0, <3>2 DEF OwnInv, OwnerPolls
      <4> QED BY <3>1, <4>1 DEF Shows
    <3>3. CASE owner[v] # e
      <4>1. v = w /\ e = cur
        BY <1>0, <1>1, <1>3, <2>0, <3>3 DEF Passes
      <4>2. 1 \in DOMAIN task[cur]
        BY <1>0
      <4> QED BY <1>0, <3>1, <4>1, <4>2 DEF Shows, Head1
    <3> QED BY <3>2, <3>3
  <2>2. CASE r = TRUE
    <3>1. task' = [task EXCEPT ![cur] = Tail(@)]
      BY <2>2 DEF Mes, OpEnds
    <3>2. owner[v] = e /\ (v = w => e # cur)
      BY <1>0, <1>1, <1>3, <2>0, <2>2 DEF Passes
    <3>3. Shows(e, v)
      BY <2>0, <3>2 DEF OwnInv, OwnerPolls
    <3> QED BY <1>0, <3>1, <3>2, <3>3, PopShows
  <2> QED BY <2>1, <2>2
<1>4. TypeInv'
  BY <1>0, CycleTyped DEF Cycle, MesOn, MesEnd
<1> QED BY <1>2, <1>3, <1>4, NextOwners

\* A step that opens no window: it is enough that nobody's MES goes away.
LEMMA KeptOwned ==
    ASSUME OwnInv, TypeInv', OpenOwned',
           \A v \in Window : owner'[v] \in {owner[v], NoEntity},
           \A v \in Window, e \in Entity : Shows(e, v) => Shows(e, v)'
    PROVE  OwnerPolls'
<1>1. ASSUME NEW v \in Window, NEW e \in Entity, owner'[v] = e
      PROVE  Shows(e, v)'
  <2>1. e # NoEntity /\ owner[v] = e
    BY <1>1, NoEntityOut
  <2>2. Shows(e, v)
    BY <2>1 DEF OwnInv, OwnerPolls
  <2> QED BY <2>2
<1> QED BY <1>1, NextOwners

\* The windows close, or stay as they are, for opcodes other than MES.
Closes == \A v \in Window :
            \/ state'[v] = "INIT" /\ owner'[v] = NoEntity
            \/ owner'[v] = owner[v] /\ (state'[v] = "INIT" <=> state[v] = "INIT")

LEMMA ClosesOwned ==
    ASSUME OwnInv, TypeInv', Closes,
           \A v \in Window, e \in Entity : Shows(e, v) => Shows(e, v)'
    PROVE  OwnerPolls'
<1>1. OpenOwned'
  BY DEF Closes, OpenOwned, OwnInv, OwnerPolls
<1> QED BY <1>1, KeptOwned DEF Closes

LEMMA WinKept ==
    ASSUME UNCHANGED winVars
    PROVE  Closes
BY DEF winVars, Closes

LEMMA ResetCloses ==
    ASSUME ResetAll
    PROVE  Closes
BY DEF ResetAll, Closes

LEMMA PollCloses ==
    ASSUME OwnInv, WclsOn \/ WsizwOn
    PROVE  Closes
<1> DEFINE w == Head1.w
           s == ToClose(state[w])
<1>0. /\ w \in Window /\ owner[w] # NoEntity /\ CloseAndPoll /\ TypeInv
      /\ state \in [Window -> State] /\ owner \in [Window -> Entity \cup {NoEntity}]
  BY HeadTyped, NoEntityOut
     DEF WclsOn, WsizwOn, Busy, Mine, OwnInv, TypeInv, TypeOK
<1>1. s \in State /\ s # "INIT" /\ state[w] # "INIT"
  BY <1>0 DEF ToClose, State, OwnInv, OwnerPolls, OpenOwned
<1>2. PICK r \in BOOLEAN : UpdateStates(w, Head1.m, s, r)
  BY <1>0 DEF CloseAndPoll
<1>3. Passes(w, s, r)
  BY <1>0, <1>1, <1>2, UpdatePasses
<1> QED BY <1>0, <1>1, <1>3 DEF Passes, Closes

LEMMA OtherPops ==
    ASSUME TypeInv, NEW ks, Polling(ks), "MES" \notin ks,
           task' = [task EXCEPT ![cur] = Tail(@)]
    PROVE  \A v \in Window, e \in Entity : Shows(e, v) => Shows(e, v)'
<1>1. Head1.op # "MES"
  BY DEF Polling
<1> QED BY <1>1, PopShows

LEMMA CycleOwned ==
    ASSUME OwnInv, Cycle
    PROVE  OwnerPolls'
<1> USE DEF OpEnds, PollAgain
<1>0. TypeInv /\ TypeInv'
  BY CycleTyped DEF OwnInv
<1>1. CASE MesOn \/ MesEnd
  BY <1>1, MesOwned DEF MesOn, MesEnd
<1>2. CASE WclsOn \/ WsizwOn
  <2>1. task' = task
    BY <1>2 DEF WclsOn, WsizwOn, CloseAndPoll
  <2>2. \A v \in Window, e \in Entity : Shows(e, v) => Shows(e, v)'
    BY <2>1 DEF Shows
  <2> QED BY <1>0, <1>2, <2>2, PollCloses, ClosesOwned
<1>3. CASE WclseWait \/ WsizwWait \/ Idle
  <2>1. task' = task /\ Closes
    BY <1>3, WinKept DEF WclseWait, WsizwWait, Idle
  <2>2. \A v \in Window, e \in Entity : Shows(e, v) => Shows(e, v)'
    BY <2>1 DEF Shows
  <2> QED BY <1>0, <2>1, <2>2, ClosesOwned
<1>4. CASE WclsEnd \/ WsizwEnd \/ Wrow \/ Wmode
  <2>1. Closes
    BY <1>4, WinKept DEF WclsEnd, WsizwEnd, Wrow, Wmode
  <2>2. PICK ks \in {{"WCLS"}, {"WSIZW"}, {"WROW"}, {"WMODE"}} :
          Polling(ks) /\ task' = [task EXCEPT ![cur] = Tail(@)]
    BY <1>4 DEF WclsEnd, WsizwEnd, Wrow, Wmode
  <2> QED BY <1>0, <2>1, <2>2, OtherPops, ClosesOwned
<1>5. CASE WclseEnd
  <2>1. Head1.w \in Window /\ state \in [Window -> State]
    BY <1>0, <1>5, HeadTyped DEF WclseEnd, TypeInv, TypeOK
  <2>2. Closes
    BY <1>5, <2>1 DEF WclseEnd, Idles, Goes, ToClose, Closable, Closes
  <2>3. Polling({"WCLSE"}) /\ task' = [task EXCEPT ![cur] = Tail(@)]
    BY <1>5 DEF WclseEnd
  <2> QED BY <1>0, <2>2, <2>3, OtherPops, ClosesOwned
<1>6. CASE Wrest
  <2>1. Head1.w \in Window
    BY <1>0, <1>6, HeadTyped DEF Wrest
  <2>2. Closes
    BY <1>0, <1>6, <2>1 DEF Wrest, Goes, Closes, TypeInv, TypeOK
  <2>3. Polling({"WREST"}) /\ task' = [task EXCEPT ![cur] = Tail(@)]
    BY <1>6 DEF Wrest
  <2> QED BY <1>0, <2>2, <2>3, OtherPops, ClosesOwned
<1>7. CASE Batle \/ Menu
  <2>1. Closes
    BY <1>7, WinKept, ResetCloses DEF Batle, Menu
  <2>2. PICK ks \in {{"BATLE"}, {"MENU"}} :
          Polling(ks) /\ task' = [task EXCEPT ![cur] = Tail(@)]
    BY <1>7 DEF Batle, Menu
  <2> QED BY <1>0, <2>1, <2>2, OtherPops, ClosesOwned
<1>8. CASE Begin
  <2>1. Closes
    BY <1>8, WinKept DEF Begin
  <2>2. ASSUME NEW v \in Window, NEW e \in Entity, Shows(e, v)
        PROVE  Shows(e, v)'
    <3>1. e # cur
      BY <1>8, <2>2 DEF Begin, Shows
    <3>2. task'[e] = task[e]
      BY <1>0, <1>8, <3>1 DEF Begin, TypeInv, TypeOK
    <3> QED BY <2>2, <3>2 DEF Shows
  <2> QED BY <1>0, <2>1, <2>2, ClosesOwned
<1> QED BY <1>1, <1>2, <1>3, <1>4, <1>5, <1>6, <1>7, <1>8 DEF Cycle

\* Every open window belongs to an entity with a script at a MES or ASK for it,
\* whichever entity closes, resets or polls it.
THEOREM WindowsOwned == Spec => []OwnerPolls
<1>1. Init => OwnerPolls
  BY DEF Init, OwnerPolls, OpenOwned
<1>2. OwnInv /\ FrameStart => OwnerPolls'
  <2> SUFFICES ASSUME OwnInv, FrameStart PROVE OwnerPolls'
    OBVIOUS
  <2>1. TypeInv' /\ Closes /\ task' = task
    BY FrameTyped, WinKept, ResetCloses DEF FrameStart, Frame, OwnInv
  <2>2. \A v \in Window, e \in Entity : Shows(e, v) => Shows(e, v)'
    BY <2>1 DEF Shows
  <2> QED BY <2>1, <2>2, ClosesOwned
<1>3. ASSUME OwnInv, NEW f \in Entity, Preempt(f) PROVE OwnerPolls'
  <2>1. TypeInv /\ TypeInv' /\ Closes
    BY <1>3, PreemptTyped, WinKept DEF Preempt, OwnInv
  <2>2. PICK o \in plan.talk[f] : task' = [task EXCEPT ![f] = <<o>> \o @]
    BY <1>3 DEF Preempt
  <2>3. o \in Op
    BY <2>1, DialogAssumption DEF TypeInv, TypeOK, Plans
  <2> QED BY <1>3, <2>1, <2>2, <2>3, PushShows, ClosesOwned
<1>4. OwnInv /\ UNCHANGED vars => OwnerPolls'
  BY DEF vars, winVars, OwnerPolls, OpenOwned, Shows, OwnInv
<1>5. OwnInv /\ [Next]_vars => OwnInv'
  BY <1>2, <1>3, <1>4, CycleOwned, NextTyped DEF Next, OwnInv
<1>6. Init => OwnInv
  BY <1>1, InitTyped DEF OwnInv
<1>7. OwnInv => OwnerPolls
  BY DEF OwnInv
<1> QED BY <1>5, <1>6, <1>7, PTL DEF Spec
----------------------------------------------------------------------------
(***************************************************************************)
(* What an open window keeps                                               *)
(***************************************************************************)
LEMMA UpdateKeeps ==
    ASSUME TypeInv, NEW w \in Window, NEW m, NEW s \in State, NEW r \in BOOLEAN,
           s # "INIT", state[w] = "CLOSING" => s = "CLOSING",
           UpdateStates(w, m, s, r)
    PROVE  \A v \in Window : KeepsWhileOpen(v) \/ (v = w /\ owner[w] = NoEntity)
<1> USE DEF Goes, Idles
<1>0. /\ state \in [Window -> State] /\ pos \in [Window -> Nat]
      /\ owner \in [Window -> Entity \cup {NoEntity}]
      /\ Passes(w, s, r)
  BY UpdatePasses DEF TypeInv, TypeOK
<1>1. msg' = msg
  BY DEF UpdateStates, Open, Grow, WriteSome, WriteStop, WriteRest, ScrollRow, WaitRow,
         ScrollWhileOk, ScrollPause, PauseOk, PauseTxt, InitNext, Dismiss, Shrink, Release,
         textVars
<1>2. \/ pos' = pos
      \/ /\ Mine(w)
         /\ \E q \in pos[w] .. End(w) + 1 : pos' = [pos EXCEPT ![w] = q]
  <2>1. CASE WriteSome(w, s) \/ WriteStop(w, s)
    <3>1. PICK q \in pos[w] .. End(w) :
            \/ pos' = [pos EXCEPT ![w] = q] \/ pos' = [pos EXCEPT ![w] = After(w, q)]
      BY <2>1 DEF WriteSome, WriteStop
    <3>2. q \in pos[w] .. End(w) + 1 /\ After(w, q) \in pos[w] .. End(w) + 1
      BY <1>0, EndTyped DEF After, TypeInv
    <3> QED BY <2>1, <3>1, <3>2 DEF WriteSome, WriteStop
  <2>2. CASE ~(WriteSome(w, s) \/ WriteStop(w, s))
    BY <2>2 DEF UpdateStates, Open, Grow, ScrollRow, WaitRow,
         ScrollWhileOk, ScrollPause, PauseOk, PauseTxt, InitNext, Dismiss, Shrink, Release,
         textVars
  <2> QED BY <2>1, <2>2
<1>3. s = "CLOSING" => state'[w] \in {"CLOSING", "INIT"}
  BY <1>0 DEF UpdateStates, Open, Grow, WriteSome, WriteStop, ScrollRow, WaitRow,
         ScrollWhileOk, ScrollPause, PauseOk, PauseTxt, InitNext, Dismiss, Shrink, Release,
         Stalls
<1>4. \A v \in Window : v # w => pos'[v] = pos[v]
  BY <1>0, <1>2
<1>5. pos'[w] # pos[w] => Mine(w) /\ pos'[w] > pos[w]
  <2> SUFFICES ASSUME pos'[w] # pos[w] PROVE Mine(w) /\ pos'[w] > pos[w]
    OBVIOUS
  <2>1. PICK q \in pos[w] .. End(w) + 1 : pos'[w] = q
    BY <1>0, <1>2
  <2>2. q >= pos[w] /\ q \in Int /\ pos[w] \in Int
    BY <1>0
  <2> QED BY <1>2, <2>1, <2>2
<1>6. ASSUME NEW v \in Window, v # w PROVE KeepsWhileOpen(v)
  BY <1>0, <1>1, <1>4, <1>6 DEF KeepsWhileOpen, Passes
<1>7. owner[w] # NoEntity => KeepsWhileOpen(w)
  <2>1. owner[w] # NoEntity => owner'[w] \in {owner[w], NoEntity}
    BY <1>0 DEF Passes
  <2> QED BY <2>1, <1>1, <1>3, <1>5 DEF KeepsWhileOpen, Mine
<1> QED BY <1>6, <1>7

\* An update of a free window opens it and leaves the others alone.
LEMMA OpenKeeps ==
    ASSUME OwnInv, NEW w \in Window, NEW m, NEW r \in BOOLEAN,
           state[w] = "INIT", UpdateStates(w, m, state[w], r)
    PROVE  \A v \in Window : KeepsWhileOpen(v)
<1>1. owner[w] = NoEntity /\ "INIT" \in State
  BY DEF OwnInv, OwnerPolls, OpenOwned, State
<1>2. Open(w, m, "INIT")
  BY <1>1 DEF UpdateStates, Grow, WriteSome, WriteStop, ScrollRow, WaitRow,
         ScrollWhileOk, ScrollPause, PauseOk, PauseTxt, InitNext, Dismiss, Stalls, Busy
<1> QED BY <1>1, <1>2 DEF Open, Goes, KeepsWhileOpen, OwnInv, TypeInv, TypeOK

LEMMA StillKeeps ==
    ASSUME UNCHANGED winVars
    PROVE  \A v \in Window : KeepsWhileOpen(v)
BY DEF winVars, textVars, KeepsWhileOpen

LEMMA ResetKeeps ==
    ASSUME ResetAll
    PROVE  \A v \in Window : KeepsWhileOpen(v)
BY DEF ResetAll, KeepsWhileOpen

LEMMA CycleKeeps ==
    ASSUME OwnInv, Cycle
    PROVE  \A v \in Window : KeepsWhileOpen(v)
<1>0. TypeInv /\ state \in [Window -> State] /\ owner \in [Window -> Entity \cup {NoEntity}]
  BY DEF OwnInv, TypeInv, TypeOK
<1>1. CASE MesOn \/ MesEnd
  <2>1. PICK r \in BOOLEAN : Polling({"MES"}) /\ UpdateStates(Head1.w, Head1.m, state[Head1.w], r)
    BY <1>1 DEF MesOn, MesEnd, Mes
  <2>2. Head1.w \in Window
    BY <1>0, <2>1, HeadTyped
  <2>3. CASE state[Head1.w] = "INIT"
    BY <2>1, <2>2, <2>3, OpenKeeps
  <2>4. CASE state[Head1.w] # "INIT"
    <3>1. owner[Head1.w] # NoEntity
      BY <2>2, <2>4 DEF OwnInv, OwnerPolls, OpenOwned
    <3> QED BY <1>0, <2>1, <2>2, <2>4, <3>1, UpdateKeeps
  <2> QED BY <2>3, <2>4
<1>2. CASE WclsOn \/ WsizwOn
  <2> DEFINE w == Head1.w
             s == ToClose(state[w])
  <2>1. PICK r \in BOOLEAN : UpdateStates(w, Head1.m, s, r)
    BY <1>2 DEF WclsOn, WsizwOn, CloseAndPoll
  <2>2. w \in Window /\ owner[w] # NoEntity
    BY <1>0, <1>2, HeadTyped, NoEntityOut DEF WclsOn, WsizwOn, Busy, Mine, TypeInv, TypeOK
  <2>3. state[w] # "INIT" /\ s \in State /\ s # "INIT" /\ (state[w] = "CLOSING" => s = "CLOSING")
    BY <1>0, <2>2 DEF ToClose, Closable, State, OwnInv, OwnerPolls, OpenOwned
  <2> QED BY <1>0, <2>1, <2>2, <2>3, UpdateKeeps
<1>3. CASE WclsEnd \/ WclseWait \/ WsizwWait \/ WsizwEnd \/ Wrow \/ Wmode \/ Menu \/ Idle \/ Begin
  BY <1>3, StillKeeps
     DEF WclsEnd, WclseWait, WsizwWait, WsizwEnd, Wrow, Wmode, Menu, Idle, Begin
<1>4. CASE WclseEnd
  <2>1. Head1.w \in Window
    BY <1>0, <1>4, HeadTyped DEF WclseEnd
  <2> QED BY <1>0, <1>4, <2>1 DEF WclseEnd, Idles, Goes, ToClose, Closable, textVars, KeepsWhileOpen
<1>5. CASE Wrest
  <2>1. Head1.w \in Window
    BY <1>0, <1>5, HeadTyped DEF Wrest
  <2> QED BY <1>0, <1>5, <2>1 DEF Wrest, Goes, KeepsWhileOpen
<1>6. CASE Batle
  BY <1>6, ResetKeeps DEF Batle
<1> QED BY <1>1, <1>2, <1>3, <1>4, <1>5, <1>6 DEF Cycle

WindowKeptStep == [\A w \in Window : KeepsWhileOpen(w)]_vars

\* An open window keeps its owner and its message, is written to by its owner
\* only, and never comes back from closing, in every step of every entity.
THEOREM WindowsKept == Spec => WindowKept
<1>1. OwnInv /\ [Next]_vars => WindowKeptStep
  <2> SUFFICES ASSUME OwnInv, Next PROVE \A w \in Window : KeepsWhileOpen(w)
    BY DEF WindowKeptStep
  <2>1. CASE FrameStart
    BY <2>1, StillKeeps, ResetKeeps DEF FrameStart, Frame
  <2>2. CASE \E e \in Entity : Preempt(e)
    BY <2>2, StillKeeps DEF Preempt
  <2> QED BY <2>1, <2>2, CycleKeeps DEF Next
<1>2. Spec => []OwnInv
  BY TypeInvariant, WindowsOwned, PTL DEF OwnInv
<1> QED BY <1>1, <1>2, PTL DEF Spec, WindowKept, WindowKeptStep
=============================================================================
