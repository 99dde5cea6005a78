------------------------ MODULE FieldEventCmdProofs ------------------------
(***************************************************************************)
(* Proofs about FieldEventCmd: types, the map that is shown and the one    *)
(* user of the CD drive, for any number of entities, any maps and movies   *)
(* and whatever the scripts and the player do.                             *)
(***************************************************************************)
EXTENDS FieldEventCmd, TLAPS

\* A command's parameter is of the command's kind, whatever wrote over it.
ParamKind ==
    /\ cmd = "MAP"  => param \in Map
    /\ cmd = "GAME" => param \in Place
    /\ cmd = "LOAD" => param \in Movie

\* What is in the buffer is the map that was read ahead, unless a movie has been
\* asked for, which stops the reading in the same frame.
BufferKept ==
    /\ loading # 0 => buffer = preId
    /\ phase = "load" /\ loading # 0 => buffer = map
    /\ phase \in {"exits", "engine", "movie"} /\ cmd = "LOAD" => loading = 0

\* The field is left from a place that is shown, and resumed with it.
Resumed == {"menu", "event"}
PlaceKept ==
    /\ phase # "world" => map \in Place
    /\ phase \in Resumed => shown = map
    /\ phase = "load" /\ came \in Resumed => shown = map

\* While a movie runs the mailbox is not free, and the one who played it waits.
StreamAsked ==
    stream /\ phase \in Frame =>
        \/ cmd = "PLAY" /\ mov = "ACTIVE"
        \/ cmd \in {"STOP", "MAP", "OVER"} /\ mov # "DONE"

CmdInv == /\ TypeOK /\ MapShown /\ DriveOwned
          /\ ParamKind /\ BufferKept /\ PlaceKept /\ StreamAsked


LEMMA PlanTyped ==
    ASSUME TypeOK
    PROVE  /\ plan.script \in [Entity -> Seq(Op)]
           /\ plan.gates \subseteq Map
BY CmdAssumption DEF TypeOK, Plans

\* Where a script of n opcodes stands, at one of them or past the last.
LEMMA Standing ==
    ASSUME NEW n \in Nat, NEW a, NEW b \in BOOLEAN
    PROVE  /\ a \in 1 .. n + (IF b THEN 0 ELSE 1) /\ b => a \in 1 .. n
           /\ a \in 1 .. n => a + 1 \in 1 .. n + 1 /\ a \in 1 .. n + 0
           /\ a \in 1 .. n + (IF b THEN 0 ELSE 1) /\ a <= n => a \in 1 .. n
<1>1. CASE b
  <2>1. (IF b THEN 0 ELSE 1) = 0
    BY <1>1
  <2> HIDE <1>1
  <2> QED BY <2>1
<1>2. CASE ~b
  BY <1>2
<1> QED BY <1>1, <1>2

\* The opcode an entity has come to is one of its script.
LEMMA HereTyped ==
    ASSUME TypeOK, on[cur]
    PROVE  Here \in Op
<1>1. cur \in Entity /\ plan.script[cur] \in Seq(Op)
  BY PlanTyped DEF TypeOK, ScriptTypes
<1>2. at[cur] \in 1 .. Len(plan.script[cur])
  <2>1. at[cur] \in 1 .. Len(plan.script[cur]) + (IF on[cur] THEN 0 ELSE 1)
    BY <1>1 DEF TypeOK, ScriptTypes
  <2>2. Len(plan.script[cur]) \in Nat /\ on[cur] \in BOOLEAN
    BY <1>1 DEF TypeOK, ScriptTypes
  <2> QED BY <2>1, <2>2, Standing
<1> QED BY <1>1, <1>2 DEF Here

\* What the opcodes ask for, and with which parameter.
LEMMA AskTyped ==
    ASSUME NEW o \in Op, o.op \in Mailbox
    PROVE  /\ o.cmd \in Command
           /\ o.arg \in Map \cup Movie \cup {0, 1}
           /\ o.cmd = "MAP"  => o.arg \in Map
           /\ o.cmd = "GAME" => o.arg \in Place
           /\ o.cmd = "LOAD" => o.arg \in Movie
BY DEF Op, Polled, Other, Mailbox, Command, MenuCmd, Place

LEMMA TurnTyped ==
    ASSUME cur \in Entity, TurnEnds
    PROVE  cur' \in Entity /\ phase' \in {"cycle", "preload"}
BY CmdAssumption DEF TurnEnds, Entity

LEMMA StepsTyped ==
    ASSUME TypeOK, on[cur], Steps, plan' = plan
    PROVE  /\ \A e \in Entity : at'[e] \in 1 .. Len(plan'.script[e]) + (IF on'[e] THEN 0 ELSE 1)
           /\ at' \in [Entity -> Nat] /\ on' \in [Entity -> BOOLEAN]
<1>1. /\ at \in [Entity -> Nat] /\ on \in [Entity -> BOOLEAN] /\ cur \in Entity
      /\ \A e \in Entity : at[e] \in 1 .. Len(plan.script[e]) + (IF on[e] THEN 0 ELSE 1)
  BY DEF TypeOK, ScriptTypes
<1>2. at' \in [Entity -> Nat] /\ on' \in [Entity -> BOOLEAN]
  BY <1>1 DEF Steps
<1>3. ASSUME NEW e \in Entity
      PROVE  at'[e] \in 1 .. Len(plan'.script[e]) + (IF on'[e] THEN 0 ELSE 1)
  <2>1. plan.script[e] \in Seq(Op)
    BY PlanTyped
  <2>2. Len(plan.script[e]) \in Nat
    BY <2>1
  <2>3. CASE e = cur
    <3>1. at'[e] = at[e] + 1 /\ ~on'[e]
      BY <1>1, <2>3 DEF Steps
    <3>2. at[e] \in 1 .. Len(plan.script[e])
      <4>1. at[e] \in 1 .. Len(plan.script[e]) + (IF on[e] THEN 0 ELSE 1)
        BY <1>1
      <4> QED BY <1>1, <2>2, <2>3, <4>1, Standing
    <3>3. at[e] + 1 \in 1 .. Len(plan.script[e]) + 1
      BY <2>2, <3>2, Standing
    <3> QED BY <3>1, <3>3
  <2>4. CASE e # cur
    BY <1>1, <2>4 DEF Steps
  <2> QED BY <2>3, <2>4
<1> QED BY <1>2, <1>3

LEMMA BeginTyped ==
    ASSUME TypeOK, Begin
    PROVE  /\ \A e \in Entity : at'[e] \in 1 .. Len(plan'.script[e]) + (IF on'[e] THEN 0 ELSE 1)
           /\ on' \in [Entity -> BOOLEAN]
<1>1. /\ on \in [Entity -> BOOLEAN] /\ cur \in Entity
      /\ \A e \in Entity : at[e] \in 1 .. Len(plan.script[e]) + (IF on[e] THEN 0 ELSE 1)
  BY DEF TypeOK, ScriptTypes
<1>2. /\ at[cur] <= Len(plan.script[cur]) /\ plan' = plan /\ at' = at
      /\ on' = [on EXCEPT ![cur] = TRUE]
  BY DEF Begin, Rest
<1>3. ASSUME NEW e \in Entity
      PROVE  at'[e] \in 1 .. Len(plan'.script[e]) + (IF on'[e] THEN 0 ELSE 1)
  <2>1. plan.script[e] \in Seq(Op)
    BY PlanTyped
  <2>2. Len(plan.script[e]) \in Nat
    BY <2>1
  <2>3. at[e] \in 1 .. Len(plan.script[e]) + (IF on[e] THEN 0 ELSE 1)
    BY <1>1
  <2>4. CASE e = cur
    <3>1. at[e] \in 1 .. Len(plan.script[e])
      BY <1>1, <1>2, <2>2, <2>3, <2>4, Standing
    <3>2. at[e] \in 1 .. Len(plan.script[e]) + 0
      BY <2>2, <3>1, Standing
    <3>3. on'[e] = TRUE
      BY <1>1, <1>2, <2>4
    <3> QED BY <1>2, <3>2, <3>3
  <2>5. CASE e # cur
    BY <1>1, <1>2, <2>3, <2>5
  <2> QED BY <2>4, <2>5
<1> QED BY <1>1, <1>2, <1>3
----------------------------------------------------------------------------
(***************************************************************************)
(* The scripts' turns change the mailbox and the scripts' own places only. *)
(***************************************************************************)
MailInv == MailTypes /\ ParamKind

\* What an opcode leaves in the mailbox is a command with its parameter, and
\* while a movie runs the mailbox is never emptied.
LEMMA ScriptMail ==
    ASSUME CmdInv, Script
    PROVE  MailInv' /\ (stream => \/ cmd' = "PLAY" /\ mov' = "ACTIVE"
                                  \/ cmd' \in {"STOP", "MAP", "OVER"} /\ mov' # "DONE")
<1>1. MailInv /\ cur \in Entity /\ phase = "cycle"
  BY DEF CmdInv, TypeOK, MailInv, ScriptTypes, Script, Ask, Collect, StopMovie, MovieStopped,
         Wait, SkipMovie, Gmovr, Pmjmp, Pmjmp2, Idle, Begin, Polling
<1>2. stream => \/ cmd = "PLAY" /\ mov = "ACTIVE"
                \/ cmd \in {"STOP", "MAP", "OVER"} /\ mov # "DONE"
  BY <1>1 DEF CmdInv, StreamAsked, Frame
<1>3. CASE Ask
  <2>1. Here \in Op /\ Here.op \in Mailbox
    BY <1>3, HereTyped DEF CmdInv, Ask, Polling
  <2>2. /\ cmd = "NONE" /\ cmd' = Here.cmd /\ param' = Here.arg /\ asker' = cur
        /\ mov' \in {mov, "IDLE"}
    BY <1>3 DEF Ask
  <2> QED BY <1>1, <1>2, <2>1, <2>2, AskTyped DEF MailInv, MailTypes, ParamKind
<1>4. CASE Collect
  BY <1>1, <1>2, <1>4 DEF Collect, MailInv, MailTypes, ParamKind
<1>5. CASE StopMovie
  BY <1>1, <1>5 DEF StopMovie, MailInv, MailTypes, ParamKind, Command
<1>6. CASE Gmovr
  BY <1>1, <1>6 DEF Gmovr, MailInv, MailTypes, ParamKind, Command
<1>7. CASE MovieStopped \/ Wait \/ SkipMovie \/ Pmjmp \/ Pmjmp2 \/ Idle \/ Begin
  BY <1>1, <1>2, <1>7 DEF MovieStopped, Wait, SkipMovie, Pmjmp, Pmjmp2, Idle, Begin, mailVars,
                          MailInv, MailTypes, ParamKind
<1> QED BY <1>3, <1>4, <1>5, <1>6, <1>7 DEF Script

LEMMA ScriptPlaces ==
    ASSUME CmdInv, Script
    PROVE  ScriptTypes' /\ phase' \in {"cycle", "preload"} /\ nextId' \in Map \cup {NoMap}
<1>1. TypeOK /\ plan' = plan /\ phase = "cycle"
  BY DEF CmdInv, Rest, Script, Ask, Collect, StopMovie, MovieStopped,
         Wait, SkipMovie, Gmovr, Pmjmp, Pmjmp2, Idle, Begin, Polling
<1>2. cur \in Entity /\ served \subseteq Entity /\ nextId \in Map \cup {NoMap}
  BY <1>1 DEF TypeOK, ScriptTypes, DriveTypes
<1>3. CASE Begin
  <2>1. served' \subseteq Entity /\ cur' \in Entity /\ at' = at /\ at \in [Entity -> Nat]
        /\ phase' = phase /\ nextId' = nextId
    BY <1>1, <1>2, <1>3 DEF Begin, turnVars, TypeOK, ScriptTypes
  <2> QED BY <1>1, <1>2, <1>3, <2>1, BeginTyped DEF ScriptTypes
<1>4. CASE ~Begin
  <2>1. served' = served /\ ((Steps /\ on[cur]) \/ UNCHANGED <<at, on>>) /\ (TurnEnds \/ UNCHANGED turnVars)
    BY <1>4 DEF Script, Ask, Collect, StopMovie, MovieStopped, scriptVars, PollAgain, OpEnds,
                Wait, SkipMovie, Gmovr, Pmjmp, Pmjmp2, Idle, Polling
  <2>2. cur' \in Entity /\ phase' \in {"cycle", "preload"}
    BY <1>1, <1>2, <2>1, TurnTyped DEF turnVars
  <2>3. nextId' \in Map \cup {NoMap}
    <3>1. CASE Pmjmp
      <4>1. Here \in Op /\ Here.op = "PMJMP" /\ nextId' = Here.arg
        BY <1>1, <3>1, HereTyped DEF Pmjmp, Polling
      <4> QED BY <4>1 DEF Op, Polled, Other
    <3>2. CASE ~Pmjmp
      BY <1>2, <1>4, <3>2 DEF Script, Ask, Collect, StopMovie, MovieStopped, Wait, SkipMovie,
                              Gmovr, Pmjmp2, Idle
    <3> QED BY <3>1, <3>2
  <2>4. CASE Steps /\ on[cur]
    BY <1>1, <1>2, <2>1, <2>2, <2>3, <2>4, StepsTyped DEF ScriptTypes
  <2>5. CASE UNCHANGED <<at, on>>
    BY <1>1, <1>2, <2>1, <2>2, <2>3, <2>5 DEF ScriptTypes, TypeOK
  <2> QED BY <2>1, <2>4, <2>5
<1> QED BY <1>3, <1>4

LEMMA ScriptKeeps ==
    ASSUME CmdInv, Script
    PROVE  CmdInv'
<1>1. MailInv' /\ (stream => \/ cmd' = "PLAY" /\ mov' = "ACTIVE"
                             \/ cmd' \in {"STOP", "MAP", "OVER"} /\ mov' # "DONE")
  BY ScriptMail
<1>2. ScriptTypes' /\ phase' \in {"cycle", "preload"} /\ nextId' \in Map \cup {NoMap}
  BY ScriptPlaces
<1>3. Rest /\ phase = "cycle"
  BY DEF Script, Ask, Collect, StopMovie, MovieStopped, Wait, SkipMovie, Gmovr, Pmjmp, Pmjmp2,
         Idle, Begin, Polling
<1>4. TypeOK'
  BY <1>1, <1>2, <1>3 DEF CmdInv, TypeOK, Rest, movieVars, cdVars, placeVars, MailInv,
                          DriveTypes, PlaceTypes, Frame
<1>5. MapShown' /\ DriveOwned' /\ ParamKind'
  BY <1>1, <1>2, <1>3 DEF CmdInv, MapShown, DriveOwned, MailInv, Rest, movieVars, cdVars,
                          placeVars, Frame, Away
<1>6. BufferKept' /\ PlaceKept' /\ StreamAsked'
  BY <1>1, <1>2, <1>3 DEF CmdInv, BufferKept, PlaceKept, StreamAsked, Resumed, Rest, movieVars, cdVars,
                          placeVars, Frame
<1> QED BY <1>1, <1>4, <1>5, <1>6 DEF CmdInv
----------------------------------------------------------------------------
(***************************************************************************)
(* The frame after the scripts.  Each of its steps leaves the scripts'     *)
(* places, and most of the mailbox, alone.                                 *)
(***************************************************************************)
LEMMA StopTyped ==
    ASSUME TypeOK, DriveOwned, StopFieldMapPreload
    PROVE  /\ loading' = 0 /\ preId' = NoMap
           /\ chain' \in {"idle", "map"} \cup MovieChain
           /\ chain' # "map" /\ chain' \in {chain, "idle"}
           /\ buffer' \in {buffer, NoMap}
BY DEF StopFieldMapPreload, TypeOK, DriveTypes, DriveOwned, MovieChain

PlacesSame == UNCHANGED <<plan, scriptVars, cur>>

LEMMA PlacesTyped ==
    ASSUME TypeOK, PlacesSame
    PROVE  ScriptTypes' /\ plan' \in Plan
BY DEF TypeOK, ScriptTypes, PlacesSame, scriptVars

LEMMA PreloadKeeps ==
    ASSUME CmdInv, PreloadNextFieldMap
    PROVE  CmdInv' /\ KeepsMovie
<1>1. TypeOK /\ DriveOwned /\ phase = "preload" /\ phase' = "exits"
  BY DEF CmdInv, PreloadNextFieldMap
<1>2. PICK m \in NearestGateway :
         /\ nextId' = m
         /\ IF DriveNeeded THEN StopFieldMapPreload
            ELSE IF m = preId \/ m \in Big THEN UNCHANGED <<loading, preId, cdVars>>
            ELSE /\ preId' = m /\ loading' = 1
                 /\ chain' = "map" /\ buffer' = m
  BY DEF PreloadNextFieldMap
<1>3. m \in Map \cup {NoMap}
  BY <1>1, PlanTyped DEF NearestGateway, TypeOK, DriveTypes
<1>4. /\ UNCHANGED <<cmd, param, mov, asker, played, stream, enc, map, shown, came>>
      /\ PlacesSame
  BY DEF PreloadNextFieldMap, mailVars, scriptVars, movieVars, placeVars, PlacesSame
<1>5. ScriptTypes' /\ plan' \in Plan
  BY <1>1, <1>4, PlacesTyped
<1>6. /\ loading' \in 0 .. 2 /\ preId' \in Map \cup {NoMap}
      /\ chain' \in {"idle", "map"} \cup MovieChain
      /\ buffer' \in Map \cup Movie \cup {NoMap}
      /\ loading' = 1 /\ chain' # "idle" => chain' = "map"
      /\ chain' = "map" => loading' = 1
      /\ chain' = "map" => chain \notin MovieChain
      /\ chain' \in MovieChain => played
      /\ loading' # 0 => buffer' = preId'
      /\ cmd = "LOAD" => loading' = 0
  <2>1. CASE DriveNeeded
    BY <1>1, <1>2, <2>1, StopTyped DEF TypeOK, DriveTypes, DriveOwned, MovieChain, Frame
  <2>2. CASE ~DriveNeeded /\ (m = preId \/ m \in Big)
    BY <1>1, <1>2, <2>2 DEF cdVars, TypeOK, DriveTypes, CmdInv, DriveOwned, MovieChain, Frame, BufferKept, DriveNeeded
  <2>3. CASE ~DriveNeeded /\ ~(m = preId \/ m \in Big)
    BY <1>1, <1>2, <1>3, <2>3 DEF DriveOwned, MovieChain, Frame, DriveNeeded
  <2> QED BY <2>1, <2>2, <2>3
<1>7. TypeOK'
  BY <1>1, <1>2, <1>3, <1>4, <1>5, <1>6 DEF TypeOK, MailTypes, DriveTypes, PlaceTypes, Frame
<1>8. MapShown' /\ DriveOwned' /\ ParamKind' /\ KeepsMovie
  BY <1>1, <1>4, <1>6 DEF CmdInv, MapShown, DriveOwned, ParamKind, KeepsMovie, Frame, Away
<1>9. BufferKept' /\ PlaceKept' /\ StreamAsked'
  BY <1>1, <1>4, <1>6 DEF CmdInv, BufferKept, PlaceKept, StreamAsked, Resumed, Frame
<1> QED BY <1>7, <1>8, <1>9 DEF CmdInv

\* Every part of the invariant but the scripts' places.
Parts == /\ MailTypes /\ DriveTypes /\ PlaceTypes
         /\ MapShown /\ DriveOwned /\ ParamKind /\ BufferKept /\ PlaceKept /\ StreamAsked

LEMMA PartsKeep ==
    ASSUME CmdInv, PlacesSame, Parts'
    PROVE  CmdInv'
BY PlacesTyped DEF CmdInv, TypeOK, Parts

LEMMA PartsHold == CmdInv => Parts
BY DEF CmdInv, TypeOK, Parts

\* The field is left, for what was asked for, for the menu or for the title.
LEMMA LeaveKeeps ==
    ASSUME CmdInv, Leave \/ PlayerMenu \/ SoftReset
    PROVE  CmdInv'
<1>1. CASE Leave
  <2>1. Parts /\ phase = "exits"
    BY <1>1, PartsHold DEF Leave
  <2>2. PlacesSame
    BY <1>1 DEF Leave, PlacesSame, scriptVars
  <2>3. loading' = 0 /\ preId' = NoMap /\ chain' # "map" /\ chain' \in {chain, "idle"} /\ buffer' \in {buffer, NoMap}
    BY <1>1, StopTyped DEF Leave, CmdInv
  <2>4. /\ phase' \in Away \ {"world"} /\ map' \in Place
        /\ phase' \in Resumed => map' = map
    <3>1. CASE cmd = "GAME"
      <4>1. map' = param /\ phase' = "game"
        BY <1>1, <3>1 DEF Leave, Target, MenuCmd
      <4>2. param \in Place
        BY <2>1, <3>1 DEF Parts, ParamKind
      <4> QED BY <4>1, <4>2 DEF Away, Resumed
    <3>2. CASE cmd # "GAME"
      <4>1. map \in Place /\ map' = map /\ phase' = Target /\ Target # "exits"
        BY <1>1, <2>1, <3>2 DEF Leave, Parts, PlaceKept
      <4>2. Target \in (Away \ {"world"}) \cup {"exits"}
        BY DEF Target, Away
      <4> QED BY <4>1, <4>2
    <3> QED BY <3>1, <3>2
  <2>5. UNCHANGED <<cmd, param, mov, asker, played, stream, nextId, enc, shown, came>>
    BY <1>1 DEF Leave, mailVars, movieVars
  <2>6. Parts'
    BY <2>1, <2>3, <2>4, <2>5
    DEF Parts, Place, MailTypes, DriveTypes, PlaceTypes, MapShown, DriveOwned, ParamKind,
        BufferKept, PlaceKept, StreamAsked, Resumed, Frame, Away, MovieChain
  <2> QED BY <2>2, <2>6, PartsKeep
<1>2. CASE PlayerMenu
  <2>1. Parts /\ phase = "exits"
    BY <1>2, PartsHold DEF PlayerMenu
  <2>2. PlacesSame
    BY <1>2 DEF PlayerMenu, PlacesSame, scriptVars
  <2>3. loading' = 0 /\ preId' = NoMap /\ chain' # "map" /\ chain' \in {chain, "idle"} /\ buffer' \in {buffer, NoMap}
    BY <1>2, StopTyped DEF PlayerMenu, CmdInv
  <2>4. Parts'
    BY <1>2, <2>1, <2>3
    DEF PlayerMenu, Parts, mailVars, movieVars, placeVars,
         MailTypes, DriveTypes, PlaceTypes, MapShown, DriveOwned, ParamKind,
         BufferKept, PlaceKept, StreamAsked, Resumed, Frame, Away, Command, MenuCmd, MovieChain
  <2> QED BY <2>2, <2>4, PartsKeep
<1>3. CASE SoftReset
  <2>1. Parts /\ phase = "exits"
    BY <1>3, PartsHold DEF SoftReset
  <2>2. PlacesSame
    BY <1>3 DEF SoftReset, PlacesSame, scriptVars
  <2>3. loading' = 0 /\ preId' = NoMap /\ chain' # "map" /\ chain' \in {chain, "idle"} /\ buffer' \in {buffer, NoMap}
    BY <1>3 DEF SoftReset
  <2>4. Parts'
    BY <1>3, <2>1, <2>3
    DEF SoftReset, Parts, mailVars, movieVars, placeVars,
         MailTypes, DriveTypes, PlaceTypes, MapShown, DriveOwned, ParamKind,
         BufferKept, PlaceKept, StreamAsked, Resumed, Frame, Away, Command, MenuCmd, MovieChain
  <2> QED BY <2>2, <2>4, PartsKeep
<1> QED BY <1>1, <1>2, <1>3

\* Another map, and the engine: what was read ahead is kept for its own map only.
LEMMA FrameKeeps ==
    ASSUME CmdInv, ChangeMap \/ Stay \/ Walk \/ Gateway \/ Encounter
    PROVE  CmdInv'
<1>1. CASE ChangeMap
  <2>1. Parts /\ TypeOK
    BY PartsHold DEF CmdInv
  <2>2. PlacesSame
    BY <1>1 DEF ChangeMap, PlacesSame, scriptVars
  <2>3. CASE param = preId
    <3>1. UNCHANGED <<loading, preId, cdVars>>
      BY <1>1, <2>3 DEF ChangeMap
    <3>2. Parts'
      BY <1>1, <2>1, <2>3, <3>1
      DEF ChangeMap, Parts, cdVars, mailVars, movieVars, Place,
         MailTypes, DriveTypes, PlaceTypes, MapShown, DriveOwned, ParamKind,
         BufferKept, PlaceKept, StreamAsked, Resumed, Frame, Away, Command, MenuCmd, MovieChain
    <3> QED BY <2>2, <3>2, PartsKeep
  <2>4. CASE param # preId
    <3>1. loading' = 0 /\ preId' = NoMap /\ chain' # "map" /\ chain' \in {chain, "idle"} /\ buffer' \in {buffer, NoMap}
      BY <1>1, <2>4, StopTyped DEF ChangeMap, CmdInv
    <3>2. Parts'
      BY <1>1, <2>1, <3>1
      DEF ChangeMap, Parts, mailVars, movieVars, Place,
         MailTypes, DriveTypes, PlaceTypes, MapShown, DriveOwned, ParamKind,
         BufferKept, PlaceKept, StreamAsked, Resumed, Frame, Away, Command, MenuCmd, MovieChain
    <3> QED BY <2>2, <3>2, PartsKeep
  <2> QED BY <2>3, <2>4
<1>2. CASE Stay
  <2>1. Parts /\ TypeOK
    BY PartsHold DEF CmdInv
  <2>2. PlacesSame
    BY <1>2 DEF Stay, PlacesSame, scriptVars
  <2>4. Parts'
    BY <1>2, <2>1
    DEF Stay, Target, Parts, mailVars, movieVars, cdVars, aheadVars, placeVars,
         MailTypes, DriveTypes, PlaceTypes, MapShown, DriveOwned, ParamKind,
         BufferKept, PlaceKept, StreamAsked, Resumed, Frame, Away, Command, MenuCmd, MovieChain
  <2> QED BY <2>2, <2>4, PartsKeep
<1>3. CASE Walk
  <2>1. Parts /\ TypeOK
    BY PartsHold DEF CmdInv
  <2>2. PlacesSame
    BY <1>3 DEF Walk, PlacesSame, scriptVars
  <2>4. Parts'
    BY <1>3, <2>1
    DEF Walk, Parts, mailVars, movieVars, cdVars, aheadVars, placeVars,
         MailTypes, DriveTypes, PlaceTypes, MapShown, DriveOwned, ParamKind,
         BufferKept, PlaceKept, StreamAsked, Resumed, Frame, Away, Command, MenuCmd, MovieChain
  <2> QED BY <2>2, <2>4, PartsKeep
<1>4. CASE Gateway
  <2>1. Parts /\ TypeOK
    BY PartsHold DEF CmdInv
  <2>2. PlacesSame
    BY <1>4 DEF Gateway, PlacesSame, scriptVars
  <2>3. plan.gates \subseteq Map
    BY <2>1, PlanTyped
  <2>4. Parts'
    BY <1>4, <2>1, <2>3
    DEF Gateway, Parts, mailVars, movieVars, cdVars, aheadVars, placeVars,
         MailTypes, DriveTypes, PlaceTypes, MapShown, DriveOwned, ParamKind,
         BufferKept, PlaceKept, StreamAsked, Resumed, Frame, Away, Command, MenuCmd, MovieChain
  <2> QED BY <2>2, <2>4, PartsKeep
<1>5. CASE Encounter
  <2>1. Parts /\ TypeOK
    BY PartsHold DEF CmdInv
  <2>2. PlacesSame
    BY <1>5 DEF Encounter, PlacesSame, scriptVars
  <2>3. loading' = 0 /\ preId' = NoMap /\ chain' # "map" /\ chain' \in {chain, "idle"} /\ buffer' \in {buffer, NoMap}
    BY <1>5, StopTyped DEF Encounter, CmdInv
  <2>4. Parts'
    BY <1>5, <2>1, <2>3
    DEF Encounter, Parts, mailVars, movieVars, cdVars, aheadVars, placeVars,
         MailTypes, DriveTypes, PlaceTypes, MapShown, DriveOwned, ParamKind,
         BufferKept, PlaceKept, StreamAsked, Resumed, Frame, Away, Command, MenuCmd, MovieChain
  <2> QED BY <2>2, <2>4, PartsKeep
<1> QED BY <1>1, <1>2, <1>3, <1>4, <1>5

\* A command that is done has served an entity, if anyone.
LEMMA ServeTyped ==
    ASSUME TypeOK, Serve
    PROVE  served' \subseteq Entity
BY DEF TypeOK, ScriptTypes, Serve

\* The movie and the drive.
LEMMA MovieKeeps ==
    ASSUME CmdInv, FieldUpdateMovieStream \/ Drive
    PROVE  CmdInv' /\ KeepsMovie
<1>1. Parts /\ TypeOK /\ phase = "movie" /\ phase' \in {"cycle", "movie"}
  BY PartsHold DEF CmdInv, FieldUpdateMovieStream, ReadAhead, StreamStops, StreamArms, StreamEnds,
         StreamArmed, StreamStarts, StreamRuns, Drive, MovieEnds, turnVars
<1>2. /\ UNCHANGED <<plan, cmd, param, asker, at, on, preId, nextId, placeVars, cur>>
      /\ served' = served \/ Serve
  BY DEF FieldUpdateMovieStream, ReadAhead, StreamStops, StreamArms, StreamEnds,
         StreamArmed, StreamStarts, StreamRuns, Drive, MovieRest, mailVars, scriptVars, aheadVars, turnVars
<1>3. plan' \in Plan /\ ScriptTypes'
  BY <1>1, <1>2, ServeTyped DEF TypeOK, ScriptTypes
<1>4. Parts' /\ KeepsMovie
  <2>1. CASE ReadAhead
    BY <1>1, <1>2, <2>1
    DEF ReadAhead, Arms, Parts, KeepsMovie, MovieEnds, cdVars, movieVars, placeVars, mailVars, aheadVars,
         MailTypes, DriveTypes, PlaceTypes, MapShown, DriveOwned, ParamKind,
         BufferKept, PlaceKept, StreamAsked, Resumed, Frame, Away, MovieChain
  <2>2. CASE StreamStops
    <3>1. /\ UNCHANGED <<cmd, param, asker, preId, nextId, enc, map, shown, came>>
          /\ loading' = loading /\ loading # 1 /\ buffer' = buffer
          /\ mov' = "DONE" /\ chain' = "idle"
          /\ phase' = "cycle" /\ cmd = "STOP"
      BY <1>2, <2>2 DEF StreamStops, MovieEnds, placeVars
    <3>2. ~stream' /\ stream' \in BOOLEAN /\ played' \in BOOLEAN
      BY <2>2 DEF StreamStops
    <3> QED BY <1>1, <3>1, <3>2
    DEF Parts, KeepsMovie, MailTypes, DriveTypes, PlaceTypes, MapShown, DriveOwned, ParamKind,
         BufferKept, PlaceKept, StreamAsked, Resumed, Frame, Away, MovieChain
  <2>3. CASE StreamArms
    BY <1>1, <1>2, <2>3
    DEF StreamArms, Arms, Parts, KeepsMovie, MovieEnds, cdVars, movieVars, placeVars, mailVars, aheadVars,
         MailTypes, DriveTypes, PlaceTypes, MapShown, DriveOwned, ParamKind,
         BufferKept, PlaceKept, StreamAsked, Resumed, Frame, Away, MovieChain
  <2>4. CASE StreamEnds
    <3>1. /\ UNCHANGED <<cmd, param, asker, preId, nextId, enc, map, shown, came>>
          /\ loading' = loading /\ loading # 1
          /\ mov' = "DONE" /\ phase' = "cycle"
      BY <1>2, <2>4 DEF StreamEnds, MovieEnds, placeVars
    <3>2. ~Arms
      BY <1>1, <2>4 DEF StreamEnds, Arms, Parts, StreamAsked, Frame
    <3>3. chain = "idle" /\ chain' = chain /\ buffer' = buffer
      BY <2>4, <3>2 DEF StreamEnds, cdVars
    <3>4. ~stream' /\ stream' \in BOOLEAN /\ played' \in BOOLEAN
      BY <2>4 DEF StreamEnds
    <3> QED BY <1>1, <3>1, <3>3, <3>4
    DEF Parts, KeepsMovie, MailTypes, DriveTypes, PlaceTypes, MapShown, DriveOwned, ParamKind,
         BufferKept, PlaceKept, StreamAsked, Resumed, Frame, Away, MovieChain
  <2>5. CASE StreamArmed
    BY <1>1, <1>2, <2>5
    DEF StreamArmed, Arms, Parts, KeepsMovie, MovieEnds, cdVars, movieVars, placeVars, mailVars, aheadVars,
         MailTypes, DriveTypes, PlaceTypes, MapShown, DriveOwned, ParamKind,
         BufferKept, PlaceKept, StreamAsked, Resumed, Frame, Away, MovieChain
  <2>6. CASE StreamStarts
    BY <1>1, <1>2, <2>6
    DEF StreamStarts, Arms, Parts, KeepsMovie, MovieEnds, cdVars, movieVars, placeVars, mailVars, aheadVars,
         MailTypes, DriveTypes, PlaceTypes, MapShown, DriveOwned, ParamKind,
         BufferKept, PlaceKept, StreamAsked, Resumed, Frame, Away, MovieChain
  <2>7. CASE StreamRuns
    BY <1>1, <1>2, <2>7
    DEF StreamRuns, Arms, Parts, KeepsMovie, MovieEnds, cdVars, movieVars, placeVars, mailVars, aheadVars,
         MailTypes, DriveTypes, PlaceTypes, MapShown, DriveOwned, ParamKind,
         BufferKept, PlaceKept, StreamAsked, Resumed, Frame, Away, MovieChain
  <2>8. CASE Drive
    BY <1>1, <1>2, <2>8
    DEF Drive, Arms, Parts, KeepsMovie, MovieEnds, cdVars, movieVars, placeVars, mailVars, aheadVars,
         MailTypes, DriveTypes, PlaceTypes, MapShown, DriveOwned, ParamKind,
         BufferKept, PlaceKept, StreamAsked, Resumed, Frame, Away, MovieChain
  <2> QED BY <2>1, <2>2, <2>3, <2>4, <2>5, <2>6, <2>7, <2>8 DEF FieldUpdateMovieStream
<1> QED BY <1>3, <1>4 DEF CmdInv, TypeOK, Parts

\* The field is entered again.
LEMMA ReturnKeeps ==
    ASSUME CmdInv, Return
    PROVE  CmdInv' /\ KeepsMovie
<1>1. Parts /\ phase \in Away
  BY PartsHold DEF Return
<1>2. PlacesSame
  BY DEF Return, PlacesSame, scriptVars
<1>3. map' \in Place /\ (phase \in Resumed => map' = map)
  BY <1>1 DEF Return, Away, Resumed, Parts, PlaceKept
<1>4. Parts' /\ KeepsMovie
  BY <1>1, <1>3
  DEF Return, Parts, KeepsMovie, movieVars, Place,
         MailTypes, DriveTypes, PlaceTypes, MapShown, DriveOwned, ParamKind,
         BufferKept, PlaceKept, StreamAsked, Resumed, Frame, Away, MovieChain
<1> QED BY <1>2, <1>4, PartsKeep

LEMMA MainKeeps ==
    ASSUME CmdInv, FieldMain
    PROVE  CmdInv' /\ KeepsMovie
<1>1. Parts /\ TypeOK /\ phase = "load"
  BY PartsHold DEF CmdInv, FieldMain, EnterMap, ResumeMap
<1>2. /\ ~stream' /\ stream' \in BOOLEAN /\ played' \in BOOLEAN
      /\ loading' = 0 /\ preId' = NoMap /\ nextId' = NoMap
      /\ chain' = "idle" /\ phase' = "cycle" /\ cur' = 0
      /\ UNCHANGED <<plan, buffer, map, came>>
  BY DEF FieldMain
<1>3. shown' = map
  <2>1. LoadFiles => shown' = map
    BY <1>1 DEF LoadFiles, Parts, BufferKept
  <2>2. CASE EnterMap
    BY <2>1, <2>2 DEF EnterMap
  <2>3. CASE ResumeMap
    BY <1>1, <2>1, <2>3 DEF ResumeMap, Fresh, Resumed, Parts, PlaceKept, PlaceTypes, Away
  <2> QED BY <2>2, <2>3 DEF FieldMain
<1>4. ScriptTypes' /\ plan' \in Plan
  <2>1. 0 \in Entity
    BY CmdAssumption DEF Entity
  <2>2. CASE EnterMap
    <3>1. at' = [e \in Entity |-> 1] /\ on' = [e \in Entity |-> FALSE] /\ served' = {}
      BY <2>2 DEF EnterMap
    <3>2. ASSUME NEW e \in Entity
          PROVE  at'[e] \in 1 .. Len(plan'.script[e]) + (IF on'[e] THEN 0 ELSE 1)
      <4>1. plan.script[e] \in Seq(Op)
        BY <1>1, PlanTyped
      <4>2. Len(plan.script[e]) \in Nat
        BY <4>1
      <4>3. 1 \in 1 .. Len(plan.script[e]) + 1
        BY <4>2
      <4> QED BY <1>2, <3>1, <4>3
    <3> QED BY <1>1, <1>2, <2>1, <3>1, <3>2 DEF ScriptTypes, TypeOK
  <2>3. CASE ResumeMap
    <3>1. at' = at /\ on' = on /\ (served' = served \/ Serve)
      BY <2>3 DEF ResumeMap
    <3>2. served' \subseteq Entity
      BY <1>1, <3>1, ServeTyped DEF TypeOK, ScriptTypes
    <3> QED BY <1>1, <1>2, <2>1, <3>1, <3>2 DEF TypeOK, ScriptTypes
  <2> QED BY <2>2, <2>3 DEF FieldMain
<1>5. MailInv' /\ enc' \in BOOLEAN
  <2>1. MailInv /\ enc \in BOOLEAN
    BY <1>1 DEF Parts, MailInv, PlaceTypes
  <2>2. CASE EnterMap
    BY <2>1, <2>2 DEF EnterMap, MailInv, MailTypes, ParamKind
  <2>3. CASE ResumeMap
    BY <2>1, <2>3 DEF ResumeMap, MailInv, MailTypes, ParamKind
  <2> QED BY <2>2, <2>3 DEF FieldMain
<1>6. Parts' /\ KeepsMovie
  BY <1>1, <1>2, <1>3, <1>5
  DEF Parts, KeepsMovie, MailInv, Place, DriveTypes, PlaceTypes, MapShown, DriveOwned,
         BufferKept, PlaceKept, StreamAsked, Resumed, Frame, Away, MovieChain
<1> QED BY <1>4, <1>6 DEF CmdInv, TypeOK, Parts
----------------------------------------------------------------------------
LEMMA StepKeeps ==
    ASSUME CmdInv, Next
    PROVE  CmdInv' /\ KeepsMovie
<1>1. CASE Script
  <2>1. chain' = chain
    BY <1>1 DEF Script, Ask, Collect, StopMovie, MovieStopped, Wait, SkipMovie, Gmovr, Pmjmp,
                Pmjmp2, Idle, Begin, Rest, cdVars
  <2> QED BY <1>1, <2>1, ScriptKeeps DEF KeepsMovie, MovieChain
<1>2. CASE PreloadNextFieldMap
  BY <1>2, PreloadKeeps
<1>3. CASE Leave \/ PlayerMenu \/ SoftReset
  <2>1. chain' \in {chain, "idle"}
    BY <1>3 DEF Leave, PlayerMenu, SoftReset, StopFieldMapPreload
  <2> QED BY <1>3, <2>1, LeaveKeeps DEF KeepsMovie, MovieChain
<1>4. CASE ChangeMap \/ Stay \/ Walk \/ Gateway \/ Encounter
  <2>1. chain' \in {chain, "idle"}
    BY <1>4 DEF ChangeMap, Stay, Walk, Gateway, Encounter, StopFieldMapPreload, cdVars
  <2> QED BY <1>4, <2>1, FrameKeeps DEF KeepsMovie, MovieChain
<1>5. CASE FieldUpdateMovieStream \/ Drive
  BY <1>5, MovieKeeps
<1>6. CASE Return
  BY <1>6, ReturnKeeps
<1>7. CASE FieldMain
  BY <1>7, MainKeeps
<1> QED BY <1>1, <1>2, <1>3, <1>4, <1>5, <1>6, <1>7 DEF Next, Loop

LEMMA InitHolds == Init => CmdInv
<1> SUFFICES ASSUME Init PROVE CmdInv
  OBVIOUS
<1>1. plan \in Plan /\ plan.script \in [Entity -> Seq(Op)]
  BY CmdAssumption DEF Init, Plans
<1>2. ASSUME NEW e \in Entity
      PROVE  at[e] \in 1 .. Len(plan.script[e]) + (IF on[e] THEN 0 ELSE 1)
  <2>1. plan.script[e] \in Seq(Op)
    BY <1>1
  <2>2. Len(plan.script[e]) \in Nat
    BY <2>1
  <2>3. 1 \in 1 .. Len(plan.script[e]) + 1
    BY <2>2
  <2> QED BY <2>3 DEF Init
<1>3. ScriptTypes
  BY <1>2, CmdAssumption DEF Init, ScriptTypes, Entity
<1>4. ~stream /\ stream \in BOOLEAN /\ played \in BOOLEAN /\ enc \in BOOLEAN
  BY DEF Init
<1>5. /\ cmd = "NONE" /\ param = 0 /\ mov = "IDLE" /\ asker = NoEntity
      /\ chain = "idle" /\ buffer = NoMap /\ loading = 0 /\ preId = NoMap /\ nextId = NoMap
      /\ map \in Place /\ shown = NoMap /\ came = "world" /\ phase = "load"
  BY DEF Init
<1>6. Parts
  BY <1>4, <1>5
  DEF Parts, Place,
         MailTypes, DriveTypes, PlaceTypes, MapShown, DriveOwned, ParamKind,
         BufferKept, PlaceKept, StreamAsked, Resumed, Frame, Away, MovieChain
<1> QED BY <1>1, <1>3, <1>6 DEF CmdInv, TypeOK, Parts

\* An unchanged state keeps everything.
LEMMA StutterKeeps ==
    ASSUME CmdInv, UNCHANGED vars
    PROVE  CmdInv'
<1>1. PlacesSame
  BY DEF vars, scriptVars, turnVars, PlacesSame
<1>2. Parts'
  BY PartsHold
  DEF vars, mailVars, movieVars, cdVars, aheadVars, placeVars, turnVars, Parts,
         MailTypes, DriveTypes, PlaceTypes, MapShown, DriveOwned, ParamKind,
         BufferKept, PlaceKept, StreamAsked, Resumed, Frame, Away, MovieChain
<1> QED BY <1>1, <1>2, PartsKeep

\* Every command has a parameter of its kind and every state has its types.
THEOREM CmdInvariant == Spec => []CmdInv
<1>1. CmdInv /\ [Next]_vars => CmdInv'
  BY StepKeeps, StutterKeeps
<1> QED BY <1>1, InitHolds, PTL DEF Spec

\* The field's variables keep their types, and every script stands at one of
\* its opcodes or past the last.
THEOREM CmdTypes == Spec => []TypeOK
<1>1. CmdInv => TypeOK
  BY DEF CmdInv
<1> QED BY <1>1, CmdInvariant, PTL

\* Whatever the player and the scripts do to the mailbox and to the map that is
\* read ahead, FieldMain shows the map it is on.
THEOREM MapAlwaysShown == Spec => []MapShown
<1>1. CmdInv => MapShown
  BY DEF CmdInv
<1> QED BY <1>1, CmdInvariant, PTL

\* The CD drive has one user: no read ahead is left behind when the field is left,
\* and a movie on the drive is known to be there.
THEOREM OneDriveUser == Spec => []DriveOwned
<1>1. CmdInv => DriveOwned
  BY DEF CmdInv
<1> QED BY <1>1, CmdInvariant, PTL

\* PreloadNextFieldMap never reads over a movie that is loaded or played.
THEOREM MoviesKept == Spec => MovieKept
<1>1. CmdInv /\ [Next]_vars => [KeepsMovie]_vars
  BY StepKeeps
<1> QED BY <1>1, CmdInvariant, PTL DEF Spec, MovieKept
----------------------------------------------------------------------------
(***************************************************************************)
(* Whose command is in the mailbox.  While the player is held it is an     *)
(* opcode's that is still there, the menu that is not waited for, or one   *)
(* nobody is told the end of; and it is done when its asker has been       *)
(* served.  DSKCG leaves an old DONE in the mailbox, but the next thing    *)
(* the frame does then is to change the disc.                              *)
(***************************************************************************)
OpOf(e) == plan.script[e][at[e]]
AskedBy(e) == /\ on[e] /\ OpOf(e).op \in Mailbox /\ OpOf(e).cmd = cmd
              /\ ~(plan.mvlck /\ OpOf(e).op \in {"PMVIE", "MOVIE"})
OpenMenu  == cmd = "PARTY" /\ param = 0
DiscAhead == /\ cmd = "DISC"
             /\ \/ phase \in {"preload", "exits", "disc", "load"}
                \/ phase = "cycle" /\ asker < cur
DoneForIt == mov = "DONE" => asker \in served \/ DiscAhead

Stays == phase \in {"engine", "movie"} => Target = "exits"
MenuPlace == OpenMenu => phase \in {"cycle", "preload", "exits", "menu"}
NobodyAsked ==
    asker = NoEntity => cmd \in {"NONE", "RESET"} \/ (OpenMenu /\ phase = "menu")
SomebodyAsked ==
    asker \in Entity /\ cmd \notin {"NONE", "OVER", "RESET"} =>
        \/ OpenMenu /\ mov # "DONE"
        \/ AskedBy(asker) /\ DoneForIt
AskParts == ~enc /\ Stays /\ MenuPlace /\ NobodyAsked /\ SomebodyAsked
AskInv   == ~plan.free => AskParts

LEMMA EntitiesOnly == NoEntity \notin Entity /\ \A e \in Entity : e \in Nat
BY CmdAssumption DEF NoEntity, Entity

\* The opcode that asked is still there when neither it nor the command moves.
LEMMA StillAsked ==
    ASSUME AskedBy(asker), UNCHANGED <<plan, cmd, asker>>,
           at'[asker] = at[asker], on'[asker] = on[asker]
    PROVE  AskedBy(asker)'
BY DEF AskedBy, OpOf

\* A script that goes on leaves the others where they are.
LEMMA OthersStand ==
    ASSUME TypeOK, Steps, NEW e \in Entity, e # cur
    PROVE  at'[e] = at[e] /\ on'[e] = on[e]
BY DEF TypeOK, ScriptTypes, Steps

\* What an opcode of the mailbox is, by what it asks for.
LEMMA OpKinds ==
    ASSUME NEW o \in Op
    PROVE  /\ o.op \in Mailbox => o.cmd \notin {"NONE", "OVER", "RESET"}
           /\ o.op = "MOVIE" => o.cmd = "PLAY"
           /\ o.cmd = "PARTY" => o.op = "MENU"
           /\ o.op = "DSKCG" => o.cmd = "DISC"
           /\ o.op \in {"PMJMP", "PMJMP2", "GMOVR"} => o.op \notin Mailbox
BY DEF Op, Polled, Other, Mailbox, MenuCmd

\* A script that waits for the change of disc does so for the rest of the frame.
LEMMA TurnAhead ==
    ASSUME phase = "cycle", cur \in Entity, asker \in Entity, UNCHANGED <<cmd, asker>>,
           DiscAhead, TurnEnds \/ UNCHANGED turnVars
    PROVE  DiscAhead'
<1>1. asker \in Nat /\ cur \in Nat /\ asker < cur /\ cmd = "DISC"
  BY EntitiesOnly DEF DiscAhead
<1>2. CASE TurnEnds
  BY <1>1, <1>2 DEF DiscAhead, TurnEnds
<1>3. CASE UNCHANGED turnVars
  BY <1>1, <1>3 DEF DiscAhead, turnVars
<1> QED BY <1>2, <1>3

\* A turn that does not write to the mailbox, of another script than the one that
\* asked or of one that only goes on waiting.
LEMMA OthersTurn ==
    ASSUME CmdInv, AskParts, phase = "cycle", Rest, UNCHANGED mailVars,
           TurnEnds \/ UNCHANGED turnVars,
           asker \in Entity => (asker \in served => asker \in served'),
           asker \in Entity /\ AskedBy(asker) => at'[asker] = at[asker] /\ on'[asker] = on[asker]
    PROVE  AskParts'
<1>1. phase' \in {"cycle", "preload"} /\ cur \in Entity
  BY TurnTyped DEF turnVars, CmdInv, TypeOK, ScriptTypes
<1>2. UNCHANGED <<cmd, param, mov, asker, plan, enc>>
  BY DEF mailVars, Rest, placeVars
<1>3. ~enc' /\ Stays' /\ MenuPlace' /\ NobodyAsked'
  BY <1>1, <1>2 DEF AskParts, Stays, MenuPlace, NobodyAsked, OpenMenu
<1>4. SomebodyAsked'
  <2>1. SUFFICES ASSUME asker \in Entity, cmd \notin {"NONE", "OVER", "RESET"}
                 PROVE  (OpenMenu /\ mov # "DONE")' \/ (AskedBy(asker) /\ DoneForIt)'
    BY <1>2 DEF SomebodyAsked
  <2>2. CASE OpenMenu /\ mov # "DONE"
    BY <1>2, <2>2 DEF OpenMenu
  <2>3. CASE AskedBy(asker) /\ DoneForIt
    <3>1. AskedBy(asker)'
      BY <1>2, <2>1, <2>3, StillAsked
    <3>2. DiscAhead => DiscAhead'
      BY <1>1, <1>2, <2>1, TurnAhead
    <3>3. DoneForIt'
      BY <1>2, <2>1, <2>3, <3>2 DEF DoneForIt
    <3> QED BY <3>1, <3>3
  <2> QED BY <2>1, <2>2, <2>3 DEF AskParts, SomebodyAsked
<1> QED BY <1>3, <1>4 DEF AskParts

LEMMA AskScript ==
    ASSUME CmdInv, AskParts, Script
    PROVE  AskParts'
<1>1. /\ TypeOK /\ phase = "cycle" /\ Rest
      /\ cur \in Entity /\ plan' = plan /\ enc' = enc /\ cur \in Nat /\ cur # NoEntity
  BY EntitiesOnly DEF CmdInv, TypeOK, ScriptTypes, Rest, placeVars, Script, Ask, Collect, StopMovie,
         MovieStopped, Wait, SkipMovie, Gmovr, Pmjmp, Pmjmp2, Idle, Begin, Polling
<1>2. phase' \in {"cycle", "preload"}
  BY ScriptPlaces
<1>3. ~enc' /\ Stays'
  BY <1>1, <1>2 DEF AskParts, Stays
<1>4. CASE Ask
  <2>1. Here \in Op /\ Here.op \in Mailbox /\ ~Locked /\ on[cur]
    BY <1>1, <1>4, HereTyped DEF Ask, Polling
  <2>2. /\ cmd' = Here.cmd /\ param' = Here.arg /\ asker' = cur
        /\ mov' = IF Here.op = "DSKCG" THEN mov ELSE "IDLE"
    BY <1>4 DEF Ask
  <2>3. MenuPlace' /\ NobodyAsked'
    BY <1>1, <1>2, <2>2 DEF MenuPlace, NobodyAsked
  <2>4. SomebodyAsked'
    <3>1. CASE Here.cmd = "PARTY" /\ Here.arg = 0
      <4>1. Here.op = "MENU"
        BY <2>1, <3>1, OpKinds
      <4>2. cmd' = "PARTY" /\ param' = 0 /\ mov' = "IDLE"
        BY <2>2, <3>1, <4>1
      <4> QED BY <4>2 DEF SomebodyAsked, OpenMenu
    <3>2. CASE ~(Here.cmd = "PARTY" /\ Here.arg = 0)
      <4>1. at' = at /\ on' = on
        BY <1>4, <3>2 DEF Ask
      <4>2. OpOf(cur)' = plan.script[cur'][at[cur']] /\ OpOf(asker)' = Here
        BY <1>1, <2>2, <4>1 DEF OpOf, Here
      <4>3. AskedBy(asker)'
        BY <1>1, <2>1, <2>2, <4>1, <4>2 DEF AskedBy, Locked, Here
      <4>4. CASE Here.op = "DSKCG"
        <5>1. cmd' = "DISC"
          BY <2>1, <2>2, <4>4, OpKinds
        <5>2. phase' = "preload" \/ (phase' = "cycle" /\ cur' = cur + 1)
          BY <1>4 DEF Ask, TurnEnds
        <5>3. DiscAhead'
          BY <1>1, <2>2, <5>1, <5>2 DEF DiscAhead
        <5> QED BY <4>3, <5>3 DEF SomebodyAsked, DoneForIt
      <4>5. CASE Here.op # "DSKCG"
        BY <2>2, <4>3, <4>5 DEF SomebodyAsked, DoneForIt
      <4> QED BY <4>4, <4>5
    <3> QED BY <3>1, <3>2
  <2> QED BY <1>3, <2>3, <2>4 DEF AskParts
<1>5. CASE Collect
  BY <1>3, <1>5 DEF Collect, AskParts, MenuPlace, NobodyAsked, SomebodyAsked, OpenMenu
<1>6. CASE StopMovie
  <2>1. /\ Here.cmd = "STOP" /\ Here.op = "MENU" /\ on[cur]
        /\ cmd' = "STOP" /\ mov' = "IDLE" /\ asker' = cur /\ at' = at /\ on' = on
    BY <1>6 DEF StopMovie, Polling, PollAgain
  <2>2. AskedBy(asker)'
    BY <1>1, <2>1 DEF AskedBy, OpOf, Here, Mailbox
  <2> QED BY <1>1, <1>3, <2>1, <2>2
          DEF AskParts, MenuPlace, NobodyAsked, SomebodyAsked, OpenMenu, DoneForIt
<1>7. CASE Gmovr
  BY <1>1, <1>3, <1>7 DEF Gmovr, AskParts, MenuPlace, NobodyAsked, SomebodyAsked, OpenMenu
<1>8. CASE Wait \/ Idle
  BY <1>1, <1>8, OthersTurn DEF Wait, Idle, PollAgain, scriptVars
<1>9. CASE Begin
  <2>1. /\ UNCHANGED mailVars /\ UNCHANGED turnVars /\ at' = at /\ ~on[cur]
        /\ on' = [on EXCEPT ![cur] = TRUE] /\ served' = served \ {cur}
    BY <1>9 DEF Begin
  <2>2. SUFFICES ASSUME asker \in Entity, ~AskedBy(asker)
                 PROVE  AskParts'
    <3>1. asker \in Entity /\ AskedBy(asker) => asker # cur
      BY <2>1 DEF AskedBy
    <3>2. asker \in Entity /\ AskedBy(asker) => at'[asker] = at[asker] /\ on'[asker] = on[asker]
      BY <1>1, <2>1, <3>1 DEF TypeOK, ScriptTypes
    <3>3. CASE asker \in Entity => AskedBy(asker)
      BY <1>1, <2>1, <3>1, <3>2, <3>3, OthersTurn
    <3>4. CASE ~(asker \in Entity => AskedBy(asker))
      BY <2>2, <3>4
    <3> QED BY <3>3, <3>4
  <2>3. UNCHANGED <<cmd, param, mov, asker, phase>>
    BY <2>1 DEF mailVars, turnVars
  <2>4. asker # NoEntity
    BY <2>2, EntitiesOnly
  <2>5. MenuPlace' /\ NobodyAsked'
    BY <2>3, <2>4 DEF AskParts, MenuPlace, NobodyAsked, OpenMenu
  <2>6. SomebodyAsked'
    BY <2>2, <2>3 DEF AskParts, SomebodyAsked, OpenMenu
  <2> QED BY <1>3, <2>5, <2>6 DEF AskParts
<1>10. CASE MovieStopped \/ SkipMovie \/ Pmjmp \/ Pmjmp2
  <2>1. Here \in Op /\ on[cur]
    BY <1>1, <1>10, HereTyped DEF MovieStopped, SkipMovie, Pmjmp, Pmjmp2, Polling
  <2>2. /\ UNCHANGED mailVars /\ served' = served
        /\ TurnEnds \/ UNCHANGED turnVars
        /\ Steps \/ UNCHANGED <<at, on>>
    BY <1>10 DEF MovieStopped, SkipMovie, Pmjmp, Pmjmp2, OpEnds, PollAgain
  <2>3. asker \in Entity /\ AskedBy(asker) => asker # cur
    <3>1. SUFFICES ASSUME AskedBy(cur) PROVE FALSE
      OBVIOUS
    <3>2. /\ Here.op \in Mailbox /\ Here.cmd = cmd /\ ~Locked
      BY <3>1 DEF AskedBy, OpOf, Here, Locked
    <3>3. CASE MovieStopped
      <4>1. Here.op = "MOVIE" /\ cmd = "STOP"
        BY <3>3 DEF MovieStopped, Polling
      <4> QED BY <2>1, <3>2, <4>1, OpKinds
    <3>4. CASE SkipMovie
      BY <3>2, <3>4 DEF SkipMovie
    <3>5. CASE Pmjmp \/ Pmjmp2
      BY <2>1, <3>2, <3>5, OpKinds DEF Pmjmp, Pmjmp2, Polling
    <3> QED BY <1>10, <3>3, <3>4, <3>5
  <2>4. asker \in Entity /\ AskedBy(asker) => at'[asker] = at[asker] /\ on'[asker] = on[asker]
    BY <1>1, <2>2, <2>3, OthersStand
  <2> QED BY <1>1, <2>2, <2>4, OthersTurn
<1> QED BY <1>4, <1>5, <1>6, <1>7, <1>8, <1>9, <1>10 DEF Script

\* The frame's other steps leave the scripts where they are.
LEMMA StillDone ==
    ASSUME CmdInv, AskParts, UNCHANGED <<plan, at, on, cmd, asker>>,
           cmd \notin {"NONE", "OVER", "RESET"}, asker \in Entity, ~OpenMenu,
           mov' = "DONE" => \/ asker \in served'
                            \/ mov = "DONE" /\ served' = served /\ (DiscAhead => DiscAhead')
    PROVE  (AskedBy(asker) /\ DoneForIt)'
<1>1. AskedBy(asker) /\ DoneForIt
  BY DEF AskParts, SomebodyAsked
<1>2. AskedBy(asker)'
  BY <1>1, StillAsked
<1> QED BY <1>1, <1>2 DEF DoneForIt

LEMMA AskLoop ==
    ASSUME CmdInv, AskParts, ~plan.free, Loop
    PROVE  AskParts'
<1>1. asker \in Entity \/ asker = NoEntity
  BY DEF CmdInv, TypeOK, MailTypes
<1>2. CASE SoftReset
  BY <1>2 DEF SoftReset, placeVars, AskParts, Stays, MenuPlace, NobodyAsked, SomebodyAsked, OpenMenu
<1>3. CASE PlayerMenu
  BY <1>3, EntitiesOnly
  DEF PlayerMenu, placeVars, AskParts, Stays, MenuPlace, NobodyAsked, SomebodyAsked, OpenMenu
<1>4. CASE PreloadNextFieldMap \/ Leave \/ Stay \/ ChangeMap \/ Walk
  <2>1. UNCHANGED <<plan, at, on, cmd, param, mov, asker, served, enc, cur>>
    BY <1>4 DEF PreloadNextFieldMap, Leave, Stay, ChangeMap, Walk, mailVars, scriptVars, placeVars
  <2>2. \/ phase = "preload" /\ phase' = "exits"
        \/ phase = "exits" /\ phase' = Target /\ Target # "exits"
        \/ phase = "exits" /\ phase' = "engine" /\ Target = "exits" /\ cmd # "MAP"
        \/ phase = "exits" /\ phase' \in {"world", "load"} /\ cmd = "MAP"
        \/ phase = "engine" /\ phase' = "movie"
    BY <1>4 DEF PreloadNextFieldMap, Leave, Stay, ChangeMap, Walk
  <2>3. /\ Target \in (Away \ {"world"}) \cup {"exits"}
        /\ cmd = "DISC" => Target = "disc"
        /\ OpenMenu => Target = "menu"
        /\ cmd \in {"NONE", "RESET", "MAP"} => Target = "exits"
        /\ Target' = Target
    BY <2>1 DEF Target, Away, MenuCmd, OpenMenu
  <2>4. ~enc' /\ Stays'
    BY <2>1, <2>2, <2>3 DEF AskParts, Stays, Away
  <2>5. OpenMenu' <=> OpenMenu
    BY <2>1 DEF OpenMenu
  <2>6. OpenMenu => cmd # "MAP"
    BY DEF OpenMenu
  <2>7. MenuPlace'
    BY <2>2, <2>3, <2>5, <2>6 DEF AskParts, MenuPlace
  <2>8. NobodyAsked'
    BY <2>1, <2>2, <2>3, <2>5 DEF AskParts, NobodyAsked
  <2>9. SomebodyAsked'
    <3>1. DiscAhead => DiscAhead'
      BY <2>1, <2>2, <2>3 DEF DiscAhead, AskParts, Stays
    <3>2. CASE OpenMenu
      BY <2>1, <2>5, <3>2 DEF AskParts, SomebodyAsked, AskedBy, OpOf, DoneForIt, DiscAhead, OpenMenu
    <3>3. CASE ~OpenMenu
      BY <2>1, <3>1, <3>3, StillDone DEF SomebodyAsked
    <3> QED BY <3>2, <3>3
  <2> QED BY <2>4, <2>7, <2>8, <2>9 DEF AskParts
<1>5. ~Gateway /\ ~Encounter
  BY DEF Gateway, Encounter
<1> QED BY <1>2, <1>3, <1>4, <1>5 DEF Loop

LEMMA AskMovie ==
    ASSUME CmdInv, AskParts, FieldUpdateMovieStream \/ Drive
    PROVE  AskParts'
<1>1. /\ UNCHANGED <<plan, cmd, param, asker, at, on, enc, cur>>
      /\ phase = "movie" /\ phase' \in {"cycle", "movie"}
      /\ \/ served' = served /\ mov' \in {mov, "ACTIVE"}
         \/ Serve
  BY DEF FieldUpdateMovieStream, ReadAhead, StreamStops, StreamArms, StreamEnds, MovieEnds,
         StreamArmed, StreamStarts, StreamRuns, Drive, MovieRest, mailVars, scriptVars, turnVars, placeVars
<1>2. ~OpenMenu /\ (OpenMenu' <=> OpenMenu) /\ Target' = Target
  BY <1>1 DEF AskParts, MenuPlace, OpenMenu, Target
<1>3. ~enc' /\ Stays' /\ MenuPlace' /\ NobodyAsked'
  BY <1>1, <1>2 DEF AskParts, Stays, MenuPlace, NobodyAsked
<1>4. ~DiscAhead
  BY <1>1 DEF DiscAhead
<1>5. asker \in Entity /\ Serve => asker \in served'
  BY DEF Serve
<1>6. SomebodyAsked'
  BY <1>1, <1>2, <1>4, <1>5, StillDone DEF SomebodyAsked
<1> QED BY <1>3, <1>6 DEF AskParts

LEMMA AskReturn ==
    ASSUME CmdInv, AskParts, Return
    PROVE  AskParts'
<1>1. /\ UNCHANGED <<plan, param, asker, mov, at, on, served, enc, cur>>
      /\ phase \in Away /\ phase' = "load"
      /\ cmd' = IF phase = "menu" /\ OpenMenu THEN "NONE" ELSE cmd
  BY DEF Return, scriptVars, OpenMenu
<1>2. OpenMenu => phase = "menu"
  BY <1>1 DEF AskParts, MenuPlace, Away
<1>3. CASE OpenMenu
  BY <1>1, <1>2, <1>3 DEF AskParts, Stays, MenuPlace, NobodyAsked, SomebodyAsked, OpenMenu
<1>4. CASE ~OpenMenu
  <2>1. cmd' = cmd /\ (OpenMenu' <=> OpenMenu)
    BY <1>1, <1>4 DEF OpenMenu
  <2>2. ~enc' /\ Stays' /\ MenuPlace' /\ NobodyAsked'
    BY <1>1, <1>4, <2>1 DEF AskParts, Stays, MenuPlace, NobodyAsked
  <2>3. DiscAhead => DiscAhead'
    BY <1>1, <2>1 DEF DiscAhead, Away
  <2>4. SomebodyAsked'
    BY <1>1, <1>4, <2>1, <2>3, StillDone DEF SomebodyAsked
  <2> QED BY <2>2, <2>4 DEF AskParts
<1> QED BY <1>3, <1>4

LEMMA AskMain ==
    ASSUME CmdInv, AskParts, FieldMain
    PROVE  AskParts'
<1>1. phase = "load" /\ phase' = "cycle" /\ plan' = plan
  BY DEF FieldMain, EnterMap, ResumeMap
<1>2. CASE EnterMap
  BY <1>1, <1>2 DEF EnterMap, AskParts, Stays, MenuPlace, NobodyAsked, SomebodyAsked, OpenMenu
<1>3. CASE ResumeMap
  <2>1. UNCHANGED <<cmd, param, asker, at, on, enc>> /\ Serve
    BY <1>3 DEF ResumeMap, AskParts
  <2>2. ~OpenMenu /\ (OpenMenu' <=> OpenMenu)
    BY <1>1, <2>1 DEF AskParts, MenuPlace, OpenMenu
  <2>3. ~enc' /\ Stays' /\ MenuPlace' /\ NobodyAsked'
    BY <1>1, <2>1, <2>2 DEF AskParts, Stays, MenuPlace, NobodyAsked
  <2>4. asker \in Entity => asker \in served'
    BY <2>1 DEF Serve
  <2>5. SomebodyAsked'
    BY <1>1, <2>1, <2>2, <2>4, StillDone DEF SomebodyAsked
  <2> QED BY <2>3, <2>5 DEF AskParts
<1> QED BY <1>2, <1>3 DEF FieldMain

LEMMA AskKeeps ==
    ASSUME CmdInv, AskInv, [Next]_vars
    PROVE  AskInv'
<1>1. plan' = plan
  BY DEF Next, Script, Ask, Collect, StopMovie, MovieStopped, Wait, SkipMovie, Gmovr, Pmjmp, Pmjmp2,
         Idle, Begin, Rest, Loop, PreloadNextFieldMap, SoftReset, Leave, PlayerMenu, Stay, ChangeMap,
         Walk, Gateway, Encounter, FieldUpdateMovieStream, ReadAhead, StreamStops, StreamArms,
         StreamEnds, StreamArmed, StreamStarts, StreamRuns, MovieRest, Drive, Return, FieldMain, vars
<1>2. SUFFICES ASSUME ~plan.free, AskParts
               PROVE  AskParts'
  BY <1>1 DEF AskInv
<1>3. CASE UNCHANGED vars
  BY <1>2, <1>3
  DEF vars, mailVars, scriptVars, movieVars, cdVars, aheadVars, placeVars, turnVars, AskParts, Stays,
      Target, MenuPlace, NobodyAsked, SomebodyAsked, OpenMenu, AskedBy, OpOf, DoneForIt, DiscAhead
<1> QED BY <1>2, <1>3, AskScript, AskLoop, AskMovie, AskReturn, AskMain DEF Next

\* What is in the mailbox while the player is held is its asker's, and is done
\* for that one.
LEMMA AskInvariant == Spec => []AskInv
<1>1. Init => AskInv
  BY DEF Init, AskInv, AskParts, Stays, MenuPlace, NobodyAsked, SomebodyAsked, OpenMenu
<1> QED BY <1>1, AskKeeps, CmdInvariant, PTL DEF Spec

\* While the player is held, an opcode of BATTLE, MENU, MOVIE and the like ends
\* when what it asked for itself has been done, and not before, if no two entities
\* of a map ask for the same thing.
THEOREM CommandsAreOwn ==
    ASSUME OneAsker
    PROVE  Spec => OwnCommandServed
<1>1. ASSUME CmdInv, AskInv, ~plan.free, Collect
      PROVE  cur \in served
  <2>1. TypeOK /\ AskParts /\ phase = "cycle" /\ on[cur] /\ Here.op \in Mailbox
    BY <1>1 DEF CmdInv, AskInv, Collect, Polling
  <2>2. cmd = Here.cmd /\ mov = "DONE" /\ Here \in Op /\ cur \in Entity /\ plan \in Plan
    BY <1>1, <2>1, HereTyped DEF Collect, TypeOK, ScriptTypes
  <2>3. cmd \notin {"NONE", "OVER", "RESET"}
    BY <2>1, <2>2, OpKinds
  <2>4. asker \in Entity
    BY <2>1, <2>3 DEF AskParts, NobodyAsked, TypeOK, MailTypes
  <2>5. AskedBy(asker) /\ (asker \in served \/ DiscAhead)
    BY <2>1, <2>2, <2>3, <2>4 DEF AskParts, SomebodyAsked, DoneForIt
  <2>6. ASSUME NEW e \in Entity, on[e]
        PROVE  at[e] \in 1 .. Len(plan.script[e])
    <3>1. at[e] \in 1 .. Len(plan.script[e]) + (IF on[e] THEN 0 ELSE 1)
      BY <2>1 DEF TypeOK, ScriptTypes
    <3>2. plan.script[e] \in Seq(Op)
      BY <2>1, PlanTyped
    <3>3. Len(plan.script[e]) \in Nat /\ on[e] \in BOOLEAN
      BY <2>1, <3>2 DEF TypeOK, ScriptTypes
    <3> QED BY <2>6, <3>1, <3>3, Standing
  <2>7. at[cur] \in 1 .. Len(plan.script[cur]) /\ at[asker] \in 1 .. Len(plan.script[asker])
    BY <2>1, <2>2, <2>4, <2>5, <2>6 DEF AskedBy
  <2>8. OpOf(asker).op \in Mailbox /\ OpOf(asker).cmd = cmd
    BY <2>5 DEF AskedBy
  <2>9. asker = cur
    BY <1>1, <2>2, <2>4, <2>7, <2>8, OneAsker DEF OneAsker, OpOf, Here
  <2>10. ~DiscAhead
    BY <2>1, <2>2, <2>9, EntitiesOnly DEF DiscAhead
  <2> QED BY <2>5, <2>9, <2>10
<1>2. CmdInv /\ AskInv /\ [Next]_vars => [~plan.free /\ Collect => cur \in served]_vars
  BY <1>1
<1> QED BY <1>2, CmdInvariant, AskInvariant, PTL DEF Spec, OwnCommandServed
=============================================================================
