--------------------------- MODULE FieldEventCmd ----------------------------
(***************************************************************************)
(* The command mailbox of the field module: scripts ask the frame loop for *)
(* another map, a battle, a menu, a movie (g_FieldState->eventCmd) and poll *)
(* movieCommandState until they are told that it is done.  The mailbox has *)
(* one place, and is written to by the player's menu button, the gateways  *)
(* and the random encounters as well.                                      *)
(*                                                                         *)
(* The CD drive is shared with it: while the player walks, the next map is *)
(* read ahead, and a movie needs the drive, and the buffer, for itself.    *)
(*                                                                         *)
(* Code: FieldMain, FieldMainLoop and the preload in src/src/field/field.c, *)
(* FieldUpdateMovieStream, FieldBattleCheck in field2.c, the opcodes in    *)
(* field4.c and field5.c.  The program's main(), the other modules and the *)
(* CD driver are assembly: what they do is modelled from what the field    *)
(* module expects of them.                                                 *)
(***************************************************************************)
EXTENDS Integers, Sequences

CONSTANTS
    NumEntities,    \* g_FieldScripts->numEntities
    Map,            \* field ids
    World,          \* those that stand for places on the world map (id <= 0x40)
    Big,            \* those whose file is too large to be read ahead
    Movie,          \* movie ids
    NoMap,          \* no field id (0)
    Plan            \* see Plans

Entity   == 0 .. NumEntities - 1
NoEntity == 255
Place    == Map \ World

(***************************************************************************)
(* Commands: EVTCMD_FIELD_MAP_CHANGE, _ENTERING_BATTLE, _LOAD_MOVIE,       *)
(* _PLAY_MOVIE, _LOAD_MINIGAME, _CD_CHANGE, _UNK14, _GAME_OVER and, of     *)
(* those that only MENU issues, name entry and the party's menu, the       *)
(* special events 0xF .. 0x18 and the credits (5); 0xA is the soft reset.  *)
(***************************************************************************)
MenuCmd == {"NAME", "PARTY"}
Command == {"MAP", "BATTLE", "LOAD", "PLAY", "GAME", "DISC", "STOP", "OVER",
            "EVENT", "CREDITS", "RESET"} \cup MenuCmd

\* An opcode: the command it asks for and its parameter.  TUTOR is MENU's PARTY.
Polled == [op : {"BATLE"}, cmd : {"BATTLE"}, arg : {0}]
     \cup [op : {"MJUMP"}, cmd : {"MAP"}, arg : Map]
     \cup [op : {"MGAME"}, cmd : {"GAME"}, arg : Place]
     \cup [op : {"DSKCG"}, cmd : {"DISC"}, arg : {0}]
     \cup [op : {"MENU"}, cmd : MenuCmd \cup {"EVENT", "STOP", "CREDITS"}, arg : {0, 1}]
     \cup [op : {"PMVIE"}, cmd : {"LOAD"}, arg : Movie]
     \cup [op : {"MOVIE"}, cmd : {"PLAY"}, arg : {0}]
Other  == [op : {"GMOVR"}, cmd : {"OVER"}, arg : {0}]
     \cup [op : {"PMJMP"}, cmd : {"NONE"}, arg : Map]
     \cup [op : {"PMJMP2"}, cmd : {"NONE"}, arg : {0}]
Op     == Polled \cup Other

\* What the scripts of the maps do, the maps' gateways, and whether the player
\* may walk, open the menu, and whether movies are switched off (MVLCK).
Plans == [script : [Entity -> Seq(Op)], gates : SUBSET Map,
          free : BOOLEAN, menu : BOOLEAN, mvlck : BOOLEAN]

ASSUME CmdAssumption ==
    /\ NumEntities \in 1 .. 255
    /\ World \subseteq Map /\ Place # {}
    /\ NoMap \notin Map
    /\ Map \cap {0, 1} = {} /\ Movie \cap (Map \cup {0, 1}) = {}
    /\ Plan \subseteq Plans

VARIABLES
    plan,       \* the scripts and the player of this game
    cmd,        \* eventCmd
    param,      \* eventCmdParam
    mov,        \* movieCommandState
    asker,      \* (history) the entity whose command is in the mailbox
    served,     \* (history) entities whose opcode has been served
    at,         \* the next mailbox opcode of each entity's script
    on,         \* whether the entity has come to it
    played,     \* g_FieldMoviePlayed
    stream,     \* g_FieldMovieStreamActive
    chain,      \* what SystemCdromReadChain is about
    buffer,     \* what is, or is being, read to 0x801B0000
    loading,    \* g_isFieldLoading
    preId,      \* D_80071A5C, the map read ahead
    nextId,     \* g_FieldPreloadMapId, the one to be read ahead
    enc,        \* D_8007EBC8: the battle is a random one
    map,        \* g_CurrentFieldIndex
    shown,      \* the map whose data is in memory
    came,       \* D_800965EC, where the field was entered from
    phase,      \* where FieldMain and FieldMainLoop are
    cur         \* g_CurrentEntity

mailVars   == <<cmd, param, mov, asker>>
scriptVars == <<at, on, served>>
movieVars  == <<played, stream>>
cdVars     == <<chain, buffer>>
aheadVars  == <<loading, preId, nextId>>
placeVars  == <<enc, map, shown, came>>
turnVars   == <<phase, cur>>
vars == <<plan, mailVars, scriptVars, movieVars, cdVars, aheadVars, placeVars, turnVars>>

Frame == {"cycle", "preload", "exits", "engine", "movie"}
Away  == {"title", "world", "game", "battle", "disc", "menu", "event"}
MovieChain == {"movie", "ready", "playing"}

Init ==
    /\ plan \in Plan
    /\ cmd = "NONE" /\ param = 0 /\ mov = "IDLE" /\ asker = NoEntity
    /\ at = [e \in Entity |-> 1]
    /\ on = [e \in Entity |-> FALSE]
    /\ served = {}
    /\ played = FALSE /\ stream = FALSE
    /\ chain = "idle" /\ buffer = NoMap
    /\ loading = 0 /\ preId = NoMap /\ nextId = NoMap
    /\ enc = FALSE
    /\ map \in Place /\ shown = NoMap /\ came = "world"
    /\ phase = "load" /\ cur = 0
----------------------------------------------------------------------------
(***************************************************************************)
(* The opcodes.  A script is the sequence of its mailbox opcodes; what it  *)
(* does between two of them, and after the last, takes any time.           *)
(***************************************************************************)
Here == plan.script[cur][at[cur]]
Polling(ops) == /\ phase = "cycle"
                /\ on[cur] /\ Here.op \in ops

TurnEnds == IF cur + 1 = NumEntities THEN phase' = "preload" /\ cur' = 0
                                     ELSE phase' = "cycle" /\ cur' = cur + 1
Steps == /\ at' = [at EXCEPT ![cur] = @ + 1]
         /\ on' = [on EXCEPT ![cur] = FALSE]
PollAgain == TurnEnds /\ UNCHANGED <<at, on>>
OpEnds    == Steps /\ (UNCHANGED turnVars \/ TurnEnds)

Rest == UNCHANGED <<plan, movieVars, cdVars, loading, preId, placeVars>>

Mailbox == {"BATLE", "MJUMP", "MGAME", "DSKCG", "MENU", "PMVIE", "MOVIE"}
Locked  == plan.mvlck /\ Here.op \in {"PMVIE", "MOVIE"}

\* The mailbox is empty: the opcode puts its command there.  DSKCG leaves the
\* state as it finds it.  The menu of MENU 9, 0 is not waited for.
AskKeepsState ==
    /\ Polling(Mailbox) /\ ~Locked
    /\ cmd = "NONE"
    /\ cmd' = Here.cmd /\ param' = Here.arg /\ asker' = cur
    /\ UNCHANGED mov
    /\ IF Here.cmd = "PARTY" /\ Here.arg = 0 THEN Steps ELSE UNCHANGED <<at, on>>
    /\ TurnEnds
    /\ UNCHANGED <<served, nextId>> /\ Rest
Ask ==
    /\ Polling(Mailbox) /\ ~Locked
    /\ cmd = "NONE"
    /\ cmd' = Here.cmd /\ param' = Here.arg /\ asker' = cur
    /\ mov' = IF Here.op = "DSKCG" THEN mov ELSE "IDLE"
    /\ IF Here.cmd = "PARTY" /\ Here.arg = 0 THEN Steps ELSE UNCHANGED <<at, on>>
    /\ TurnEnds
    /\ UNCHANGED <<served, nextId>> /\ Rest

\* The command is the opcode's and is done, whoever asked for it.
Collect ==
    /\ Polling(Mailbox) /\ ~Locked
    /\ cmd = Here.cmd /\ mov = "DONE"
    /\ cmd' = "NONE"
    /\ mov' = IF Here.op \in {"MJUMP", "MGAME", "DSKCG"} THEN mov ELSE "IDLE"
    /\ OpEnds
    /\ UNCHANGED <<param, asker, served, nextId>> /\ Rest

\* MENU 0x14 takes the place of the movie that is playing ...
StopMovie ==
    /\ Polling({"MENU"}) /\ Here.cmd = "STOP"
    /\ cmd = "PLAY"
    /\ cmd' = "STOP" /\ mov' = "IDLE" /\ asker' = cur
    /\ PollAgain
    /\ UNCHANGED <<param, served, nextId>> /\ Rest

\* ... and the MOVIE that waits for it goes on.
MovieStopped ==
    /\ Polling({"MOVIE"}) /\ ~Locked
    /\ cmd = "STOP"
    /\ OpEnds
    /\ UNCHANGED <<mailVars, served, nextId>> /\ Rest

Waits == /\ cmd # "NONE" /\ ~(cmd = Here.cmd /\ mov = "DONE")
         /\ ~(Here.cmd = "STOP" /\ cmd = "PLAY")
         /\ ~(Here.op = "MOVIE" /\ cmd = "STOP")
Wait ==
    /\ Polling(Mailbox) /\ ~Locked /\ Waits
    /\ PollAgain
    /\ UNCHANGED <<mailVars, served, nextId>> /\ Rest

SkipMovie ==
    /\ Polling(Mailbox) /\ Locked
    /\ OpEnds
    /\ UNCHANGED <<mailVars, served, nextId>> /\ Rest

\* The game is over whatever else was asked for.
Gmovr ==
    /\ Polling({"GMOVR"})
    /\ cmd' = "OVER" /\ mov' = "IDLE" /\ asker' = cur
    /\ PollAgain
    /\ UNCHANGED <<param, served, nextId>> /\ Rest

Pmjmp ==
    /\ Polling({"PMJMP"})
    /\ nextId' = Here.arg
    /\ OpEnds
    /\ UNCHANGED <<mailVars, served>> /\ Rest

Pmjmp2 ==
    /\ Polling({"PMJMP2"})
    /\ IF loading = 2 THEN OpEnds ELSE PollAgain
    /\ UNCHANGED <<mailVars, served, nextId>> /\ Rest

\* The script does something else, or comes to its next opcode.
Idle ==
    /\ phase = "cycle" /\ ~on[cur]
    /\ TurnEnds
    /\ UNCHANGED <<mailVars, scriptVars, nextId>> /\ Rest
Begin ==
    /\ phase = "cycle" /\ ~on[cur]
    /\ at[cur] <= Len(plan.script[cur])
    /\ on' = [on EXCEPT ![cur] = TRUE]
    /\ served' = served \ {cur}
    /\ UNCHANGED <<mailVars, at, nextId, turnVars>> /\ Rest
----------------------------------------------------------------------------
(***************************************************************************)
(* Reading ahead                                                           *)
(***************************************************************************)
\* StopFieldMapPreload: an abandoned read leaves nothing of use in the buffer.
StopFieldMapPreload ==
    /\ loading' = 0 /\ preId' = NoMap
    /\ chain'  = IF loading = 1 THEN "idle" ELSE chain
    /\ buffer' = IF loading = 1 THEN NoMap ELSE buffer

\* The map of the nearest gateway is read ahead unless PMJMP has named one on a
\* map without gateways; battles and movies need the drive.
NearestGateway == IF plan.gates = {} THEN {nextId} ELSE plan.gates
DriveNeededLess == cmd \in {"LOAD", "BATTLE"}
DriveNeeded == cmd \in {"LOAD", "BATTLE"} \/ played

PreloadNextFieldMap ==
    /\ phase = "preload"
    /\ \E m \in NearestGateway :
         /\ nextId' = m
         /\ IF DriveNeeded THEN StopFieldMapPreload
            ELSE IF m = preId \/ m \in Big THEN UNCHANGED <<loading, preId, cdVars>>
            ELSE /\ preId' = m /\ loading' = 1
                 /\ chain' = "map" /\ buffer' = m
    /\ phase' = "exits"
    /\ UNCHANGED <<plan, mailVars, scriptVars, movieVars, placeVars, cur>>
----------------------------------------------------------------------------
(***************************************************************************)
(* The ways out of FieldMainLoop                                           *)
(***************************************************************************)
Target == CASE cmd \in {"OVER", "CREDITS"} -> "title"
            [] cmd = "GAME"   -> "game"
            [] cmd = "DISC"   -> "disc"
            [] cmd = "EVENT"  -> "event"
            [] cmd = "BATTLE" -> "battle"
            [] cmd \in MenuCmd -> "menu"
            [] OTHER -> "exits"

\* FieldMain goes on with a minigame's map, and with nothing else of this.
Leave ==
    /\ phase = "exits" /\ Target # "exits"
    /\ StopFieldMapPreload
    /\ map' = IF cmd = "GAME" THEN param ELSE map
    /\ phase' = Target
    /\ UNCHANGED <<plan, mailVars, scriptVars, movieVars, nextId, enc, shown, came, cur>>

\* The buttons of the soft reset come before everything else ...
SoftReset ==
    /\ phase = "exits"
    /\ cmd' = "RESET" /\ asker' = NoEntity
    /\ loading' = 0 /\ preId' = NoMap
    /\ chain' = "idle" /\ buffer' = NoMap
    /\ phase' = "title"
    /\ UNCHANGED <<plan, param, mov, scriptVars, movieVars, nextId, placeVars, cur>>

\* ... the menu button before battles and the end of the game.
PlayerMenu ==
    /\ phase = "exits" /\ cmd # "MAP"
    /\ Target \in {"exits", "battle", "title"}
    /\ plan.menu /\ ~played /\ ~stream
    /\ cmd' = "PARTY" /\ param' = 0 /\ asker' = NoEntity
    /\ StopFieldMapPreload
    /\ phase' = "menu"
    /\ UNCHANGED <<plan, mov, scriptVars, movieVars, nextId, placeVars, cur>>

Stay ==
    /\ phase = "exits" /\ cmd # "MAP" /\ Target = "exits"
    /\ phase' = "engine"
    /\ UNCHANGED <<plan, mailVars, scriptVars, movieVars, cdVars, aheadVars, placeVars, cur>>

\* Another map: FieldMain keeps what has been read ahead if it is this map.
ChangeMapKeeps ==
    /\ phase = "exits" /\ cmd = "MAP"
    /\ map' = param
    /\ UNCHANGED <<loading, preId, cdVars>>
    /\ came' = "field"
    /\ phase' = IF param \in World THEN "world" ELSE "load"
    /\ UNCHANGED <<plan, mailVars, scriptVars, movieVars, nextId, enc, shown, cur>>
ChangeMap ==
    /\ phase = "exits" /\ cmd = "MAP"
    /\ map' = param
    /\ IF param = preId THEN UNCHANGED <<loading, preId, cdVars>>
                        ELSE StopFieldMapPreload
    /\ came' = "field"
    /\ phase' = IF param \in World THEN "world" ELSE "load"
    /\ UNCHANGED <<plan, mailVars, scriptVars, movieVars, nextId, enc, shown, cur>>
----------------------------------------------------------------------------
(***************************************************************************)
(* The engine and the movie                                                *)
(***************************************************************************)
\* FieldEntityMovementUpdate: the walking player crosses a gateway or meets
\* enemies; neither looks at what is in the mailbox.
Walk ==
    /\ phase = "engine"
    /\ phase' = "movie"
    /\ UNCHANGED <<plan, mailVars, scriptVars, movieVars, cdVars, aheadVars, placeVars, cur>>

Gateway ==
    /\ phase = "engine" /\ plan.free
    /\ \E g \in plan.gates : param' = g
    /\ cmd' = "MAP" /\ asker' = NoEntity
    /\ phase' = "movie"
    /\ UNCHANGED <<plan, mov, scriptVars, movieVars, cdVars, aheadVars, placeVars, cur>>

Encounter ==
    /\ phase = "engine" /\ plan.free /\ ~stream
    /\ StopFieldMapPreload
    /\ cmd' = "BATTLE" /\ param' = 0 /\ asker' = NoEntity
    /\ enc' = TRUE
    /\ phase' = "movie"
    /\ UNCHANGED <<plan, mov, scriptVars, movieVars, nextId, map, shown, came, cur>>

\* A command is done: its asker, if it was a script, has been served.
Serve == served' = served \cup ({asker} \cap Entity)

\* FieldUpdateMovieStream, with the drive where it stands.
MovieEnds == phase = "movie" /\ phase' = "cycle"
MovieRest == UNCHANGED <<plan, cmd, param, asker, at, on, preId, nextId, placeVars, cur>>

ReadAhead ==
    /\ MovieEnds /\ loading = 1
    /\ IF chain = "idle" THEN loading' = 2 ELSE UNCHANGED loading
    /\ UNCHANGED <<mov, served, movieVars, cdVars>> /\ MovieRest

StreamStops ==
    /\ MovieEnds /\ loading # 1 /\ cmd = "STOP"
    /\ stream' = FALSE /\ played' = FALSE /\ mov' = "DONE"
    /\ chain' = "idle"
    /\ Serve
    /\ UNCHANGED <<loading, buffer>> /\ MovieRest

Arms == chain = "idle" /\ cmd = "LOAD" /\ mov = "IDLE"
StreamArms ==
    /\ MovieEnds /\ loading # 1 /\ Arms /\ ~stream
    /\ chain' = "movie" /\ buffer' = param
    /\ mov' = "ACTIVE" /\ played' = TRUE
    /\ UNCHANGED <<served, stream, loading>> /\ MovieRest

StreamEnds ==
    /\ MovieEnds /\ loading # 1 /\ cmd # "STOP" /\ chain = "idle" /\ stream
    /\ stream' = FALSE /\ played' = FALSE /\ mov' = "DONE"
    /\ IF Arms THEN chain' = "movie" /\ buffer' = param ELSE UNCHANGED cdVars
    /\ Serve
    /\ UNCHANGED loading /\ MovieRest

StreamArmed ==
    /\ MovieEnds /\ loading # 1 /\ chain = "ready" /\ cmd = "LOAD"
    /\ mov' = "DONE"
    /\ Serve
    /\ UNCHANGED <<movieVars, cdVars, loading>> /\ MovieRest

StreamStarts ==
    /\ MovieEnds /\ loading # 1 /\ chain = "ready" /\ cmd = "PLAY"
    /\ mov' = "ACTIVE" /\ stream' = TRUE
    /\ chain' = "playing"
    /\ UNCHANGED <<served, played, buffer, loading>> /\ MovieRest

StreamRuns ==
    /\ MovieEnds /\ loading # 1 /\ cmd # "STOP"
    /\ ~(chain = "idle" /\ (Arms \/ stream))
    /\ ~(chain = "ready" /\ cmd \in {"LOAD", "PLAY"})
    /\ UNCHANGED <<mov, served, movieVars, cdVars, loading>> /\ MovieRest

\* The drive: a file has been read, a movie is ready to be played, or over.
Drive ==
    /\ phase = "movie" /\ chain \in {"map", "movie", "playing"}
    /\ chain' = IF chain = "movie" THEN "ready" ELSE "idle"
    /\ UNCHANGED <<plan, mailVars, scriptVars, movieVars, buffer, aheadVars,
                   placeVars, turnVars>>
----------------------------------------------------------------------------
(***************************************************************************)
(* Coming back                                                             *)
(***************************************************************************)
\* main() runs the other module and the field again: after the title and the
\* world on some map, after the player's own menu with an empty mailbox.
Return ==
    /\ phase \in Away
    /\ came' = phase
    /\ map' \in IF phase \in {"title", "world"} THEN Place ELSE {map}
    /\ cmd' = IF phase = "menu" /\ cmd = "PARTY" /\ param = 0 THEN "NONE" ELSE cmd
    /\ loading' = 0 /\ preId' = NoMap
    /\ chain' = "idle" /\ buffer' = NoMap
    /\ phase' = "load"
    /\ UNCHANGED <<plan, param, mov, asker, scriptVars, movieVars, nextId, enc, shown, cur>>

\* FieldLoadMimDatFiles takes what has been read ahead, if anything has.
LoadFiles == shown' = IF loading = 0 THEN map ELSE buffer

\* FieldMain up to the loop: a new map is initialised by FieldEventInit; after
\* anything else what was asked for is done.
Fresh == came \in {"title", "field", "world", "game"}

EnterMap ==
    /\ phase = "load" /\ Fresh
    /\ LoadFiles
    /\ cmd' = "NONE" /\ param' = 0 /\ mov' = "IDLE" /\ asker' = NoEntity
    /\ at' = [e \in Entity |-> 1]
    /\ on' = [e \in Entity |-> FALSE]
    /\ served' = {}
    /\ UNCHANGED enc

ResumeMap ==
    /\ phase = "load" /\ ~Fresh
    /\ IF came \in {"battle", "disc"} THEN LoadFiles ELSE UNCHANGED shown
    /\ IF came = "battle" /\ enc THEN cmd' = "NONE" /\ enc' = FALSE /\ UNCHANGED served
                                 ELSE UNCHANGED <<cmd, enc>> /\ Serve
    /\ mov' = "DONE"
    /\ UNCHANGED <<param, asker, at, on>>

FieldMain ==
    /\ EnterMap \/ ResumeMap
    /\ stream' = FALSE /\ played' = FALSE
    /\ loading' = 0 /\ preId' = NoMap /\ nextId' = NoMap
    /\ chain' = "idle"
    /\ phase' = "cycle" /\ cur' = 0
    /\ UNCHANGED <<plan, buffer, map, came>>
----------------------------------------------------------------------------
Script == \/ Ask \/ Collect \/ StopMovie \/ MovieStopped \/ Wait \/ SkipMovie
          \/ Gmovr \/ Pmjmp \/ Pmjmp2 \/ Idle \/ Begin
Loop   == \/ PreloadNextFieldMap \/ SoftReset \/ Leave \/ PlayerMenu \/ Stay \/ ChangeMap
          \/ Walk \/ Gateway \/ Encounter
FieldUpdateMovieStream ==
          \/ ReadAhead \/ StreamStops \/ StreamArms \/ StreamEnds \/ StreamArmed
          \/ StreamStarts \/ StreamRuns
Next == Script \/ Loop \/ FieldUpdateMovieStream \/ Drive \/ Return \/ FieldMain

Spec == Init /\ [][Next]_vars

\* The loop goes on, scripts come to their opcodes, the drive finishes what it
\* reads, and the other modules come back.
Fairness ==
    /\ WF_vars(Next) /\ SF_vars(Script /\ TurnEnds)
    /\ SF_vars(Leave) /\ SF_vars(Stay)
    /\ SF_vars(FieldUpdateMovieStream) /\ SF_vars(Drive)
LiveSpec == Spec /\ Fairness
----------------------------------------------------------------------------
(***************************************************************************)
(* Correctness                                                             *)
(***************************************************************************)
MailTypes ==
    /\ cmd \in Command \cup {"NONE"}
    /\ param \in Map \cup Movie \cup {0, 1}
    /\ mov \in {"IDLE", "ACTIVE", "DONE"}
    /\ asker \in Entity \cup {NoEntity}
ScriptTypes ==
    /\ \A e \in Entity : at[e] \in 1 .. Len(plan.script[e]) + (IF on[e] THEN 0 ELSE 1)
    /\ at \in [Entity -> Nat] /\ on \in [Entity -> BOOLEAN]
    /\ served \subseteq Entity
    /\ cur \in Entity
DriveTypes ==
    /\ played \in BOOLEAN /\ stream \in BOOLEAN
    /\ chain \in {"idle", "map"} \cup MovieChain
    /\ buffer \in Map \cup Movie \cup {NoMap}
    /\ loading \in 0 .. 2
    /\ preId \in Map \cup {NoMap} /\ nextId \in Map \cup {NoMap}
PlaceTypes ==
    /\ enc \in BOOLEAN
    /\ map \in Map /\ shown \in Map \cup {NoMap}
    /\ came \in Away \cup {"field"}
    /\ phase \in Frame \cup Away \cup {"load"}
\* The types, and every script at one of its opcodes or past the last.
TypeOK == plan \in Plan /\ MailTypes /\ ScriptTypes /\ DriveTypes /\ PlaceTypes

\* The map on the screen is the one the player has gone to, read ahead or not.
MapShown == phase \in Frame => shown = map /\ map \in Place

\* One user of the drive at a time: while a map is read ahead nothing else is,
\* a movie that is loaded is known to be, and nothing is read ahead by a field
\* that has been left.
DriveOwned == /\ loading = 1 /\ chain # "idle" => chain = "map"
              /\ chain = "map" => loading = 1
              /\ chain \in MovieChain /\ phase \in Frame => played
              /\ phase \in Away \ {"world"} => loading = 0

\* A movie that is loaded, ready or played is never read over by a map.
KeepsMovie == chain \in MovieChain => chain' # "map"
MovieKept == [][KeepsMovie]_vars

\* While the player is held, an opcode ends when what it asked for itself has
\* been done, and not before, as long as no two entities ask for the same thing:
\* an answer in the mailbox does not say whose it is.
OneAsker ==
    \A p \in Plan : ~p.free =>
        \A e, f \in Entity : \A i \in 1 .. Len(p.script[e]), j \in 1 .. Len(p.script[f]) :
            p.script[e][i].op \in Mailbox /\ p.script[f][j].cmd = p.script[e][i].cmd => e = f
OwnCommandServed == [][~plan.free /\ Collect => cur \in served]_vars

\* While the player is held, a script that waits for the mailbox goes on at last.
CommandsEnd == \A e \in Entity : on[e] /\ ~plan.free ~> ~on[e]

=============================================================================
