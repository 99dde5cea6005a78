---------------------------- MODULE FieldDialog ----------------------------
(***************************************************************************)
(* The dialog windows of the field module (src/src/field/field5.c, opcodes *)
(* in field4.c).                                                           *)
(*                                                                         *)
(* Four windows are shared by all entities.  A window belongs to the       *)
(* entity whose MES or ASK opened it (g_WindowToEntity) and goes through   *)
(* the states of WindowState, one step per poll: the opcode stays where it *)
(* is and runs again in every turn of its entity until the window has been *)
(* closed.  Other entities may poll, close, resize or reset the same       *)
(* window, and a script of the owner that preempts the one that opened it  *)
(* counts as the owner too.                                                *)
(*                                                                         *)
(* An entity is a stack of at most MaxDepth scripts, each standing on one  *)
(* window opcode; which opcodes come next is any choice from a plan.  The  *)
(* size of a window is counted in quarters, its text in the codes that     *)
(* stop the text, and rows are counted from the top of the visible text    *)
(* (currentRow minus g_WindowExtraRows).                                   *)
(***************************************************************************)
EXTENDS Integers, Sequences, FiniteSets

CONSTANTS
    NumEntities,    \* g_FieldScripts->numEntities
    NumWindows,     \* 4 in the game
    Message,        \* dialog ids of the map
    Text,           \* Text[m]: the codes of message m, up to its end
    Plan,           \* what the scripts of a map may do, see Plans
    CountSize,      \* values of the counter g_WindowCount, 256 in the game
    Rows,           \* rows of a window after FieldWindowReset, 4 in the game
    ScrollSteps,    \* polls to scroll by one row, 8 in the game
    FastStep,       \* fast-forward level from which OK scrolls, 4 in the game
    PauseTime,      \* frames of a timed pause
    Undefined,      \* outcomes of FieldDialogWindowDecrease's bare return
    MaxDepth,       \* scripts an entity runs on top of each other
    MaxTalks        \* how often the player makes an entity start a script

Entity   == 0 .. NumEntities - 1
NoEntity == 255
Window   == 0 .. NumWindows - 1
Code     == {"CHAR", "ROW", "NEXT", "OK", "SCROLL", "PAUSE"}
OpName   == {"MES", "WCLS", "WCLSE", "WSIZW", "WROW", "WMODE", "WREST", "BATLE", "MENU"}
Op       == [op : OpName, w : Window, m : Message, n : Nat]

\* MES also stands for ASK, which differs in the pointer and the answer only.
Plans == [main : [Entity -> SUBSET Op], talk : [Entity -> SUBSET Op]]

ASSUME DialogAssumption ==
    /\ NumEntities \in 1 .. 255
    /\ NumWindows \in Nat \ {0}
    /\ Message # {}
    /\ Text \in [Message -> Seq(Code)]
    /\ Plan \subseteq Plans
    /\ CountSize \in Nat \ {0}
    /\ Rows \in Nat \ {0}
    /\ ScrollSteps \in Nat \ {0}
    /\ FastStep \in Nat \ {0}
    /\ PauseTime \in Nat
    /\ Undefined \subseteq BOOLEAN /\ Undefined # {}
    /\ MaxDepth \in Nat \ {0}
    /\ MaxTalks \in Nat

State == {"INIT", "SHOW", "TXT", "PAUSE_TXT", "WAIT_ROW", "TXT_DONE", "CLOSING",
          "SCROLL_ROW", "INIT_NEXT", "PAUSE_TXT_SCROLL_UNTIL_OK",
          "SCROLL_TXT_WHILE_OK", "PAUSE_TXT_UNTIL_OK", "WAIT_NEXT_WINDOW"}
Closable == {"TXT", "WAIT_ROW", "TXT_DONE", "SCROLL_ROW",
             "PAUSE_TXT_SCROLL_UNTIL_OK", "PAUSE_TXT_UNTIL_OK"}

VARIABLES
    plan,       \* the loaded map's scripts
    state,      \* g_WindowData[].state
    owner,      \* g_WindowToEntity
    count,      \* g_WindowCount
    msg,        \* the message g_WindowStringPtr points into
    pos,        \* ... and where
    row,        \* currentRow - g_WindowExtraRows
    rows,       \* (height - 9) / 16
    size,       \* currentWidth and currentHeight, in quarters of the full size
    scroll,     \* polls left to scroll
    fast,       \* g_WindowFastForwardLevel while scrolling
    pause,      \* g_WindowWaitTime
    stay,       \* preventClose & 1
    task,       \* the scripts of an entity, the running one first
    ok,         \* the OK button in this frame: up, just pressed, held
    refresh,    \* D_8007EBE0: the field comes back from another screen
    talks,      \* scripts the player can still start
    phase,      \* between frames or in the opcode cycle
    cur         \* g_CurrentEntity

textVars == <<msg, pos, row, scroll, fast, pause>>
winVars  == <<state, owner, count, size, textVars>>
formVars == <<rows, stay>>
turnVars == <<phase, cur>>
vars == <<plan, winVars, formVars, task, ok, refresh, talks, turnVars>>

Init ==
    /\ plan \in Plan
    /\ state = [w \in Window |-> "INIT"]
    /\ owner = [w \in Window |-> NoEntity]
    /\ count = 0
    /\ msg = [w \in Window |-> CHOOSE m \in Message : TRUE]
    /\ pos = [w \in Window |-> 1]
    /\ row = [w \in Window |-> 0]
    /\ rows = [w \in Window |-> Rows]
    /\ size = [w \in Window |-> 0]
    /\ scroll = [w \in Window |-> 0]
    /\ fast = [w \in Window |-> 1]
    /\ pause = [w \in Window |-> 0]
    /\ stay = [w \in Window |-> FALSE]
    /\ task = [e \in Entity |-> <<>>]
    /\ ok = "up"
    /\ refresh = FALSE
    /\ talks = MaxTalks
    /\ phase = "frame"
    /\ cur = 0
----------------------------------------------------------------------------
(***************************************************************************)
(* Turns.  FieldEventOpcodeCycle gives every entity a turn, which ends     *)
(* when a handler returns 1 or when its eight opcodes are used up.         *)
(***************************************************************************)
Head1 == task[cur][1]
Polling(ks) == phase = "cycle" /\ task[cur] # <<>> /\ Head1.op \in ks

TurnEnds == /\ cur' = (cur + 1) % NumEntities
            /\ phase' = IF cur + 1 = NumEntities THEN "frame" ELSE "cycle"

\* A handler that returns 1 is polled again in the next turn.
PollAgain == TurnEnds /\ UNCHANGED task

\* One that returns 0 is done and the script goes on: to another window opcode
\* (Begin), to something else, or, on top of another script, to its RET.
OpEnds == /\ task' = [task EXCEPT ![cur] = Tail(@)]
          /\ UNCHANGED turnVars \/ TurnEnds
----------------------------------------------------------------------------
(***************************************************************************)
(* The window state machine: FieldDialogMessageUpdateStates and            *)
(* FieldDialogAskUpdateStates for window w, whose state is s, on behalf of *)
(* entity cur.  r is the value returned: the window is gone.               *)
(***************************************************************************)
Pressed == ok = "edge"              \* newActiveKeys2 & PADRright
Holding == ok # "up"                \* activeKeys2 & PADRright
MineAlways(w) == TRUE
Mine(w) == owner[w] = cur

Busy(w) == owner[w] # NoEntity

Goes(w, s) == state' = [state EXCEPT ![w] = s]

\* The window stays as it is, but for the state s it has been put in.
Idles(w, s) == /\ Goes(w, s)
               /\ UNCHANGED <<owner, count, size, textVars>>

\* FieldDialogWindowInit: take the window unless somebody has it.
Open(w, m, s) ==
    /\ s = "INIT" /\ ~Busy(w)
    /\ Goes(w, "SHOW")
    /\ owner' = [owner EXCEPT ![w] = cur]
    /\ count' = (count + 1) % CountSize
    /\ size' = [size EXCEPT ![w] = 1]
    /\ msg' = [msg EXCEPT ![w] = m]
    /\ pos' = [pos EXCEPT ![w] = 1]
    /\ row' = [row EXCEPT ![w] = 0]
    /\ scroll' = [scroll EXCEPT ![w] = 0]
    /\ fast' = [fast EXCEPT ![w] = 1]
    /\ UNCHANGED pause

\* FieldDialogWindowGrowth
Grow(w, s) ==
    /\ s = "SHOW" /\ Mine(w)
    /\ size' = [size EXCEPT ![w] = @ + 1]
    /\ Goes(w, IF size[w] = 3 THEN "TXT" ELSE s)
    /\ UNCHANGED <<owner, count, textVars>>

\* FieldDialogCopyTextFromField writes up to some code q of the text: the budget
\* of this frame ends there, or the code is one that stops the writing.
End(w)      == Len(Text[msg[w]]) + 1
At(w, q)    == IF q = End(w) THEN "END" ELSE Text[msg[w]][q]
RowAt(w, q) == row[w] + Cardinality({i \in pos[w] .. q - 1 : At(w, i) = "ROW"})
LastRow(w)  == rows[w] - 1
Writable(w, q) ==
    /\ \A i \in pos[w] .. q - 1 : At(w, i) \in {"CHAR", "ROW"}
    /\ ~(row[w] <= LastRow(w) /\ LastRow(w) < RowAt(w, q))

\* The state a stopping code leads to, and where the text goes on after it.
StopState(w, q) ==
    CASE At(w, q) = "END"    -> "TXT_DONE"
      [] At(w, q) = "ROW"    -> "WAIT_ROW"
      [] At(w, q) = "NEXT"   -> "WAIT_NEXT_WINDOW"
      [] At(w, q) = "OK"     -> "PAUSE_TXT_UNTIL_OK"
      [] At(w, q) = "SCROLL" -> "PAUSE_TXT_SCROLL_UNTIL_OK"
      [] At(w, q) = "PAUSE"  -> "PAUSE_TXT"
      [] OTHER               -> "TXT"
Stops(w, q) == At(w, q) # "CHAR" /\ (At(w, q) = "ROW" => RowAt(w, q) = LastRow(w))
After(w, q) == IF At(w, q) \in {"END", "ROW"} THEN q ELSE q + 1

WriteRest == UNCHANGED <<owner, count, size, msg, scroll>>

WriteSome(w, s) ==
    /\ s = "TXT" /\ Mine(w)
    /\ \E q \in pos[w] .. End(w) :
         /\ Writable(w, q)
         /\ pos' = [pos EXCEPT ![w] = q]
         /\ row' = [row EXCEPT ![w] = RowAt(w, q)]
    /\ Goes(w, s)
    /\ UNCHANGED <<fast, pause>> /\ WriteRest

WriteStop(w, s) ==
    /\ s = "TXT" /\ Mine(w)
    /\ \E q \in pos[w] .. End(w) :
         /\ Writable(w, q) /\ Stops(w, q)
         /\ pos' = [pos EXCEPT ![w] = After(w, q)]
         /\ row' = [row EXCEPT ![w] = RowAt(w, q)]
         /\ Goes(w, StopState(w, q))
         /\ pause' = IF At(w, q) = "PAUSE" THEN [pause EXCEPT ![w] = PauseTime]
                                           ELSE pause
    /\ fast' = [fast EXCEPT ![w] = 1]
    /\ WriteRest

\* DialogScrollText, after an OK at the last row
ScrollRow(w, s) ==
    /\ s = "SCROLL_ROW" /\ Mine(w)
    /\ scroll' = [scroll EXCEPT ![w] = IF @ > 0 THEN @ - 1 ELSE @]
    /\ Goes(w, IF scroll[w] > 0 THEN s ELSE "TXT")
    /\ UNCHANGED <<owner, count, size, msg, pos, row, fast, pause>>

WaitRowForgets(w, s) ==
    /\ s = "WAIT_ROW"
    /\ Pressed /\ row[w] = LastRow(w)
    /\ Goes(w, "SCROLL_ROW")
    /\ scroll' = [scroll EXCEPT ![w] = ScrollSteps - 1]
    /\ UNCHANGED <<owner, count, size, msg, pos, row, fast, pause>>
WaitRow(w, s) ==
    /\ s = "WAIT_ROW"
    /\ Pressed /\ row[w] = LastRow(w)
    /\ Goes(w, "SCROLL_ROW")
    /\ row' = [row EXCEPT ![w] = @ - 1]
    /\ scroll' = [scroll EXCEPT ![w] = ScrollSteps - 1]
    /\ UNCHANGED <<owner, count, size, msg, pos, fast, pause>>

\* DialogScrollTextDuringOk: the text moves once OK has been held for long
\* enough; fast levels above FastStep only move it faster.
ScrollWhileOk(w, s) ==
    /\ s = "SCROLL_TXT_WHILE_OK" /\ Mine(w)
    /\ IF scroll[w] > 0
       THEN /\ Goes(w, s)
            /\ scroll' = [scroll EXCEPT ![w] = IF fast[w] = FastStep THEN @ - 1 ELSE @]
            /\ fast' = [fast EXCEPT ![w] = IF Holding
                                           THEN IF @ = FastStep THEN @ ELSE @ + 1
                                           ELSE IF @ = 1 THEN @ ELSE @ - 1]
       ELSE /\ Goes(w, "INIT_NEXT")
            /\ UNCHANGED <<scroll, fast>>
    /\ UNCHANGED <<owner, count, size, msg, pos, row, pause>>

ScrollPause(w, s) ==
    /\ s = "PAUSE_TXT_SCROLL_UNTIL_OK"
    /\ Pressed
    /\ Goes(w, "SCROLL_TXT_WHILE_OK")
    /\ scroll' = [scroll EXCEPT ![w] = ScrollSteps]
    /\ UNCHANGED <<owner, count, size, msg, pos, row, fast, pause>>

PauseOk(w, s) ==
    /\ s = "PAUSE_TXT_UNTIL_OK"
    /\ Pressed
    /\ Goes(w, "TXT")
    /\ UNCHANGED <<owner, count, size, textVars>>

PauseTxt(w, s) ==
    /\ s = "PAUSE_TXT"
    /\ IF pause[w] = 0 THEN Goes(w, "TXT") /\ UNCHANGED pause
                       ELSE Goes(w, s) /\ pause' = [pause EXCEPT ![w] = @ - 1]
    /\ UNCHANGED <<owner, count, size, msg, pos, row, scroll, fast>>

\* FieldDialogWindowInitNext: the text goes on in an empty window.
InitNext(w, s) ==
    /\ s = "INIT_NEXT" \/ (s = "WAIT_NEXT_WINDOW" /\ Pressed)
    /\ Mine(w)
    /\ Goes(w, "TXT")
    /\ row' = [row EXCEPT ![w] = 0]
    /\ scroll' = [scroll EXCEPT ![w] = 0]
    /\ fast' = [fast EXCEPT ![w] = 1]
    /\ UNCHANGED <<owner, count, size, msg, pos, pause>>

\* FieldDialogWindowDecrease for a closing window; only its owner shrinks it.
Shrink(w) ==
    /\ Mine(w) /\ size[w] > 1
    /\ Goes(w, "CLOSING")
    /\ size' = [size EXCEPT ![w] = @ - 1]
    /\ UNCHANGED <<owner, count, textVars>>

Release(w) ==
    /\ Mine(w) /\ size[w] = 1
    /\ Goes(w, "INIT")
    /\ size' = [size EXCEPT ![w] = 0]
    /\ owner' = [owner EXCEPT ![w] = NoEntity]
    /\ count' = (count - 1) % CountSize
    /\ UNCHANGED textVars

\* OK at the end of the text; Decrease's result is not looked at here.
DismissPaused(w, s) ==
    /\ s \in {"TXT_DONE", "PAUSE_TXT_UNTIL_OK"} /\ ~stay[w] /\ Pressed
    /\ \/ Shrink(w)
       \/ ~Mine(w) /\ Idles(w, "CLOSING")
Dismiss(w, s) ==
    /\ s = "TXT_DONE" /\ ~stay[w] /\ Pressed
    /\ \/ Shrink(w)
       \/ ~Mine(w) /\ Idles(w, "CLOSING")

\* Nothing happens: the window is somebody else's or waits for OK.
Stalls(w, s) ==
    \/ /\ s \in {"INIT", "SHOW", "TXT", "SCROLL_ROW", "SCROLL_TXT_WHILE_OK", "INIT_NEXT"}
       /\ IF s = "INIT" THEN Busy(w) ELSE ~Mine(w)
    \/ s \in {"PAUSE_TXT_UNTIL_OK", "PAUSE_TXT_SCROLL_UNTIL_OK"} /\ ~Pressed
    \/ s = "WAIT_ROW" /\ ~(Pressed /\ row[w] = LastRow(w))
    \/ s = "TXT_DONE" /\ (stay[w] \/ ~Pressed)
    \/ s = "WAIT_NEXT_WINDOW" /\ ~(Pressed /\ Mine(w))

UpdateStates(w, m, s, r) ==
    \/ /\ r = FALSE
       /\ \/ Open(w, m, s) \/ Grow(w, s) \/ WriteSome(w, s) \/ WriteStop(w, s)
          \/ ScrollRow(w, s) \/ WaitRow(w, s) \/ ScrollWhileOk(w, s)
          \/ ScrollPause(w, s) \/ PauseOk(w, s) \/ PauseTxt(w, s) \/ InitNext(w, s)
          \/ Dismiss(w, s)
          \/ Stalls(w, s) /\ Idles(w, s)
          \/ s = "CLOSING" /\ Shrink(w)
    \/ r = TRUE /\ s = "CLOSING" /\ Release(w)
    \/ r \in Undefined /\ s = "CLOSING" /\ ~Mine(w) /\ Idles(w, s)
----------------------------------------------------------------------------
(***************************************************************************)
(* The opcodes                                                             *)
(***************************************************************************)
Rest == UNCHANGED <<plan, formVars, ok, refresh, talks>>

\* MES and ASK are done when the window is.
Mes(r) ==
    /\ Polling({"MES"})
    /\ UpdateStates(Head1.w, Head1.m, state[Head1.w], r)
    /\ IF r THEN OpEnds ELSE PollAgain
    /\ Rest
MesOn  == Mes(FALSE)
MesEnd == Mes(TRUE)

\* FieldWindowSetStateToClose, except for its refusal in state SHOW
ToClose(s) == IF s \in Closable THEN "CLOSING" ELSE s

\* WCLS! and WSIZW close the window and poll it until it is free; WSIZW leaves
\* the window of somebody else alone and resizes it in the end.
CloseAndPoll ==
    /\ \E r \in BOOLEAN :
         UpdateStates(Head1.w, Head1.m, ToClose(state[Head1.w]), r)
    /\ PollAgain
    /\ Rest

WclsOn == Polling({"WCLS"}) /\ Busy(Head1.w) /\ CloseAndPoll
WclsEnd ==
    /\ Polling({"WCLS"}) /\ ~Busy(Head1.w)
    /\ OpEnds
    /\ UNCHANGED winVars /\ Rest

WsizwOn == Polling({"WSIZW"}) /\ Mine(Head1.w) /\ CloseAndPoll
WsizwWait ==
    /\ Polling({"WSIZW"}) /\ Busy(Head1.w) /\ ~Mine(Head1.w)
    /\ PollAgain
    /\ UNCHANGED winVars /\ Rest
WsizwEnd ==
    /\ Polling({"WSIZW"}) /\ ~Busy(Head1.w)
    /\ rows' = [rows EXCEPT ![Head1.w] = Head1.n]
    /\ OpEnds
    /\ UNCHANGED <<plan, winVars, stay, ok, refresh, talks>>

\* WCLSE waits while the window opens and then does not wait for it to close.
WclseWait ==
    /\ Polling({"WCLSE"}) /\ state[Head1.w] = "SHOW"
    /\ PollAgain
    /\ UNCHANGED winVars /\ Rest
WclseEnd ==
    /\ Polling({"WCLSE"}) /\ state[Head1.w] # "SHOW"
    /\ Idles(Head1.w, ToClose(state[Head1.w]))
    /\ OpEnds
    /\ Rest

\* WROW and the WSIZE of a window change its height at once, open or not.
Wrow ==
    /\ Polling({"WROW"})
    /\ rows' = [rows EXCEPT ![Head1.w] = Head1.n]
    /\ OpEnds
    /\ UNCHANGED <<plan, winVars, stay, ok, refresh, talks>>

Wmode ==
    /\ Polling({"WMODE"})
    /\ stay' = [stay EXCEPT ![Head1.w] = (Head1.n % 2 = 1)]
    /\ OpEnds
    /\ UNCHANGED <<plan, winVars, rows, ok, refresh, talks>>

\* FieldWindowReset does not care whether the window is open.
Wrest ==
    /\ Polling({"WREST"})
    /\ LET w == Head1.w IN
         /\ Goes(w, "INIT")
         /\ owner' = [owner EXCEPT ![w] = NoEntity]
         /\ size' = [size EXCEPT ![w] = 0]
         /\ pause' = [pause EXCEPT ![w] = 0]
         /\ rows' = [rows EXCEPT ![w] = Rows]
         /\ stay' = [stay EXCEPT ![w] = FALSE]
    /\ OpEnds
    /\ UNCHANGED <<plan, count, msg, pos, row, scroll, fast, ok, refresh, talks>>

\* FieldWindowResetTextAll
ResetAllKeepsOwner ==
    /\ state' = [w \in Window |-> "INIT"]
    /\ pause' = [w \in Window |-> 0]
    /\ count' = 0
    /\ UNCHANGED <<owner, size, msg, pos, row, scroll, fast>>
ResetAll ==
    /\ state' = [w \in Window |-> "INIT"]
    /\ owner' = [w \in Window |-> NoEntity]
    /\ pause' = [w \in Window |-> 0]
    /\ count' = 0
    /\ UNCHANGED <<size, msg, pos, row, scroll, fast>>

\* BATLE and MENU leave the field; when it comes back, FieldEventUpdate resets
\* the windows.  BATLE does so besides when it starts.
Batle ==
    /\ Polling({"BATLE"})
    /\ ResetAll
    /\ refresh' = TRUE
    /\ task' = [task EXCEPT ![cur] = Tail(@)]
    /\ TurnEnds
    /\ UNCHANGED <<plan, formVars, ok, talks>>

Menu ==
    /\ Polling({"MENU"})
    /\ refresh' = TRUE
    /\ task' = [task EXCEPT ![cur] = Tail(@)]
    /\ TurnEnds
    /\ UNCHANGED <<plan, winVars, formVars, ok, talks>>

\* A main script that is not at a window opcode does something else this turn,
\* or comes to one.
Idle ==
    /\ phase = "cycle" /\ task[cur] = <<>>
    /\ TurnEnds
    /\ UNCHANGED <<winVars, task>> /\ Rest
Begin ==
    /\ phase = "cycle" /\ task[cur] = <<>>
    /\ \E o \in plan.main[cur] : task' = [task EXCEPT ![cur] = <<o>>]
    /\ UNCHANGED <<winVars, turnVars>> /\ Rest

\* A request or a trigger starts a script on top of the running one.
Preempt(e) ==
    /\ talks > 0
    /\ phase = "frame" \/ e # cur
    /\ Len(task[e]) \in 1 .. MaxDepth - 1
    /\ \E o \in plan.talk[e] : task' = [task EXCEPT ![e] = <<o>> \o @]
    /\ talks' = talks - 1
    /\ UNCHANGED <<plan, winVars, formVars, ok, refresh, turnVars>>

\* The next frame: what the player does with OK, and FieldEventUpdate.
Frame(k) ==
    /\ phase = "frame"
    /\ k \in IF ok = "up" THEN {"up", "edge"} ELSE {"up", "held"}
    /\ ok' = k
    /\ phase' = "cycle"
    /\ IF refresh THEN ResetAll ELSE UNCHANGED winVars
    /\ refresh' = FALSE
    /\ UNCHANGED <<plan, formVars, task, talks, cur>>
FrameStart == \E k \in {"up", "edge", "held"} : Frame(k)

Cycle == \/ MesOn \/ MesEnd \/ WclsOn \/ WclsEnd \/ WclseWait \/ WclseEnd
         \/ WsizwOn \/ WsizwWait \/ WsizwEnd \/ Wrow \/ Wmode \/ Wrest
         \/ Batle \/ Menu \/ Idle \/ Begin

Next == FrameStart \/ Cycle \/ \E e \in Entity : Preempt(e)

\* The scheduler never blocks, a turn is at most eight opcodes long, and a text
\* that is polled is written in the end.
TextGoesOn(w) == Cycle /\ state[w] = "TXT" /\ state'[w] # "TXT"
FairSpec ==
    /\ Init /\ [][Next]_vars
    /\ WF_vars(FrameStart) /\ WF_vars(Cycle) /\ SF_vars(Cycle /\ TurnEnds)
    /\ \A w \in Window : SF_vars(TextGoesOn(w))

\* The player presses OK again and again.
PlayerFairness == SF_vars(Frame("edge")) /\ SF_vars(Frame("up"))
Spec     == Init /\ [][Next]_vars
LiveSpec == FairSpec /\ PlayerFairness
----------------------------------------------------------------------------
(***************************************************************************)
(* Correctness                                                             *)
(***************************************************************************)
TypeOK ==
    /\ plan \in Plan
    /\ state \in [Window -> State]
    /\ owner \in [Window -> Entity \cup {NoEntity}]
    /\ count \in 0 .. CountSize - 1
    /\ msg \in [Window -> Message]
    /\ pos \in [Window -> Nat]
    /\ row \in [Window -> Int]
    /\ rows \in [Window -> Nat]
    /\ size \in [Window -> 0 .. 4]
    /\ scroll \in [Window -> 0 .. ScrollSteps]
    /\ fast \in [Window -> 1 .. FastStep]
    /\ pause \in [Window -> 0 .. PauseTime]
    /\ stay \in [Window -> BOOLEAN]
    /\ task \in [Entity -> Seq(Op)]
    /\ ok \in {"up", "edge", "held"}
    /\ refresh \in BOOLEAN
    /\ talks \in 0 .. MaxTalks
    /\ phase \in {"frame", "cycle"}
    /\ cur \in Entity

\* A window that is open belongs to an entity that has a script, running or
\* suspended, at a MES or ASK for it: there is always somebody who will go on
\* polling the window until it is closed, whatever the others do to it.
Shows(e, w) == \E i \in DOMAIN task[e] : task[e][i].op = "MES" /\ task[e][i].w = w
OpenOwned  == \A w \in Window : state[w] = "INIT" <=> owner[w] = NoEntity
OwnerPolls == OpenOwned /\ \A w \in Window : owner[w] # NoEntity => Shows(owner[w], w)

KeepsWhileOpen(w) ==
    owner[w] # NoEntity =>
      /\ owner'[w] \in {owner[w], NoEntity}
      /\ msg'[w] = msg[w]
      /\ pos'[w] # pos[w] => cur = owner[w] /\ pos'[w] > pos[w]
      /\ state[w] = "CLOSING" => state'[w] \in {"CLOSING", "INIT"}

\* While it is open, a window keeps its owner and its message; its text only
\* goes forward, only in its owner's turn, and not any more once it closes.
WindowKept == [][\A w \in Window : KeepsWhileOpen(w)]_vars

\* A window that MES or ASK closes has shown its message to the end.
ReadToEnd ==
    [][\A w \in Window :
         (MesOn \/ MesEnd) /\ state[w] # "CLOSING" /\ state'[w] = "CLOSING"
           => pos[w] = End(w)]_vars

\* An open window is closed at last, unless OK is not held long enough while it
\* scrolls, or WMODE forbids OK to close it.
WindowsClose ==
    \A w \in Window :
      owner[w] # NoEntity ~> \/ owner[w] = NoEntity
                             \/ state[w] = "SCROLL_TXT_WHILE_OK"
                             \/ state[w] = "TXT_DONE" /\ stay[w]
=============================================================================
