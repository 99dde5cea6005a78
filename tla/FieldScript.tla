---------------------------- MODULE FieldScript ----------------------------
(***************************************************************************)
(* The event-script scheduler of the field module (src/src/field/field4.c) *)
(*                                                                         *)
(* A field map has up to 48 entities.  Every entity owns up to 32 scripts  *)
(* and runs one of them at a time, at one of eight priority levels, 0 the  *)
(* most urgent and 7 the level of its main script.  Levels less urgent     *)
(* than the running one may hold a suspended or a parked script: its       *)
(* program counter is kept in g_SavedFieldScriptPC.  Once a frame          *)
(* FieldEventOpcodeCycle turns the triggers the engine raised (talk, push, *)
(* lines) into requests and then gives every entity a turn of at most      *)
(* eight opcodes; an opcode handler that returns 1 gives the turn up.      *)
(*                                                                         *)
(* One action is one opcode handler (or one branch of it), one trigger     *)
(* check, or one thing the engine does between two cycles.  Everything     *)
(* runs on one thread: the interleaving is that of the scripts.            *)
(***************************************************************************)
EXTENDS Integers, Sequences, FiniteSets, PartyOps

CONSTANTS
    NumEntities,    \* g_FieldScripts->numEntities
    NumScripts,     \* entries of an entity's script table (32 in the game)
    MaxAddr,        \* the last instruction of a script image
    Map,            \* the field maps (ids of script images)
    Image           \* Image[m]: the scripts of map m, see WellFormed

----------------------------------------------------------------------------
(***************************************************************************)
(* Script images                                                           *)
(***************************************************************************)
Entity   == 0 .. NumEntities - 1
NoEntity == 255
Level    == 0 .. 7
MainLevel == 7
ScriptId == 0 .. NumScripts - 1
Addr     == 1 .. MaxAddr
NoAddr   == 0           \* an empty slot of g_SavedFieldScriptPC

Request  == {"REQ", "PREQ"}         \* type 1: do not wait
StartReq == {"REQSW", "PRQSW"}      \* type 2: wait until it can start
EndReq   == {"REQEW", "PRQEW"}      \* type 3: wait until it has ended
ReqOp    == Request \cup StartReq \cup EndReq
PartyReq == {"PREQ", "PRQSW", "PRQEW"}

\* NOP stands for every handler that returns 0, steps the PC and touches
\* nothing modelled here; POLL for every handler that returns 1 on the same
\* instruction until something outside the scripts is over (MES, MJUMP, ...).
Op == ReqOp \cup {"RET", "RETTO", "WAIT", "WAIT1", "BACK", "SKIP", "IF", "NOP",
                  "POLL", "UC", "ASK", "LINON", "PRTYE", "MOVE", "JOIN", "SPLIT"}
Jumps == {"BACK", "SKIP", "IF"}
FallsThrough == Op \ {"RET", "RETTO", "BACK", "SKIP"}

Instr == [op : Op, who : Entity \cup {NoEntity} \cup Slot, prio : Level,
          script : ScriptId, n : Nat, to : Addr, party : [Slot -> PartyCode]]

\* What the scheduler takes for granted of a script image: every request names
\* an entity of the map, every jump lands in the code of the same entity, no
\* code runs off its end, and an entity does not ask itself (directly or as a
\* party member) to run something without waiting: FieldEventRequest would
\* then step the program counter of the script it has just installed.
WellFormed(img) ==
    /\ img.code \in [Addr -> Instr]
    /\ img.owner \in [Addr -> Entity]
    /\ img.entry \in [Entity -> [ScriptId -> Addr]]
    /\ img.main \in [Entity -> Addr]
    /\ img.models \in Seq(Entity)
    /\ img.lines \in Seq(Entity)
    /\ img.modelled \subseteq Entity
    /\ img.entityOf \in [Char -> Entity \cup {NoEntity}]
    /\ \A c, d \in Char : c # d /\ img.entityOf[c] # NoEntity => img.entityOf[c] # img.entityOf[d]
    /\ img.party \in [Slot -> Char \cup {NoChar}]
    /\ img.locked \in BOOLEAN
    /\ \A e \in Entity : /\ img.owner[img.main[e]] = e
                         /\ \A s \in ScriptId : img.owner[img.entry[e][s]] = e
    /\ \A a \in Addr :
         LET i == img.code[a] IN
         /\ i.op \in FallsThrough => a + 1 \in Addr /\ img.owner[a + 1] = img.owner[a]
         /\ i.op \in Jumps => img.owner[i.to] = img.owner[a]
         /\ i.op \in PartyReq => i.who \in Slot
         /\ i.op \in ReqOp \ PartyReq => i.who \in Entity \cup {NoEntity}
         /\ i.op \in {"REQ", "REQSW"} => i.who # img.owner[a]
         /\ i.op \in {"PREQ", "PRQSW"} => \A c \in Char : img.entityOf[c] # img.owner[a]

ASSUME SizesAssumption ==
    /\ NumEntities \in 1 .. 255
    /\ NumScripts \in 7 .. 32
    /\ MaxAddr \in 1 .. 65535
ASSUME ImagesAssumption ==
    \A m \in Map : WellFormed(Image[m])

----------------------------------------------------------------------------
VARIABLES
    map,        \* the loaded field map
    pc,         \* g_FieldScriptPC
    prio,       \* g_FieldScriptPriority
    saved,      \* g_SavedFieldScriptPC
    sync,       \* g_FieldScriptSyncState
    waiter,     \* g_FieldScriptSyncWaitEntity
    wait,       \* g_FieldWaitCounter
    mode,       \* scriptedMoveMode of the entity's model
    act,        \* ActionState of the entity's model
    turn,       \* TurnType of the entity's model: 0 none, 2 turning, 3 turned
    sj,         \* g_EntitySplitJoinState
    sjOwner,    \* g_EntityForSplitJoin
    locked,     \* FieldState.characterLock
    lockSaved,  \* g_CharacterLock
    party,      \* Savemap.memory_bank_2[9..11]
    line,       \* isActive and touch of the entity's line
    flags,      \* the request flags raised by the engine, by scan position
    phase,      \* where FieldMainLoop is in a frame
    scan,       \* scan position of the trigger checks
    talkDone,   \* local of FieldEventOpcodeCycle
    cur,        \* g_CurrentEntity
    left,       \* turns left in this cycle (count)
    ops         \* opcodes left in this turn (j)

stackVars == <<pc, prio, saved, sync, waiter, wait>>
bodyVars  == <<mode, act, turn>>
joinVars  == <<sj, sjOwner, locked, lockSaved, party>>
trigVars  == <<line, flags, scan, talkDone>>
turnVars  == <<phase, cur, left, ops>>
vars == <<map, stackVars, bodyVars, joinVars, trigVars, turnVars>>

Img     == Image[map]
Code(a) == Img.code[a]
Cur     == Code(pc[cur])                    \* the instruction about to run
Start(e, s) == Img.entry[e][s]
HasModel(e) == e \in Img.modelled
EntityAt(i) == IF party[i] = NoChar THEN NoEntity ELSE Img.entityOf[party[i]]

\* The program counter entity e holds at level l: the running script's, or the
\* one kept for a suspended or parked script.
Frame(e, l) == IF l = prio[e] THEN pc[e] ELSE saved[e][l]
----------------------------------------------------------------------------
(***************************************************************************)
(* FieldEventInit: default values, then every entity's init script, which  *)
(* here is code that never requests anything: afterwards each entity       *)
(* stands on the instruction after the init script's RET.                  *)
(***************************************************************************)
Init ==
    /\ map \in Map
    /\ pc = Img.main
    /\ prio = [e \in Entity |-> MainLevel]
    /\ saved = [e \in Entity |-> [l \in Level |-> NoAddr]]
    /\ sync = [e \in Entity |-> [l \in Level |-> "NONE"]]
    /\ waiter = [e \in Entity |-> [l \in Level |-> NoEntity]]
    /\ wait = [e \in Entity |-> 0]
    /\ mode = [e \in Entity |-> "NONE"]
    /\ act = [e \in Entity |-> 0]
    /\ turn = [e \in Entity |-> 0]
    /\ sj = [e \in Entity |-> 0]
    /\ sjOwner = NoEntity
    /\ locked = Img.locked
    /\ lockSaved = Img.locked
    /\ party = Img.party
    /\ line = [e \in Entity |-> "idle"]
    /\ flags = {}
    /\ phase = "engine"
    /\ scan = 0
    /\ talkDone = FALSE
    /\ cur = 0
    /\ left = NumEntities
    /\ ops = 8

----------------------------------------------------------------------------
(***************************************************************************)
(* Turns.  A handler that returns 1 ends the turn; one that returns 0 lets *)
(* the entity go on while it has opcodes left.  g_CurrentEntity is wrapped *)
(* when it is stepped instead of at the next turn's start.                 *)
(***************************************************************************)
Yield == /\ cur' = (cur + 1) % NumEntities
         /\ left' = left - 1
         /\ ops' = 8
         /\ phase' = IF left = 1 THEN "engine" ELSE "cycle"

GoOn == IF ops = 1 THEN Yield
                   ELSE ops' = ops - 1 /\ UNCHANGED <<phase, cur, left>>

\* An entity that takes part in a JOIN or SPLIT is frozen, unless it is the one
\* whose script drives it.
FrozenNever(e) == FALSE
Frozen(e) == sj[e] # 0 /\ sjOwner # e

SkipFrozen ==
    /\ phase = "cycle" /\ Frozen(cur)
    /\ Yield
    /\ UNCHANGED <<map, stackVars, bodyVars, joinVars, trigVars>>

\* The entity whose turn it is stands on an instruction of one of these kinds.
Running(ks) == /\ phase = "cycle" /\ ~Frozen(cur) /\ pc[cur] \in Addr
               /\ Cur.op \in ks
Step == pc' = [pc EXCEPT ![cur] = @ + 1]    \* PC_INC past the instruction
----------------------------------------------------------------------------
(***************************************************************************)
(* Requests: FieldEventRequest(type, target, priority, scriptId)           *)
(***************************************************************************)
Target == IF Cur.op \in PartyReq THEN EntityAt(Cur.who) ELSE Cur.who

\* Entity cur is the recorded waiter of the level it asks for.
Mine(t, q) == Cur.op \in EndReq /\ waiter[t][q] = cur /\ sync[t][q] # "NONE"

Occupied(t, q) == prio[t] = q \/ (prio[t] < q /\ saved[t][q] # NoAddr)

\* The requested level is resolved once per poll: the party opcodes look their
\* slot up each time they run.
Asks(t, q) == /\ Running(ReqOp)
              /\ t = Target /\ t # NoEntity
              /\ q = Cur.prio

ReqRest == UNCHANGED <<map, act, turn, joinVars, trigVars>>

\* Nobody plays the requested party slot: the request is skipped.
RequestNoOne ==
    /\ Running(ReqOp) /\ Target = NoEntity
    /\ Step /\ GoOn
    /\ UNCHANGED <<prio, saved, sync, waiter, wait, mode>> /\ ReqRest

\* REQEW polled before the script it started has returned.
RequestAwait(t, q) ==
    /\ Asks(t, q) /\ Mine(t, q) /\ sync[t][q] = "WAITING"
    /\ Yield
    /\ UNCHANGED <<stackVars, mode>> /\ ReqRest

\* REQEW polled after it.
RequestEnd(t, q) ==
    /\ Asks(t, q) /\ Mine(t, q) /\ sync[t][q] = "DONE"
    /\ sync' = [sync EXCEPT ![t][q] = "NONE"]
    /\ waiter' = [waiter EXCEPT ![t][q] = NoEntity]
    /\ Step /\ GoOn
    /\ UNCHANGED <<prio, saved, wait, mode>> /\ ReqRest

\* The level is taken: REQ gives up, the others try again next frame.
RequestSkip(t, q) ==
    /\ Asks(t, q) /\ ~Mine(t, q) /\ Occupied(t, q) /\ Cur.op \in Request
    /\ Step /\ GoOn
    /\ UNCHANGED <<prio, saved, sync, waiter, wait, mode>> /\ ReqRest

RequestBusy(t, q) ==
    /\ Asks(t, q) /\ ~Mine(t, q) /\ Occupied(t, q) /\ Cur.op \notin Request
    /\ Yield
    /\ UNCHANGED <<stackVars, mode>> /\ ReqRest

\* REQEW and PRQEW stay where they are until the answer is there.
AskerStays == Cur.op \in EndReq

\* What a request that was accepted does to the asking script.
Sent(t, q) ==
    IF Cur.op \in EndReq
    THEN /\ waiter' = [waiter EXCEPT ![t][q] = cur]
         /\ sync' = [sync EXCEPT ![t][q] = "WAITING"]
         /\ Yield
    ELSE GoOn /\ UNCHANGED <<waiter, sync>>

\* The target runs something more urgent: the script is parked on its level.
RequestPark(t, q) ==
    /\ Asks(t, q) /\ ~Mine(t, q)
    /\ ~Occupied(t, q) /\ prio[t] < q
    /\ saved' = [saved EXCEPT ![t][q] = Start(t, Cur.script)]
    /\ IF AskerStays THEN UNCHANGED pc ELSE Step
    /\ Sent(t, q)
    /\ UNCHANGED <<prio, wait, mode>> /\ ReqRest

\* The target's running script is suspended: its program counter is kept, its
\* wait counter and its scripted move are dropped.
KeepAtNewLevel(t, q) == saved' = [saved EXCEPT ![t][q] = pc[t]]
Keep(t, q) == saved' = [saved EXCEPT ![t][prio[t]] = pc[t]]
DropCountNever(t) == UNCHANGED wait
DropCount(t) == wait' = [wait EXCEPT ![t] = 0]
Suspend(t, q) ==
    /\ Keep(t, q)
    /\ prio' = [prio EXCEPT ![t] = q]
    /\ DropCount(t)
    /\ mode' = IF HasModel(t) THEN [mode EXCEPT ![t] = "NONE"] ELSE mode

RequestPreempt(t, q) ==
    /\ Asks(t, q) /\ ~Mine(t, q)
    /\ prio[t] > q /\ sync[t][q] = "NONE"
    /\ Suspend(t, q)
    /\ pc' = [pc EXCEPT ![t] = Start(t, Cur.script),
                        ![cur] = IF AskerStays THEN @ ELSE @ + 1]
    /\ Sent(t, q)
    /\ ReqRest

\* The level is free but its last answer has not been collected: every kind of
\* request tries again next frame.
RequestBusyStar(t, q) ==
    /\ Asks(t, q) /\ ~Mine(t, q)
    /\ prio[t] > q /\ sync[t][q] # "NONE"
    /\ Yield
    /\ UNCHANGED <<stackVars, mode>> /\ ReqRest

FieldEventRequest ==
    \/ RequestNoOne
    \/ \E t \in Entity, q \in Level :
         \/ RequestAwait(t, q) \/ RequestEnd(t, q)
         \/ RequestSkip(t, q)  \/ RequestBusy(t, q)
         \/ RequestPark(t, q)  \/ RequestPreempt(t, q)
         \/ RequestBusyStar(t, q)
----------------------------------------------------------------------------
(***************************************************************************)
(* Return                                                                  *)
(***************************************************************************)
\* A script that is waited for has gone, on these levels.
AnswerNobody(e, ls) == UNCHANGED sync
Answer(e, ls) ==
    sync' = [sync EXCEPT ![e] =
               [l \in Level |-> IF l \in ls /\ @[l] = "WAITING" THEN "DONE" ELSE @[l]]]

OpRest == UNCHANGED <<map, bodyVars, joinVars, trigVars>>

\* The main script halts on its RET.
RetMain ==
    /\ Running({"RET"}) /\ prio[cur] = MainLevel
    /\ Yield
    /\ UNCHANGED stackVars /\ OpRest

\* Any other script hands over to the most urgent level that holds one; level 7
\* is entered whatever it holds.
ResumesMain(e, l) == l = MainLevel
Resumes(e, l) ==
    /\ l > prio[e]
    /\ l = MainLevel \/ saved[e][l] # NoAddr
    /\ \A k \in Level : prio[e] < k /\ k < l => saved[e][k] = NoAddr
Empty(e, l) == saved' = [saved EXCEPT ![e][l] = NoAddr]

Ret ==
    /\ Running({"RET"}) /\ prio[cur] # MainLevel
    /\ Answer(cur, {prio[cur]})
    /\ \E l \in Level :
         /\ Resumes(cur, l)
         /\ prio' = [prio EXCEPT ![cur] = l]
         /\ pc' = [pc EXCEPT ![cur] = saved[cur][l]]
         /\ Empty(cur, l)
    /\ GoOn
    /\ UNCHANGED <<waiter, wait>> /\ OpRest

\* RETTO drops the levels from the running one up to two short of the given
\* one, wipes what was kept for the levels after them and starts a script there.
Retto ==
    /\ Running({"RETTO"})
    /\ Answer(cur, prio[cur] .. Cur.prio - 2)
    /\ saved' = [saved EXCEPT ![cur] =
                   [l \in Level |-> IF l \in prio[cur] + 1 .. Cur.prio - 1
                                    THEN NoAddr ELSE @[l]]]
    /\ pc' = [pc EXCEPT ![cur] = Start(cur, Cur.script)]
    /\ prio' = [prio EXCEPT ![cur] = Cur.prio]
    /\ GoOn
    /\ UNCHANGED <<waiter, wait>> /\ OpRest
----------------------------------------------------------------------------
(***************************************************************************)
(* Flow and waiting                                                        *)
(***************************************************************************)
FlowRest == UNCHANGED <<prio, saved, sync, waiter>>

Wait1 ==
    /\ Running({"WAIT1"})
    /\ Step /\ Yield
    /\ UNCHANGED wait /\ FlowRest /\ OpRest

\* The first call loads the counter, the last one finds it at 1.
WaitStart ==
    /\ Running({"WAIT"}) /\ wait[cur] = 0
    /\ wait' = [wait EXCEPT ![cur] = Cur.n]
    /\ IF Cur.n = 0 THEN Step ELSE UNCHANGED pc
    /\ Yield
    /\ FlowRest /\ OpRest

WaitOn ==
    /\ Running({"WAIT"}) /\ wait[cur] > 1
    /\ wait' = [wait EXCEPT ![cur] = @ - 1]
    /\ Yield
    /\ UNCHANGED pc /\ FlowRest /\ OpRest

WaitEnd ==
    /\ Running({"WAIT"}) /\ wait[cur] = 1
    /\ wait' = [wait EXCEPT ![cur] = 0]
    /\ Step /\ GoOn
    /\ FlowRest /\ OpRest

Back ==
    /\ Running({"BACK"})
    /\ pc' = [pc EXCEPT ![cur] = Cur.to]
    /\ Yield
    /\ UNCHANGED wait /\ FlowRest /\ OpRest

Skip ==
    /\ Running({"SKIP"})
    /\ pc' = [pc EXCEPT ![cur] = Cur.to]
    /\ GoOn
    /\ UNCHANGED wait /\ FlowRest /\ OpRest

\* The comparison reads script variables, which are not modelled.
If ==
    /\ Running({"IF"})
    /\ \/ Step
       \/ pc' = [pc EXCEPT ![cur] = Cur.to]
    /\ GoOn
    /\ UNCHANGED wait /\ FlowRest /\ OpRest

Nop ==
    /\ Running({"NOP"})
    /\ Step /\ GoOn
    /\ UNCHANGED wait /\ FlowRest /\ OpRest

Poll ==
    /\ Running({"POLL"})
    /\ \/ Yield /\ UNCHANGED pc
       \/ GoOn /\ Step
    /\ UNCHANGED wait /\ FlowRest /\ OpRest
----------------------------------------------------------------------------
(***************************************************************************)
(* Player control, lines, party                                            *)
(***************************************************************************)
Rest == UNCHANGED <<map, wait>> /\ FlowRest

Uc ==
    /\ Running({"UC"})
    /\ locked' = (Cur.n # 0) /\ lockSaved' = (Cur.n # 0)
    /\ Step /\ GoOn
    /\ UNCHANGED <<bodyVars, sj, sjOwner, party, trigVars>> /\ Rest

\* The player gets back the control that the last UC left him.
ReleaseNever == UNCHANGED locked
Release == locked' = lockSaved

\* ASK holds the player while its window is up.
AskOn ==
    /\ Running({"ASK"})
    /\ locked' = TRUE
    /\ Yield
    /\ UNCHANGED <<pc, bodyVars, sj, sjOwner, lockSaved, party, trigVars>> /\ Rest

AskEnd ==
    /\ Running({"ASK"})
    /\ Release
    /\ Step /\ GoOn
    /\ UNCHANGED <<bodyVars, sj, sjOwner, lockSaved, party, trigVars>> /\ Rest

\* Switching a line off forgets that the player stands on it.
Linon ==
    /\ Running({"LINON"})
    /\ line' = [line EXCEPT ![cur] = IF Cur.n = 0 THEN "off"
                                     ELSE IF @ = "off" THEN "idle" ELSE @]
    /\ Step /\ GoOn
    /\ UNCHANGED <<bodyVars, joinVars, flags, scan, talkDone>> /\ Rest

Prtye ==
    /\ Running({"PRTYE"})
    /\ party' = PartyReplace(party, Cur.party)
    /\ Step /\ GoOn
    /\ UNCHANGED <<bodyVars, sj, sjOwner, locked, lockSaved, trigVars>> /\ Rest

\* MOVE arms a walk, then polls the model until the engine reports arrival.
MoveSkip ==
    /\ Running({"MOVE"}) /\ ~HasModel(cur)
    /\ Step /\ GoOn
    /\ UNCHANGED <<bodyVars, joinVars, trigVars>> /\ Rest

MoveArm ==
    /\ Running({"MOVE"}) /\ HasModel(cur)
    /\ ~(mode[cur] = "WALK" /\ act[cur] \in {1, 2})
    /\ mode' = [mode EXCEPT ![cur] = "WALK"]
    /\ act' = [act EXCEPT ![cur] = 0]
    /\ Yield
    /\ UNCHANGED <<pc, turn, joinVars, trigVars>> /\ Rest

MoveOn ==
    /\ Running({"MOVE"}) /\ HasModel(cur)
    /\ mode[cur] = "WALK" /\ act[cur] = 1
    /\ Yield
    /\ UNCHANGED <<pc, bodyVars, joinVars, trigVars>> /\ Rest

MoveEnd ==
    /\ Running({"MOVE"}) /\ HasModel(cur)
    /\ mode[cur] = "WALK" /\ act[cur] = 2
    /\ mode' = [mode EXCEPT ![cur] = "NONE"]
    /\ act' = [act EXCEPT ![cur] = 0]
    /\ Step /\ GoOn
    /\ UNCHANGED <<turn, joinVars, trigVars>> /\ Rest
----------------------------------------------------------------------------
(***************************************************************************)
(* JOIN and SPLIT: one entity's script drives the two followers through a  *)
(* turn and a walk (JOIN) or a walk and a turn (SPLIT), one step per frame *)
(***************************************************************************)
Leader    == EntityAt(0)
Followers == {EntityAt(1), EntityAt(2)} \ {NoEntity}
LeaderOnly == {EntityAt(0)} \ {NoEntity}
Members   == {EntityAt(i) : i \in Slot} \ {NoEntity}

Follower(s, m, a, u) == [sj |-> s, mode |-> m, act |-> a, turn |-> u]
Now(f)   == Follower(sj[f], mode[f], act[f], turn[f])
Turned(f) == ~HasModel(f) \/ turn[f] = 3
StartTurn(f) == IF HasModel(f) THEN 2 ELSE turn[f]
StopTurn(f)  == IF HasModel(f) THEN 0 ELSE turn[f]

\* What FieldEventJoinSet leaves of a follower it is called for.
JoinSetTurns(f) ==
    CASE Leader = NoEntity -> Now(f)
      [] Leader # NoEntity /\ sj[f] = 0 -> Follower(2, mode[f], act[f], StartTurn(f))
      [] Leader # NoEntity /\ sj[f] = 2 /\ Turned(f) -> Follower(1, "WALK", 0, StopTurn(f))
      [] Leader # NoEntity /\ sj[f] = 1 /\ act[f] = 2 -> Follower(2, "NONE", 0, StartTurn(f))
      [] OTHER -> Now(f)
JoinSet(f) ==
    CASE Leader = NoEntity -> Now(f)
      [] Leader # NoEntity /\ sj[f] = 0 -> Follower(2, mode[f], act[f], StartTurn(f))
      [] Leader # NoEntity /\ sj[f] = 2 /\ Turned(f) -> Follower(1, "WALK", 0, StopTurn(f))
      [] Leader # NoEntity /\ sj[f] = 1 /\ act[f] = 2 -> Follower(3, "NONE", 0, turn[f])
      [] OTHER -> Now(f)
JoinOk(f) == Leader = NoEntity \/ JoinSet(f).sj = 3

\* What FieldEventSplitSet leaves of it; the walk is armed only with a leader.
SplitSet(f) ==
    CASE sj[f] = 0 -> IF Leader = NoEntity THEN Follower(1, mode[f], act[f], turn[f])
                                           ELSE Follower(1, "WALK", 0, turn[f])
      [] sj[f] = 1 /\ act[f] = 2 -> Follower(2, "NONE", 0, StartTurn(f))
      [] sj[f] = 2 /\ Turned(f) -> Follower(3, mode[f], act[f], StopTurn(f))
      [] OTHER -> Now(f)
SplitOk(f) == SplitSet(f).sj = 3

\* Both handlers: the followers have made their step Set(f).
Gathering(Set(_)) ==        \* not both are done: hold the player and the leader
    /\ sjOwner' = cur
    /\ locked' = TRUE
    /\ sj' = [e \in Entity |-> IF e = Leader THEN 1
                               ELSE IF e \in Followers THEN Set(e).sj ELSE sj[e]]
    /\ mode' = [e \in Entity |-> IF e = Leader THEN "NONE"
                                 ELSE IF e \in Followers THEN Set(e).mode ELSE mode[e]]
    /\ act' = [e \in Entity |-> IF e = Leader THEN 0
                                ELSE IF e \in Followers THEN Set(e).act ELSE act[e]]
    /\ turn' = [e \in Entity |-> IF e \in Followers THEN Set(e).turn ELSE turn[e]]
    /\ Yield
    /\ UNCHANGED <<pc, lockSaved, party, trigVars>> /\ Rest

Gathered(Set(_)) ==         \* both are: release everyone
    /\ sjOwner' = NoEntity
    /\ Release
    /\ sj' = [e \in Entity |-> IF e \in Members THEN 0 ELSE sj[e]]
    /\ mode' = [e \in Entity |-> IF e \in Followers THEN Set(e).mode ELSE mode[e]]
    /\ act' = [e \in Entity |-> IF e \in Followers THEN Set(e).act ELSE act[e]]
    /\ turn' = [e \in Entity |-> IF e \in Followers THEN Set(e).turn ELSE turn[e]]
    /\ Step /\ GoOn
    /\ UNCHANGED <<lockSaved, party, trigVars>> /\ Rest

JoinOn  == Running({"JOIN"})  /\ (\E f \in Followers : ~JoinOk(f)) /\ Gathering(JoinSet)
JoinEnd == Running({"JOIN"})  /\ (\A f \in Followers : JoinOk(f))  /\ Gathered(JoinSet)
SplitOn == Running({"SPLIT"}) /\ (\E f \in Followers : ~SplitOk(f)) /\ Gathering(SplitSet)
SplitEnd == Running({"SPLIT"}) /\ (\A f \in Followers : SplitOk(f)) /\ Gathered(SplitSet)
----------------------------------------------------------------------------
(***************************************************************************)
(* The trigger checks at the start of a cycle.  Scan positions 0, 1, 2 ... *)
(* are the checks in the order of the code: talk and push of each model,   *)
(* then talk, push, across, touch on, touch off and touch of each line.    *)
(***************************************************************************)
LineScripts == <<1, 2, 3, 5, 6, 4>>
NumChecks == 2 * Len(Img.models) + 6 * Len(Img.lines)
LineCheck(i) == i - 2 * Len(Img.models)
IsModelCheck(i) == i < 2 * Len(Img.models)
CheckEntity(i) == IF IsModelCheck(i) THEN Img.models[(i \div 2) + 1]
                                     ELSE Img.lines[(LineCheck(i) \div 6) + 1]
CheckScript(i) == IF IsModelCheck(i) THEN (i % 2) + 1
                                     ELSE LineScripts[(LineCheck(i) % 6) + 1]
IsTalk(i)  == CheckScript(i) = 1
IsTouch(i) == ~IsModelCheck(i) /\ CheckScript(i) = 4

\* The touch flag is the line's own state and is not consumed by its check.
Raised(i) == IF IsTouch(i) THEN line[CheckEntity(i)] = "touch" ELSE i \in flags

\* FieldEventRequestRun: the engine's request for script s at level 1.
Accepts(e, q, s) == /\ prio[e] > q /\ sync[e][q] = "NONE"
                    /\ Code(Start(e, s)).op # "RET"
RequestRun(e, q, s) ==
    IF Accepts(e, q, s)
    THEN /\ Suspend(e, q)
         /\ pc' = [pc EXCEPT ![e] = Start(e, s)]
    ELSE UNCHANGED <<pc, prio, saved, wait, mode>>

\* The next raised check.  A talk check is dropped while the player is locked,
\* and only one model may be talked to per frame; the flag goes either way.
ScanCheck(i) ==
    /\ phase = "scan" /\ i >= scan /\ Raised(i)
    /\ \A k \in scan .. i - 1 : ~Raised(k)
    /\ IF IsTalk(i) /\ (locked \/ (IsModelCheck(i) /\ talkDone))
       THEN UNCHANGED <<pc, prio, saved, wait, mode, talkDone>>
       ELSE /\ RequestRun(CheckEntity(i), 1, CheckScript(i))
            /\ talkDone' = (talkDone \/ (IsTalk(i) /\ IsModelCheck(i)))
    /\ flags' = flags \ {i}
    /\ scan' = i + 1
    /\ UNCHANGED <<map, sync, waiter, act, turn, joinVars, line, turnVars>>

ScanEnd ==
    /\ phase = "scan"
    /\ \A k \in scan .. NumChecks - 1 : ~Raised(k)
    /\ phase' = "cycle"
    /\ left' = NumEntities /\ ops' = 8
    /\ scan' = 0
    /\ talkDone' = FALSE
    /\ UNCHANGED <<map, stackVars, bodyVars, joinVars, line, flags, cur>>

----------------------------------------------------------------------------
(***************************************************************************)
(* The engine, between two cycles: FieldEntityMovementUpdate,              *)
(* FieldEntityLineCheck, FieldEntityLineInteract, FieldEntityCheckTalk and *)
(* the collision test, reduced to what they tell the scripts.              *)
(***************************************************************************)
EngineRest == UNCHANGED <<map, stackVars, joinVars, scan, talkDone, turnVars>>

EngineWalk(e) ==        \* a scripted walk goes on or arrives, for good
    /\ phase = "engine" /\ mode[e] = "WALK" /\ act[e] # 2
    /\ \E s \in {1, 2} : act' = [act EXCEPT ![e] = s]
    /\ UNCHANGED <<mode, turn, line, flags>> /\ EngineRest

EngineArrive(e) == EngineWalk(e) /\ act'[e] = 2

EngineTurn(e) ==
    /\ phase = "engine" /\ turn[e] = 2
    /\ turn' = [turn EXCEPT ![e] = 3]
    /\ UNCHANGED <<mode, act, line, flags>> /\ EngineRest

\* The player talks to or walks into a model other than his own.  Of TalkOff and
\* SolidOff only what JOIN and SPLIT set while they walk a follower is modelled.
EngineModel(i) ==
    /\ phase = "engine" /\ i < 2 * Len(Img.models)
    /\ CheckEntity(i) # Leader /\ sj[CheckEntity(i)] # 1
    /\ flags' = flags \cup {i}
    /\ UNCHANGED <<bodyVars, line>> /\ EngineRest

\* The player is on an active line: perhaps crosses it, pushes it, talks to it.
EngineOnLine(j) ==
    /\ phase = "engine" /\ j \in DOMAIN Img.lines
    /\ LET e == Img.lines[j]
           at(k) == 2 * Len(Img.models) + 6 * (j - 1) + k
       IN  /\ line[e] # "off"
           /\ line' = [line EXCEPT ![e] = "touch"]
           /\ \E more \in SUBSET {at(0), at(1), at(2)} :
                flags' = flags \cup more
                           \cup (IF line[e] = "idle" THEN {at(3)} ELSE {})
    /\ UNCHANGED bodyVars /\ EngineRest

EngineOffLine(j) ==
    /\ phase = "engine" /\ j \in DOMAIN Img.lines
    /\ line[Img.lines[j]] = "touch"
    /\ line' = [line EXCEPT ![Img.lines[j]] = "idle"]
    /\ flags' = flags \cup {2 * Len(Img.models) + 6 * (j - 1) + 4}
    /\ UNCHANGED bodyVars /\ EngineRest

FrameStart ==
    /\ phase = "engine"
    /\ phase' = "scan"
    /\ UNCHANGED <<map, stackVars, bodyVars, joinVars, trigVars, cur, left, ops>>

Engine == \/ \E e \in Entity : EngineWalk(e) \/ EngineTurn(e)
          \/ \E i \in 0 .. NumChecks - 1 : EngineModel(i)
          \/ \E j \in 1 .. Len(Img.lines) : EngineOnLine(j) \/ EngineOffLine(j)
----------------------------------------------------------------------------
Opcode == \/ FieldEventRequest \/ RetMain \/ Ret \/ Retto
          \/ Wait1 \/ WaitStart \/ WaitOn \/ WaitEnd
          \/ Back \/ Skip \/ If \/ Nop \/ Poll
          \/ Uc \/ AskOn \/ AskEnd \/ Linon \/ Prtye
          \/ MoveSkip \/ MoveArm \/ MoveOn \/ MoveEnd
          \/ JoinOn \/ JoinEnd \/ SplitOn \/ SplitEnd
Cycle == SkipFrozen \/ Opcode
Scan  == ScanEnd \/ \E i \in 0 .. NumChecks - 1 : ScanCheck(i)

Next == Engine \/ FrameStart \/ Scan \/ Cycle

\* FieldMainLoop never blocks: every frame ends, and the next one starts.
Spec     == Init /\ [][Next]_vars
FairSpec == Spec /\ WF_vars(FrameStart) /\ WF_vars(Scan) /\ WF_vars(Cycle)

\* Besides, a model whose way is clear arrives and a turning model has turned
\* after so many frames.
MotionFairness == \A e \in Entity : SF_vars(EngineArrive(e)) /\ SF_vars(EngineTurn(e))
LiveSpec == FairSpec /\ MotionFairness
----------------------------------------------------------------------------
(***************************************************************************)
(* What the scripts of some maps keep to and the scheduler relies on.      *)
(***************************************************************************)
\* C holds all the code that main scripts run, and RETTO takes none of it to a
\* more urgent level: the main script, which no level keeps then, would be lost.
MainCode(img, C) ==
    /\ C \subseteq Addr
    /\ \A e \in Entity : img.main[e] \in C
    /\ \A a \in C : LET i == img.code[a] IN
         /\ i.op \in FallsThrough => a + 1 \in C
         /\ i.op \in Jumps => i.to \in C
         /\ i.op = "RETTO" => i.prio = MainLevel
    /\ \A a \in Addr : LET i == img.code[a] IN
         i.op = "RETTO" /\ i.prio = MainLevel => img.entry[img.owner[a]][i.script] \in C

----------------------------------------------------------------------------
(***************************************************************************)
(* Correctness                                                             *)
(***************************************************************************)
TypeOK ==
    /\ map \in Map
    /\ pc \in [Entity -> Addr \cup {NoAddr}]
    /\ prio \in [Entity -> Level]
    /\ saved \in [Entity -> [Level -> Addr \cup {NoAddr}]]
    /\ sync \in [Entity -> [Level -> {"NONE", "WAITING", "DONE"}]]
    /\ waiter \in [Entity -> [Level -> Entity \cup {NoEntity}]]
    /\ wait \in [Entity -> Nat]
    /\ mode \in [Entity -> {"NONE", "WALK"}]
    /\ act \in [Entity -> 0 .. 2]
    /\ turn \in [Entity -> {0, 2, 3}]
    /\ sj \in [Entity -> 0 .. 3]
    /\ sjOwner \in Entity \cup {NoEntity}
    /\ locked \in BOOLEAN /\ lockSaved \in BOOLEAN
    /\ party \in Party
    /\ line \in [Entity -> {"off", "idle", "touch"}]
    /\ flags \subseteq 0 .. NumChecks - 1
    /\ phase \in {"engine", "scan", "cycle"}
    /\ scan \in 0 .. NumChecks
    /\ talkDone \in BOOLEAN
    /\ cur \in Entity
    /\ left \in 0 .. NumEntities
    /\ ops \in 1 .. 8

\* An entity runs the most urgent script it has: no level at or above the
\* running one keeps a program counter.
StackShape == \A e \in Entity, l \in Level : l <= prio[e] => saved[e][l] = NoAddr

\* The main script is never lost while another one runs, and no entity ever
\* runs from address 0, the header of the script file.
MainKept ==
    \A e \in Entity : /\ pc[e] # NoAddr
                      /\ prio[e] # MainLevel => saved[e][MainLevel] # NoAddr

\* Every program counter, running or kept, is in the code of its own entity.
CodeOwned ==
    \A e \in Entity, l \in Level :
      Frame(e, l) # NoAddr => Img.owner[Frame(e, l)] = e

\* A level that somebody waits on holds the script that will answer: whatever
\* preempts, parks or returns in between, the wake-up cannot be lost.
NoLostWakeup ==
    \A t \in Entity, q \in Level :
      sync[t][q] = "WAITING" => Frame(t, q) # NoAddr

\* The one wait counter an entity has belongs to the WAIT its running script
\* stands on: a preempting or resumed script never inherits a count.
WaitOwner ==
    \A e \in Entity :
      wait[e] # 0 => /\ pc[e] \in Addr /\ Code(pc[e]).op = "WAIT"
                     /\ wait[e] <= Code(pc[e]).n

\* A suspended or parked script stays where it is until it is resumed.
SuspendedKept ==
    [][\A e \in Entity, l \in Level :
         saved[e][l] # NoAddr /\ prio'[e] # l => saved'[e][l] = saved[e][l]]_vars

\* A wait can only be ended by the script waited for: until it has returned,
\* no other request takes the level or the place of the waiter.
WaitKept ==
    [][\A t \in Entity, q \in Level :
         sync[t][q] = "WAITING" => /\ waiter'[t][q] = waiter[t][q]
                                   /\ sync'[t][q] # "NONE"
                                   /\ sync'[t][q] = "DONE" => Frame(t, q)' = NoAddr]_vars

\* Somebody gathers or splits the party: its script stands on JOIN or SPLIT, on
\* whatever level it has been put by now.
HasDriver ==
    /\ sjOwner # NoEntity
    /\ \E d \in Entity, l \in Level :
         Frame(d, l) # NoAddr /\ Code(Frame(d, l)).op \in {"JOIN", "SPLIT"}
InParty(e) == \E i \in Slot : party[i] # NoChar /\ Img.entityOf[party[i]] = e

\* A frozen entity has a driver that is going to release it, or has lost it for
\* good: the driver let everybody go while PRTYE had put this one out of the
\* party.  That is the only way to be left behind, whatever preempts the driver
\* or happens to the party before.
FrozenIsLet ==
    [][\A e \in Entity : sj'[e] # 0 /\ ~HasDriver'
                         => sj[e] # 0 /\ (~HasDriver \/ ~InParty(e))]_vars

\* The player is held without a UC only while some script is in the middle of
\* an ASK, a JOIN or a SPLIT.
LockHasHolder ==
    locked # lockSaved =>
      \E d \in Entity, l \in Level :
        Frame(d, l) # NoAddr /\ Code(Frame(d, l)).op \in {"ASK", "JOIN", "SPLIT"}

\* The walk of a follower that JOIN or SPLIT has set walking, whose end the
\* driving script polls for, is not cancelled by its own scripts or by another
\* entity's, unless it is the driver itself: only a request that preempts the
\* follower does so.
WalkKept ==
    [][\A f \in Entity :
         sj[f] = 1 /\ sj'[f] = 1 /\ f # Leader /\ f # sjOwner
             /\ mode[f] = "WALK" /\ mode'[f] # "WALK"
           => prio'[f] < prio[f]]_vars

\* Every script runs on the stack discipline of ScriptStack.
Stack == INSTANCE ScriptStack WITH
           Bottom <- MainLevel, None <- NoAddr,
           frames <- [e \in Entity |-> [l \in Level |-> Frame(e, l)]]
StackSpec == Stack!Spec

\* A script that waits for another one is not kept waiting for ever, and a party
\* that gathers has gathered at last.
EveryWaitAnswered ==
    \A t \in Entity, q \in Level : sync[t][q] = "WAITING" ~> sync[t][q] # "WAITING"
GatheringEnds == \A e \in Entity : sj[e] # 0 ~> sj[e] = 0
=============================================================================
