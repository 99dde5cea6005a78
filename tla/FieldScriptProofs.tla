------------------------- MODULE FieldScriptProofs -------------------------
(***************************************************************************)
(* Proofs about FieldScript, for every number of entities, every set of    *)
(* well-formed script images and every interleaving of their scripts.      *)
(***************************************************************************)
EXTENDS FieldScript, TLAPS

(***************************************************************************)
(* The type invariant in parts, one per group of variables.                *)
(***************************************************************************)
TurnOK == /\ phase \in {"engine", "scan", "cycle"}
          /\ cur \in Entity
          /\ left \in 0 .. NumEntities
          /\ phase = "cycle" => left # 0
          /\ ops \in 1 .. 8
StackOK == /\ pc \in [Entity -> Addr \cup {NoAddr}]
           /\ prio \in [Entity -> Level]
           /\ saved \in [Entity -> [Level -> Addr \cup {NoAddr}]]
           /\ sync \in [Entity -> [Level -> {"NONE", "WAITING", "DONE"}]]
           /\ waiter \in [Entity -> [Level -> Entity \cup {NoEntity}]]
           /\ wait \in [Entity -> Nat]
BodyOK == /\ mode \in [Entity -> {"NONE", "WALK"}]
          /\ act \in [Entity -> 0 .. 2]
          /\ turn \in [Entity -> {0, 2, 3}]
GatherOK == /\ sj \in [Entity -> 0 .. 3]
            /\ sjOwner \in Entity \cup {NoEntity}
            /\ locked \in BOOLEAN /\ lockSaved \in BOOLEAN
            /\ party \in Party
TrigOK == /\ line \in [Entity -> {"off", "idle", "touch"}]
          /\ flags \subseteq 0 .. NumChecks - 1
          /\ scan \in 0 .. NumChecks
          /\ talkDone \in BOOLEAN
\* Program counters are in the code of their own entity.
OwnedOK == /\ \A e \in Entity : pc[e] # NoAddr => Img.owner[pc[e]] = e
           /\ \A e \in Entity, l \in Level :
                saved[e][l] # NoAddr => Img.owner[saved[e][l]] = e
TypeInv == /\ map \in Map
           /\ TurnOK /\ StackOK /\ OwnedOK /\ BodyOK /\ GatherOK /\ TrigOK

LEMMA TypeInvTypeOK == TypeInv => TypeOK /\ CodeOwned
  BY DEF TypeInv, TurnOK, StackOK, BodyOK, GatherOK, TrigOK, TypeOK,
         OwnedOK, CodeOwned, Frame

----------------------------------------------------------------------------
(***************************************************************************)
(* Updates of the tables kept by entity and level.                         *)
(***************************************************************************)
LEMMA SetAt ==
  ASSUME NEW A, NEW B, NEW C, NEW f \in [A -> [B -> C]],
         NEW a \in A, NEW b \in B, NEW c \in C, NEW g, g = [f EXCEPT ![a][b] = c]
  PROVE  /\ g \in [A -> [B -> C]]
         /\ \A x \in A, y \in B : g[x][y] = IF x = a /\ y = b THEN c ELSE f[x][y]
  OBVIOUS

(***************************************************************************)
(* What a well-formed image gives the actions.                             *)
(***************************************************************************)
LEMMA ImgWellFormed == map \in Map => WellFormed(Img)
  BY ImagesAssumption DEF Img

LEMMA InstrFields ==
  ASSUME NEW i \in Instr
  PROVE  /\ i.op \in Op /\ i.who \in Entity \cup {NoEntity} \cup Slot
         /\ i.prio \in Level /\ i.script \in ScriptId /\ i.n \in Nat
         /\ i.to \in Addr /\ i.party \in [Slot -> PartyCode]
  BY DEF Instr

LEMMA CurInstr ==
  ASSUME TypeInv, NEW ks, Running(ks)
  PROVE  /\ cur \in Entity /\ pc[cur] \in Addr /\ Cur \in Instr /\ Cur.op \in ks
         /\ phase = "cycle"
  <1>1. Img.code \in [Addr -> Instr]
    BY ImgWellFormed DEF TypeInv, WellFormed
  <1>2. QED
    BY <1>1 DEF Running, Cur, Code, TypeInv, TurnOK

LEMMA NextAddr ==
  ASSUME TypeInv, NEW ks, Running(ks), ks \subseteq FallsThrough
  PROVE  pc[cur] + 1 \in Addr /\ Img.owner[pc[cur] + 1] = cur
  <1>1. pc[cur] \in Addr /\ Cur.op \in FallsThrough
    BY CurInstr
  <1>2. Img.owner[pc[cur]] = cur
    BY <1>1 DEF TypeInv, OwnedOK, TurnOK, Addr, NoAddr
  <1>3. QED
    BY <1>1, <1>2, ImgWellFormed DEF WellFormed, TypeInv, Cur, Code

LEMMA StartAddr ==
  ASSUME TypeInv, NEW e \in Entity, NEW s \in ScriptId
  PROVE  Start(e, s) \in Addr /\ Img.owner[Start(e, s)] = e
  BY ImgWellFormed DEF TypeInv, WellFormed, Start

LEMMA CurEntry ==
  ASSUME TypeInv, NEW ks, Running(ks), NEW e \in Entity
  PROVE  Start(e, Cur.script) \in Addr /\ Img.owner[Start(e, Cur.script)] = e
  BY CurInstr, InstrFields, StartAddr

----------------------------------------------------------------------------
(***************************************************************************)
(* Turns                                                                   *)
(***************************************************************************)
LEMMA YieldTurn ==
  ASSUME TurnOK, phase = "cycle", Yield
  PROVE  TurnOK'
  <1>1. NumEntities \in Nat /\ NumEntities > 0
    BY SizesAssumption
  <1>2. cur + 1 \in Nat
    BY DEF TurnOK, Entity
  <1>3. (cur + 1) % NumEntities \in 0 .. NumEntities - 1
    BY <1>1, <1>2
  <1>4. QED
    BY <1>1, <1>3 DEF TurnOK, Yield, Entity

LEMMA GoOnTurn ==
  ASSUME TurnOK, phase = "cycle", GoOn
  PROVE  TurnOK'
  <1>1. CASE ops = 1
    BY <1>1, YieldTurn DEF GoOn
  <1>2. CASE ops # 1
    BY <1>2 DEF GoOn, TurnOK
  <1>3. QED
    BY <1>1, <1>2

----------------------------------------------------------------------------
(***************************************************************************)
(* Groups of variables a step leaves alone.                                *)
(***************************************************************************)
LEMMA TrigKept ==
  ASSUME TrigOK, map' = map, UNCHANGED trigVars
  PROVE  TrigOK'
  BY DEF TrigOK, trigVars, NumChecks, Img

LEMMA GatherKept ==
  ASSUME GatherOK, UNCHANGED joinVars
  PROVE  GatherOK'
  BY DEF GatherOK, joinVars

LEMMA BodyKept ==
  ASSUME BodyOK, UNCHANGED bodyVars
  PROVE  BodyOK'
  BY DEF BodyOK, bodyVars

LEMMA StackKept ==
  ASSUME StackOK, OwnedOK, map' = map, UNCHANGED stackVars
  PROVE  StackOK' /\ OwnedOK'
  BY DEF StackOK, OwnedOK, Img, stackVars

(***************************************************************************)
(* The running script takes a step in its own code.                        *)
(***************************************************************************)
LEMMA Stepped ==
  ASSUME TypeInv, NEW ks, Running(ks), ks \subseteq FallsThrough, Step,
         map' = map, saved' = saved
  PROVE  pc' \in [Entity -> Addr \cup {NoAddr}] /\ OwnedOK'
  <1>1. pc[cur] + 1 \in Addr /\ Img.owner[pc[cur] + 1] = cur /\ cur \in Entity
    BY NextAddr, CurInstr
  <1>2. pc' \in [Entity -> Addr \cup {NoAddr}]
    BY <1>1 DEF Step, TypeInv, StackOK
  <1>3. OwnedOK'
    BY <1>1 DEF Step, TypeInv, StackOK, OwnedOK, Img
  <1>4. QED
    BY <1>2, <1>3

(***************************************************************************)
(* Requests preserve the type invariant.                                   *)
(***************************************************************************)
LEMMA RequestRestType ==
  ASSUME TypeInv, ReqRest, mode' \in [Entity -> {"NONE", "WALK"}]
  PROVE  map' \in Map /\ BodyOK' /\ GatherOK' /\ TrigOK'
  <1>1. map' = map /\ UNCHANGED <<act, turn>> /\ UNCHANGED joinVars /\ UNCHANGED trigVars
    BY DEF ReqRest
  <1>2. BodyOK'
    BY <1>1 DEF TypeInv, BodyOK
  <1>3. GatherOK' /\ TrigOK'
    BY <1>1, GatherKept, TrigKept DEF TypeInv
  <1>4. QED
    BY <1>1, <1>2, <1>3 DEF TypeInv

LEMMA SentType ==
  ASSUME TypeInv, phase = "cycle", NEW t \in Entity, NEW q \in Level, Sent(t, q)
  PROVE  /\ TurnOK'
         /\ sync' \in [Entity -> [Level -> {"NONE", "WAITING", "DONE"}]]
         /\ waiter' \in [Entity -> [Level -> Entity \cup {NoEntity}]]
  <1>1. CASE Cur.op \in EndReq
    <2>1. TurnOK' /\ cur \in Entity
      BY <1>1, YieldTurn DEF Sent, TypeInv, TurnOK
    <2>2. sync' \in [Entity -> [Level -> {"NONE", "WAITING", "DONE"}]]
      <3>1. sync' = [sync EXCEPT ![t][q] = "WAITING"]
        BY <1>1 DEF Sent
      <3>2. sync \in [Entity -> [Level -> {"NONE", "WAITING", "DONE"}]]
        BY DEF TypeInv, StackOK
      <3>3. QED
        BY <3>1, <3>2, SetAt
    <2>3. waiter' \in [Entity -> [Level -> Entity \cup {NoEntity}]]
      <3>1. waiter' = [waiter EXCEPT ![t][q] = cur]
        BY <1>1 DEF Sent
      <3>2. waiter \in [Entity -> [Level -> Entity \cup {NoEntity}]]
        BY DEF TypeInv, StackOK
      <3>3. cur \in Entity \cup {NoEntity}
        BY <2>1
      <3>4. QED
        BY <3>1, <3>2, <3>3, SetAt
    <2>4. QED
      BY <2>1, <2>2, <2>3
  <1>2. CASE Cur.op \notin EndReq
    <2>1. TurnOK'
      BY <1>2, GoOnTurn DEF Sent, TypeInv
    <2>2. QED
      BY <1>2, <2>1 DEF Sent, TypeInv, StackOK
  <1>3. QED
    BY <1>1, <1>2

LEMMA RequestOps == ReqOp \subseteq FallsThrough
  BY DEF ReqOp, FallsThrough, Op, Request, StartReq, EndReq

LEMMA OtherAsker ==
  ASSUME TypeInv, NEW t \in Entity, NEW q \in Level, Asks(t, q), ~AskerStays
  PROVE  t # cur
  <1>1. /\ cur \in Entity /\ pc[cur] \in Addr /\ Cur \in Instr /\ Cur.op \in ReqOp
        /\ t = Target /\ Cur.op \notin EndReq
    BY CurInstr DEF Asks, AskerStays
  <1>2. Img.owner[pc[cur]] = cur
    BY <1>1 DEF TypeInv, OwnedOK, Addr, NoAddr
  <1>3. WellFormed(Img)
    BY ImgWellFormed DEF TypeInv
  <1>4. CASE Cur.op \in {"REQ", "REQSW"}
    <2>1. Cur.who # Img.owner[pc[cur]]
      BY <1>1, <1>3, <1>4 DEF WellFormed, Cur, Code
    <2>2. t = Cur.who
      BY <1>1, <1>4 DEF Target, PartyReq
    <2>3. QED
      BY <2>1, <2>2, <1>2
  <1>5. CASE Cur.op \in {"PREQ", "PRQSW"}
    <2>1. Cur.who \in Slot /\ \A c \in Char : Img.entityOf[c] # Img.owner[pc[cur]]
      BY <1>1, <1>3, <1>5 DEF WellFormed, Cur, Code, PartyReq
    <2>2. t = EntityAt(Cur.who)
      BY <1>1, <1>5 DEF Target, PartyReq
    <2>3. party[Cur.who] \in Char \cup {NoChar}
      BY <2>1 DEF TypeInv, GatherOK, Party
    <2>4. t # NoEntity
      BY DEF Asks
    <2>5. QED
      BY <2>1, <2>2, <2>3, <2>4, <1>2 DEF EntityAt
  <1>6. QED
    BY <1>1, <1>4, <1>5 DEF ReqOp, Request, StartReq, EndReq

LEMMA RequestType ==
  ASSUME TypeInv, FieldEventRequest
  PROVE  TypeInv'
  <1>0. Running(ReqOp)
    BY DEF FieldEventRequest, RequestNoOne, RequestAwait, RequestEnd, RequestSkip,
           RequestBusy, RequestPark, RequestPreempt, RequestBusyStar, Asks
  <1>a. phase = "cycle" /\ cur \in Entity /\ pc[cur] + 1 \in Addr /\ TurnOK
        /\ Img.owner[pc[cur] + 1] = cur
    BY <1>0, CurInstr, NextAddr, RequestOps DEF TypeInv
  <1>b. StackOK /\ OwnedOK /\ mode \in [Entity -> {"NONE", "WALK"}]
    BY DEF TypeInv, BodyOK
  <1>c. ASSUME Step, map' = map, saved' = saved
        PROVE  pc' \in [Entity -> Addr \cup {NoAddr}] /\ OwnedOK'
    BY <1>0, <1>c, Stepped, RequestOps
  <1>d. ASSUME ReqRest
        PROVE  map' = map
    BY <1>d DEF ReqRest
  <1>1. ASSUME RequestNoOne \/ \E t \in Entity, q \in Level : RequestSkip(t, q)
        PROVE  TypeInv'
    <2>1. /\ Step /\ GoOn /\ ReqRest
          /\ UNCHANGED <<prio, saved, sync, waiter, wait, mode>>
      BY <1>1 DEF RequestNoOne, RequestSkip
    <2>2. TurnOK'
      BY <2>1, <1>a, GoOnTurn
    <2>3. StackOK' /\ OwnedOK'
      BY <2>1, <1>b, <1>c, <1>d DEF StackOK
    <2>4. QED
      BY <2>1, <2>2, <2>3, <1>b, RequestRestType DEF TypeInv
  <1>2. ASSUME NEW t \in Entity, NEW q \in Level,
               RequestAwait(t, q) \/ RequestBusy(t, q) \/ RequestBusyStar(t, q)
        PROVE  TypeInv'
    <2>1. Yield /\ UNCHANGED stackVars /\ mode' = mode /\ ReqRest
      BY <1>2 DEF RequestAwait, RequestBusy, RequestBusyStar
    <2>2. TurnOK'
      BY <2>1, <1>a, YieldTurn
    <2>3. StackOK' /\ OwnedOK'
      BY <2>1, <1>b, <1>d, StackKept
    <2>4. QED
      BY <2>1, <2>2, <2>3, <1>b, RequestRestType DEF TypeInv
  <1>3. ASSUME NEW t \in Entity, NEW q \in Level, RequestEnd(t, q)
        PROVE  TypeInv'
    <2>1. /\ Step /\ GoOn /\ mode' = mode /\ saved' = saved /\ ReqRest
          /\ TurnOK'
      BY <1>3, <1>a, GoOnTurn DEF RequestEnd
    <2>2. pc' \in [Entity -> Addr \cup {NoAddr}] /\ OwnedOK'
      BY <2>1, <1>c, <1>d
    <2>3. StackOK'
      BY <1>3, <1>b, <2>2 DEF RequestEnd, StackOK
    <2>4. QED
      BY <2>1, <2>2, <2>3, <1>b, RequestRestType DEF TypeInv
  <1>4. ASSUME NEW t \in Entity, NEW q \in Level, RequestPark(t, q)
        PROVE  TypeInv'
    <2>1. /\ TurnOK' /\ mode' = mode /\ ReqRest
          /\ sync' \in [Entity -> [Level -> {"NONE", "WAITING", "DONE"}]]
          /\ waiter' \in [Entity -> [Level -> Entity \cup {NoEntity}]]
      BY <1>4, <1>a, SentType DEF RequestPark
    <2>2. Start(t, Cur.script) \in Addr /\ Img.owner[Start(t, Cur.script)] = t
      BY <1>0, CurEntry
    <2>3. saved' = [saved EXCEPT ![t][q] = Start(t, Cur.script)]
      BY <1>4 DEF RequestPark
    <2>4. saved' \in [Entity -> [Level -> Addr \cup {NoAddr}]]
      BY <2>3, <1>b, <2>2 DEF StackOK
    <2>5. pc' = pc \/ pc' = [pc EXCEPT ![cur] = @ + 1]
      BY <1>4 DEF RequestPark, Step
    <2>6. pc' \in [Entity -> Addr \cup {NoAddr}]
      BY <2>5, <1>a, <1>b DEF StackOK
    <2>7. OwnedOK'
      <3>1. \A e \in Entity : pc'[e] # NoAddr => Img'.owner[pc'[e]] = e
        BY <2>1, <1>d, <2>5, <1>a, <1>b DEF StackOK, OwnedOK, Img
      <3>2. \A e \in Entity, l \in Level :
              saved'[e][l] = IF e = t /\ l = q THEN Start(t, Cur.script) ELSE saved[e][l]
        BY <2>2, <2>3, <1>b, SetAt DEF StackOK
      <3>3. QED
        BY <2>1, <1>d, <2>2, <3>1, <3>2, <1>b DEF OwnedOK, Img
    <2>8. StackOK'
      BY <1>4, <1>b, <2>1, <2>4, <2>6 DEF RequestPark, StackOK
    <2>9. QED
      BY <2>1, <2>7, <2>8, <1>b, RequestRestType DEF TypeInv
  <1>5. ASSUME NEW t \in Entity, NEW q \in Level, RequestPreempt(t, q)
        PROVE  TypeInv'
    <2>1. /\ TurnOK' /\ ReqRest
          /\ sync' \in [Entity -> [Level -> {"NONE", "WAITING", "DONE"}]]
          /\ waiter' \in [Entity -> [Level -> Entity \cup {NoEntity}]]
      BY <1>5, <1>a, SentType DEF RequestPreempt
    <2>2. Start(t, Cur.script) \in Addr /\ Img.owner[Start(t, Cur.script)] = t
      BY <1>0, CurEntry
    <2>3. /\ saved' = [saved EXCEPT ![t][prio[t]] = pc[t]]
          /\ prio' = [prio EXCEPT ![t] = q]
          /\ wait' = [wait EXCEPT ![t] = 0]
          /\ mode' = IF HasModel(t) THEN [mode EXCEPT ![t] = "NONE"] ELSE mode
      BY <1>5 DEF RequestPreempt, Suspend, Keep, DropCount
    <2>4. /\ saved' \in [Entity -> [Level -> Addr \cup {NoAddr}]]
          /\ prio' \in [Entity -> Level]
          /\ wait' \in [Entity -> Nat]
          /\ mode' \in [Entity -> {"NONE", "WALK"}]
      BY <2>3, <1>b DEF StackOK
    <2>5. \A e \in Entity : pc'[e] = IF e = t THEN Start(t, Cur.script)
                                     ELSE IF e = cur /\ ~AskerStays THEN pc[cur] + 1
                                     ELSE pc[e]
      <3>1. ~AskerStays => t # cur
        BY <1>5, OtherAsker DEF RequestPreempt
      <3>2. QED
        BY <3>1, <1>5, <1>a, <1>b DEF RequestPreempt, StackOK
    <2>6. pc' \in [Entity -> Addr \cup {NoAddr}]
      <3>1. DOMAIN pc' = Entity /\ pc' = [e \in Entity |-> pc'[e]]
        BY <1>5, <1>b DEF RequestPreempt, StackOK
      <3>2. \A e \in Entity : pc'[e] \in Addr \cup {NoAddr}
        BY <2>2, <2>5, <1>a, <1>b DEF StackOK
      <3>3. QED
        BY <3>1, <3>2
    <2>7. OwnedOK'
      <3>1. \A e \in Entity : pc'[e] # NoAddr => Img'.owner[pc'[e]] = e
        BY <2>1, <1>d, <2>2, <2>5, <1>a, <1>b DEF OwnedOK, Img
      <3>2. \A e \in Entity, l \in Level :
              saved'[e][l] = IF e = t /\ l = prio[t] THEN pc[t] ELSE saved[e][l]
        BY <2>3, <1>b DEF StackOK
      <3>3. QED
        BY <2>1, <1>d, <3>1, <3>2, <1>b DEF OwnedOK, Img
    <2>8. StackOK'
      BY <2>1, <2>4, <2>6 DEF StackOK
    <2>9. QED
      BY <2>1, <2>4, <2>7, <2>8, RequestRestType DEF TypeInv
  <1>6. QED
    BY <1>1, <1>2, <1>3, <1>4, <1>5 DEF FieldEventRequest

----------------------------------------------------------------------------
(***************************************************************************)
(* Returns, jumps and waits.                                               *)
(***************************************************************************)
LEMMA AnswerType ==
  ASSUME StackOK, NEW e \in Entity, NEW ls, Answer(e, ls)
  PROVE  /\ sync' \in [Entity -> [Level -> {"NONE", "WAITING", "DONE"}]]
         /\ \A t \in Entity, l \in Level :
              sync'[t][l] = IF t = e /\ l \in ls /\ sync[t][l] = "WAITING"
                            THEN "DONE" ELSE sync[t][l]
  BY DEF StackOK, Answer

LEMMA OpRestType ==
  ASSUME TypeInv, OpRest
  PROVE  map' = map /\ map' \in Map /\ BodyOK' /\ GatherOK' /\ TrigOK'
  BY BodyKept, GatherKept, TrigKept DEF OpRest, TypeInv

LEMMA RetType ==
  ASSUME TypeInv, Ret
  PROVE  TypeInv'
  <1>1. phase = "cycle" /\ cur \in Entity /\ TurnOK /\ StackOK /\ OwnedOK
    BY CurInstr DEF Ret, TypeInv
  <1>2. OpRest /\ GoOn /\ Answer(cur, {prio[cur]}) /\ UNCHANGED <<waiter, wait>>
    BY DEF Ret
  <1>3. PICK l \in Level : /\ Resumes(cur, l)
                           /\ prio' = [prio EXCEPT ![cur] = l]
                           /\ pc' = [pc EXCEPT ![cur] = saved[cur][l]]
                           /\ Empty(cur, l)
    BY DEF Ret
  <1>4. /\ saved' \in [Entity -> [Level -> Addr \cup {NoAddr}]]
        /\ \A e \in Entity, k \in Level :
             saved'[e][k] = IF e = cur /\ k = l THEN NoAddr ELSE saved[e][k]
    BY <1>1, <1>3, SetAt DEF Empty, StackOK
  <1>5. pc' \in [Entity -> Addr \cup {NoAddr}] /\ prio' \in [Entity -> Level]
    BY <1>1, <1>3 DEF StackOK
  <1>6. StackOK'
    BY <1>1, <1>2, <1>4, <1>5, AnswerType DEF StackOK
  <1>7. OwnedOK'
    BY <1>1, <1>2, <1>3, <1>4, OpRestType DEF OwnedOK, StackOK, Img
  <1>8. QED
    BY <1>1, <1>2, <1>6, <1>7, GoOnTurn, OpRestType DEF TypeInv

LEMMA RettoType ==
  ASSUME TypeInv, Retto
  PROVE  TypeInv'
  <1>1. phase = "cycle" /\ cur \in Entity /\ TurnOK /\ StackOK /\ OwnedOK /\ Cur.prio \in Level
    BY CurInstr, InstrFields DEF Retto, TypeInv
  <1>2. OpRest /\ GoOn /\ Answer(cur, prio[cur] .. Cur.prio - 2) /\ UNCHANGED <<waiter, wait>>
    BY DEF Retto
  <1>3. Start(cur, Cur.script) \in Addr /\ Img.owner[Start(cur, Cur.script)] = cur
    BY <1>1, CurEntry DEF Retto
  <1>4. \A e \in Entity, k \in Level : saved'[e][k] = saved[e][k] \/ saved'[e][k] = NoAddr
    BY <1>1 DEF Retto, StackOK
  <1>5. saved' \in [Entity -> [Level -> Addr \cup {NoAddr}]]
    BY <1>1 DEF Retto, StackOK
  <1>6. pc' \in [Entity -> Addr \cup {NoAddr}] /\ prio' \in [Entity -> Level]
    BY <1>1, <1>3 DEF Retto, StackOK
  <1>7. StackOK'
    BY <1>1, <1>2, <1>5, <1>6, AnswerType DEF StackOK
  <1>8. pc' = [pc EXCEPT ![cur] = Start(cur, Cur.script)]
    BY DEF Retto
  <1>9. OwnedOK'
    BY <1>1, <1>2, <1>3, <1>4, <1>8, OpRestType DEF OwnedOK, StackOK, Img
  <1>10. QED
    BY <1>1, <1>2, <1>7, <1>9, GoOnTurn, OpRestType DEF TypeInv

LEMMA Jumped ==
  ASSUME TypeInv, NEW ks, Running(ks), ks \subseteq Jumps,
         pc' = [pc EXCEPT ![cur] = Cur.to], map' = map, saved' = saved
  PROVE  pc' \in [Entity -> Addr \cup {NoAddr}] /\ OwnedOK'
  <1>1. cur \in Entity /\ pc[cur] \in Addr /\ Cur.op \in Jumps /\ Cur.to \in Addr
    BY CurInstr, InstrFields
  <1>2. Img.owner[pc[cur]] = cur
    BY <1>1 DEF TypeInv, OwnedOK, Addr, NoAddr
  <1>3. Img.owner[Cur.to] = cur
    BY <1>1, <1>2, ImgWellFormed DEF WellFormed, TypeInv, Cur, Code
  <1>4. QED
    BY <1>1, <1>3 DEF TypeInv, StackOK, OwnedOK, Img

\* A handler that leaves the request tables alone: the program counter may
\* step, jump or stay, and the turn goes on or not.
Flow(ks) == /\ Running(ks)
            /\ \/ Step /\ ks \subseteq FallsThrough
               \/ pc' = [pc EXCEPT ![cur] = Cur.to] /\ ks \subseteq Jumps
               \/ UNCHANGED pc
            /\ Yield \/ GoOn
            /\ FlowRest
            /\ map' = map

LEMMA FlowType ==
  ASSUME TypeInv, NEW ks, Flow(ks), wait' \in [Entity -> Nat]
  PROVE  TurnOK' /\ StackOK' /\ OwnedOK'
  <1>1. phase = "cycle" /\ TurnOK /\ StackOK /\ OwnedOK
    BY CurInstr DEF Flow, TypeInv
  <1>2. TurnOK'
    BY <1>1, YieldTurn, GoOnTurn DEF Flow
  <1>3. map' = map /\ saved' = saved /\ FlowRest
    BY DEF Flow, FlowRest
  <1>4. pc' \in [Entity -> Addr \cup {NoAddr}] /\ OwnedOK'
    <2>1. CASE Step /\ ks \subseteq FallsThrough
      BY <2>1, <1>3, Stepped DEF Flow
    <2>2. CASE pc' = [pc EXCEPT ![cur] = Cur.to] /\ ks \subseteq Jumps
      BY <2>2, <1>3, Jumped DEF Flow
    <2>3. CASE UNCHANGED pc
      BY <2>3, <1>1, <1>3 DEF StackOK, OwnedOK, Img
    <2>4. QED
      BY <2>1, <2>2, <2>3 DEF Flow
  <1>5. StackOK'
    BY <1>1, <1>3, <1>4 DEF StackOK, FlowRest
  <1>6. QED
    BY <1>2, <1>4, <1>5

LEMMA WaitType ==
  ASSUME TypeInv, Wait1 \/ WaitStart \/ WaitOn \/ WaitEnd \/ Nop \/ Poll
  PROVE  TypeInv'
  <1>1. OpRest /\ map' = map
    BY DEF OpRest, Wait1, WaitStart, WaitOn, WaitEnd, Nop, Poll
  <1>2. PICK ks \in {{"WAIT1"}, {"WAIT"}, {"NOP"}, {"POLL"}} : Flow(ks)
    BY <1>1 DEF Flow, Wait1, WaitStart, WaitOn, WaitEnd, Nop, Poll, FallsThrough, Op
  <1>3. wait' \in [Entity -> Nat]
    <2>1. wait \in [Entity -> Nat]
      BY DEF TypeInv, StackOK
    <2>2. CASE WaitStart
      <3>1. Cur.n \in Nat
        BY <2>2, CurInstr, InstrFields DEF WaitStart
      <3>2. QED
        BY <2>1, <2>2, <3>1 DEF WaitStart
    <2>3. CASE WaitOn
      <3>1. cur \in Entity /\ wait[cur] - 1 \in Nat
        BY <2>1, <2>3 DEF WaitOn, TypeInv, TurnOK
      <3>2. QED
        BY <2>1, <2>3, <3>1 DEF WaitOn
    <2>4. CASE WaitEnd
      BY <2>1, <2>4 DEF WaitEnd
    <2>5. CASE Wait1 \/ Nop \/ Poll
      BY <2>1, <2>5 DEF Wait1, Nop, Poll
    <2>6. QED
      BY <2>2, <2>3, <2>4, <2>5
  <1>4. QED
    BY <1>1, <1>2, <1>3, FlowType, OpRestType DEF TypeInv

LEMMA JumpType ==
  ASSUME TypeInv, Back \/ Skip \/ If
  PROVE  TypeInv'
  <1>1. OpRest /\ map' = map /\ wait' = wait
    BY DEF OpRest, Back, Skip, If
  <1>2. PICK ks \in {{"BACK"}, {"SKIP"}, {"IF"}} : Flow(ks)
    BY <1>1 DEF Flow, Back, Skip, If, Jumps, FallsThrough, Op
  <1>3. QED
    BY <1>1, <1>2, FlowType, OpRestType DEF TypeInv, StackOK

LEMMA RetMainType ==
  ASSUME TypeInv, RetMain
  PROVE  TypeInv'
  <1>1. OpRest /\ map' = map /\ UNCHANGED stackVars /\ TurnOK'
    BY CurInstr, YieldTurn DEF RetMain, OpRest, TypeInv
  <1>2. QED
    BY <1>1, StackKept, OpRestType DEF TypeInv

----------------------------------------------------------------------------
(***************************************************************************)
(* The party and the player's control.                                     *)
(***************************************************************************)
\* A handler that is a Flow and leaves the wait counters alone.
LEMMA RestFlow ==
  ASSUME TypeInv, NEW ks, Running(ks), Rest, Yield \/ GoOn,
         UNCHANGED pc \/ (Step /\ ks \subseteq FallsThrough)
  PROVE  map' = map /\ TurnOK' /\ StackOK' /\ OwnedOK'
  <1>1. map' = map /\ wait' = wait /\ FlowRest
    BY DEF Rest
  <1>2. Flow(ks)
    BY <1>1 DEF Flow
  <1>3. wait' \in [Entity -> Nat]
    BY <1>1 DEF TypeInv, StackOK
  <1>4. QED
    BY <1>1, <1>2, <1>3, FlowType

LEMMA LockType ==
  ASSUME TypeInv, Uc \/ AskOn \/ AskEnd
  PROVE  TypeInv'
  <1>1. PICK ks \in {{"UC"}, {"ASK"}} : Running(ks) /\ ks \subseteq FallsThrough
    BY DEF Uc, AskOn, AskEnd, FallsThrough, Op
  <1>2. Rest /\ (Yield \/ GoOn) /\ (UNCHANGED pc \/ Step)
    BY DEF Uc, AskOn, AskEnd
  <1>3. UNCHANGED bodyVars /\ UNCHANGED trigVars /\ UNCHANGED <<sj, sjOwner, party>>
    BY DEF Uc, AskOn, AskEnd
  <1>4. locked' \in BOOLEAN /\ lockSaved' \in BOOLEAN
    BY DEF Uc, AskOn, AskEnd, Release, TypeInv, GatherOK
  <1>5. GatherOK'
    BY <1>3, <1>4 DEF TypeInv, GatherOK
  <1>6. QED
    BY <1>1, <1>2, <1>3, <1>5, RestFlow, BodyKept, TrigKept DEF TypeInv

LEMMA LinonType ==
  ASSUME TypeInv, Linon
  PROVE  TypeInv'
  <1>1. Running({"LINON"}) /\ {"LINON"} \subseteq FallsThrough /\ cur \in Entity
    BY CurInstr DEF Linon, FallsThrough, Op
  <1>2. /\ Rest /\ GoOn /\ Step
        /\ UNCHANGED bodyVars /\ UNCHANGED joinVars /\ UNCHANGED <<flags, scan, talkDone>>
    BY DEF Linon
  <1>3. map' = map /\ TurnOK' /\ StackOK' /\ OwnedOK'
    BY <1>1, <1>2, RestFlow
  <1>4. line' \in [Entity -> {"off", "idle", "touch"}]
    BY <1>1 DEF Linon, TypeInv, TrigOK
  <1>5. TrigOK'
    BY <1>2, <1>3, <1>4 DEF TypeInv, TrigOK, NumChecks, Img
  <1>6. QED
    BY <1>2, <1>3, <1>5, BodyKept, GatherKept DEF TypeInv

\* Whatever party is asked for, slots hold characters or nobody.
LEMMA PartyReplaceType ==
  ASSUME NEW p \in Party, NEW new \in [Slot -> PartyCode]
  PROVE  PartyReplace(p, new) \in Party
  <1>1. ASSUME NEW i \in Slot
        PROVE  PartyReplace(p, new)[i] \in Char \cup {NoChar}
    <2>1. CASE \E j \in Slot : Moves(p, new, j, i)
      <3>1. (CHOOSE j \in Slot : Moves(p, new, j, i)) \in Slot
        BY <2>1
      <3>2. QED
        BY <2>1, <3>1 DEF PartyReplace, Party
    <2>2. CASE ~\E j \in Slot : Moves(p, new, j, i)
      BY <2>2 DEF PartyReplace, PartyCode
    <2>3. QED
      BY <2>1, <2>2
  <1>2. PartyReplace(p, new) = [i \in Slot |-> PartyReplace(p, new)[i]]
    BY DEF PartyReplace
  <1>3. QED
    BY <1>1, <1>2 DEF Party

LEMMA PrtyeType ==
  ASSUME TypeInv, Prtye
  PROVE  TypeInv'
  <1>1. /\ Running({"PRTYE"}) /\ {"PRTYE"} \subseteq FallsThrough
        /\ Cur.party \in [Slot -> PartyCode]
    BY CurInstr, InstrFields DEF Prtye, FallsThrough, Op
  <1>2. /\ Rest /\ GoOn /\ Step
        /\ UNCHANGED bodyVars /\ UNCHANGED trigVars
        /\ UNCHANGED <<sj, sjOwner, locked, lockSaved>>
    BY DEF Prtye
  <1>3. party' \in Party
    BY <1>1, PartyReplaceType DEF Prtye, TypeInv, GatherOK
  <1>4. GatherOK'
    BY <1>2, <1>3 DEF TypeInv, GatherOK
  <1>5. QED
    BY <1>1, <1>2, <1>4, RestFlow, BodyKept, TrigKept DEF TypeInv

LEMMA MoveType ==
  ASSUME TypeInv, MoveSkip \/ MoveArm \/ MoveOn \/ MoveEnd
  PROVE  TypeInv'
  <1>1. Running({"MOVE"}) /\ {"MOVE"} \subseteq FallsThrough /\ cur \in Entity
    BY CurInstr DEF MoveSkip, MoveArm, MoveOn, MoveEnd, FallsThrough, Op
  <1>2. /\ Rest /\ (Yield \/ GoOn) /\ (UNCHANGED pc \/ Step)
        /\ UNCHANGED joinVars /\ UNCHANGED trigVars /\ turn' = turn
    BY DEF MoveSkip, MoveArm, MoveOn, MoveEnd, bodyVars
  <1>3. mode' \in [Entity -> {"NONE", "WALK"}] /\ act' \in [Entity -> 0 .. 2]
    BY <1>1 DEF MoveSkip, MoveArm, MoveOn, MoveEnd, bodyVars, TypeInv, BodyOK
  <1>4. BodyOK'
    BY <1>2, <1>3 DEF TypeInv, BodyOK
  <1>5. QED
    BY <1>1, <1>2, <1>4, RestFlow, GatherKept, TrigKept DEF TypeInv

\* A member after its step of a JOIN or a SPLIT.
Steps == [sj : 0 .. 3, mode : {"NONE", "WALK"}, act : 0 .. 2, turn : {0, 2, 3}]

LEMMA JoinSetType ==
  ASSUME TypeInv, NEW f \in Entity
  PROVE  JoinSet(f) \in Steps /\ SplitSet(f) \in Steps
  <1>1. /\ sj[f] \in 0 .. 3 /\ mode[f] \in {"NONE", "WALK"} /\ act[f] \in 0 .. 2
        /\ turn[f] \in {0, 2, 3}
    BY DEF TypeInv, BodyOK, GatherOK
  <1>2. /\ StartTurn(f) \in {0, 2, 3} /\ StopTurn(f) \in {0, 2, 3} /\ Now(f) \in Steps
    BY <1>1 DEF StartTurn, StopTurn, Now, Follower, Steps
  <1>3. \A s \in 0 .. 3, m \in {"NONE", "WALK"}, a \in 0 .. 2, u \in {0, 2, 3} :
          Follower(s, m, a, u) \in Steps
    BY DEF Follower, Steps
  <1>4. JoinSet(f) \in Steps
    BY <1>1, <1>2, <1>3 DEF JoinSet
  <1>5. SplitSet(f) \in Steps
    BY <1>1, <1>2, <1>3 DEF SplitSet
  <1>6. QED
    BY <1>4, <1>5

LEMMA GatherType ==
  ASSUME TypeInv, JoinOn \/ JoinEnd \/ SplitOn \/ SplitEnd
  PROVE  TypeInv'
  <1>1. PICK ks \in {{"JOIN"}, {"SPLIT"}} : Running(ks) /\ ks \subseteq FallsThrough
    BY DEF JoinOn, JoinEnd, SplitOn, SplitEnd, FallsThrough, Op
  <1>2. cur \in Entity /\ BodyOK /\ GatherOK
    BY <1>1, CurInstr DEF TypeInv
  <1>3. /\ Rest /\ (Yield \/ GoOn) /\ (UNCHANGED pc \/ Step)
        /\ UNCHANGED trigVars /\ UNCHANGED <<lockSaved, party>>
    BY DEF JoinOn, JoinEnd, SplitOn, SplitEnd, Gathering, Gathered
  <1>4. sjOwner' \in Entity \cup {NoEntity} /\ locked' \in BOOLEAN
    BY <1>2 DEF JoinOn, JoinEnd, SplitOn, SplitEnd, Gathering, Gathered, Release, GatherOK
  <1>5. sj' \in [Entity -> 0 .. 3]
    BY <1>2, JoinSetType DEF JoinOn, JoinEnd, SplitOn, SplitEnd, Gathering, Gathered, GatherOK, Steps
  <1>6. mode' \in [Entity -> {"NONE", "WALK"}]
    BY <1>2, JoinSetType DEF JoinOn, JoinEnd, SplitOn, SplitEnd, Gathering, Gathered, BodyOK, Steps
  <1>7. act' \in [Entity -> 0 .. 2]
    BY <1>2, JoinSetType DEF JoinOn, JoinEnd, SplitOn, SplitEnd, Gathering, Gathered, BodyOK, Steps
  <1>8. turn' \in [Entity -> {0, 2, 3}]
    BY <1>2, JoinSetType DEF JoinOn, JoinEnd, SplitOn, SplitEnd, Gathering, Gathered, BodyOK, Steps
  <1>9. BodyOK' /\ GatherOK'
    BY <1>2, <1>3, <1>4, <1>5, <1>6, <1>7, <1>8 DEF BodyOK, GatherOK
  <1>10. QED
    BY <1>1, <1>3, <1>9, RestFlow, TrigKept DEF TypeInv

----------------------------------------------------------------------------
(***************************************************************************)
(* The trigger checks and the engine.                                      *)
(***************************************************************************)
LEMMA Sizes == NumEntities \in Nat /\ NumEntities > 0
  BY SizesAssumption

LEMMA CheckSizes ==
  ASSUME map \in Map
  PROVE  \E m \in Nat, l \in Nat : /\ Len(Img.models) = m /\ Len(Img.lines) = l
                                   /\ NumChecks = 2 * m + 6 * l
  <1>1. Len(Img.models) \in Nat /\ Len(Img.lines) \in Nat
    BY ImgWellFormed DEF WellFormed
  <1>2. NumChecks = 2 * Len(Img.models) + 6 * Len(Img.lines)
    BY DEF NumChecks
  <1>3. QED
    BY <1>1, <1>2

LEMMA CheckTarget ==
  ASSUME TypeInv, NEW i \in 0 .. NumChecks - 1
  PROVE  CheckEntity(i) \in Entity /\ CheckScript(i) \in ScriptId
  <1>1. Img.models \in Seq(Entity) /\ Img.lines \in Seq(Entity)
    BY ImgWellFormed DEF TypeInv, WellFormed
  <1>2. PICK m \in Nat, l \in Nat : /\ Len(Img.models) = m /\ Len(Img.lines) = l
                                    /\ NumChecks = 2 * m + 6 * l
    BY CheckSizes DEF TypeInv
  <1>0. i \in Nat /\ i < 2 * m + 6 * l
    BY <1>2
  <1>3. CASE IsModelCheck(i)
    <2>1. i < 2 * m
      BY <1>2, <1>3 DEF IsModelCheck
    <2>2. (i \div 2) + 1 \in 1 .. Len(Img.models) /\ i % 2 \in 0 .. 1
      <3>1. (i \div 2) + 1 \in 1 .. m /\ i % 2 \in 0 .. 1
        BY <1>0, <2>1
      <3>2. QED
        BY <1>2, <3>1
    <2>3. CheckEntity(i) \in Entity
      BY <1>1, <1>3, <2>2 DEF CheckEntity
    <2>4. CheckScript(i) \in 1 .. 2
      BY <1>3, <2>2 DEF CheckScript
    <2>5. QED
      BY <2>3, <2>4, SizesAssumption DEF ScriptId
  <1>4. CASE ~IsModelCheck(i)
    <2>1. PICK k \in Nat : LineCheck(i) = k /\ k < 6 * l
      <3>1. i >= 2 * m /\ LineCheck(i) = i - 2 * m
        BY <1>0, <1>2, <1>4 DEF IsModelCheck, LineCheck
      <3>2. i - 2 * m \in Nat /\ i - 2 * m < 6 * l
        BY <1>0, <3>1
      <3>3. QED
        BY <3>1, <3>2
    <2>2. (LineCheck(i) \div 6) + 1 \in 1 .. Len(Img.lines) /\ LineCheck(i) % 6 \in 0 .. 5
      <3>1. (k \div 6) + 1 \in 1 .. l /\ k % 6 \in 0 .. 5
        BY <2>1
      <3>2. QED
        BY <1>2, <2>1, <3>1
    <2>3. CheckEntity(i) \in Entity
      BY <1>1, <1>4, <2>2 DEF CheckEntity
    <2>4. CheckScript(i) \in 1 .. 6
      BY <1>4, <2>2 DEF CheckScript, LineScripts
    <2>5. QED
      BY <2>3, <2>4, SizesAssumption DEF ScriptId
  <1>5. QED
    BY <1>3, <1>4

LEMMA RequestRunType ==
  ASSUME TypeInv, NEW e \in Entity, NEW q \in Level, NEW s \in ScriptId,
         RequestRun(e, q, s), map' = map, UNCHANGED <<sync, waiter, act, turn>>
  PROVE  StackOK' /\ OwnedOK' /\ BodyOK'
  <1>1. StackOK /\ OwnedOK /\ BodyOK
    BY DEF TypeInv
  <1>2. CASE Accepts(e, q, s)
    <2>1. Start(e, s) \in Addr /\ Img.owner[Start(e, s)] = e
      BY StartAddr
    <2>2. /\ saved' = [saved EXCEPT ![e][prio[e]] = pc[e]]
          /\ prio' = [prio EXCEPT ![e] = q]
          /\ wait' = [wait EXCEPT ![e] = 0]
          /\ mode' = IF HasModel(e) THEN [mode EXCEPT ![e] = "NONE"] ELSE mode
          /\ pc' = [pc EXCEPT ![e] = Start(e, s)]
      BY <1>2 DEF RequestRun, Suspend, Keep, DropCount
    <2>3. StackOK'
      BY <1>1, <2>1, <2>2 DEF StackOK
    <2>4. \A d \in Entity, l \in Level :
            saved'[d][l] = IF d = e /\ l = prio[e] THEN pc[e] ELSE saved[d][l]
      BY <1>1, <2>2 DEF StackOK
    <2>5. OwnedOK'
      BY <1>1, <2>1, <2>2, <2>4 DEF OwnedOK, StackOK, Img
    <2>6. BodyOK'
      BY <1>1, <2>2 DEF BodyOK
    <2>7. QED
      BY <2>3, <2>5, <2>6
  <1>3. CASE ~Accepts(e, q, s)
    BY <1>1, <1>3 DEF RequestRun, StackOK, OwnedOK, BodyOK, Img
  <1>4. QED
    BY <1>2, <1>3

LEMMA ScanType ==
  ASSUME TypeInv, Scan
  PROVE  TypeInv'
  <1>1. CASE ScanEnd
    <2>1. TurnOK'
      <3>1. NumEntities \in 0 .. NumEntities /\ NumEntities # 0 /\ 8 \in 1 .. 8
        BY Sizes
      <3>2. QED
        BY <1>1, <3>1 DEF ScanEnd, TypeInv, TurnOK
    <2>2. TrigOK'
      <3>1. 0 \in 0 .. NumChecks
        BY CheckSizes DEF TypeInv
      <3>2. QED
        BY <1>1, <3>1 DEF ScanEnd, TypeInv, TrigOK, NumChecks, Img
    <2>3. QED
      BY <1>1, <2>1, <2>2, StackKept, BodyKept, GatherKept DEF ScanEnd, TypeInv
  <1>2. ASSUME NEW i \in 0 .. NumChecks - 1, ScanCheck(i)
        PROVE  TypeInv'
    <2>1. /\ map' = map /\ UNCHANGED <<sync, waiter, act, turn>>
          /\ UNCHANGED joinVars /\ UNCHANGED turnVars /\ line' = line
          /\ flags' = flags \ {i} /\ scan' = i + 1
      BY <1>2 DEF ScanCheck
    <2>2. StackOK' /\ OwnedOK' /\ BodyOK'
      <3>1. CASE UNCHANGED <<pc, prio, saved, wait, mode, talkDone>>
        BY <2>1, <3>1 DEF TypeInv, StackOK, OwnedOK, BodyOK, Img
      <3>2. CASE RequestRun(CheckEntity(i), 1, CheckScript(i))
        <4>1. CheckEntity(i) \in Entity /\ CheckScript(i) \in ScriptId /\ 1 \in Level
          BY CheckTarget DEF Level
        <4>2. QED
          BY <2>1, <3>2, <4>1, RequestRunType
      <3>3. QED
        BY <1>2, <3>1, <3>2 DEF ScanCheck
    <2>3. talkDone' \in BOOLEAN
      BY <1>2 DEF ScanCheck, TypeInv, TrigOK
    <2>4. scan' \in 0 .. NumChecks
      <3>1. PICK m \in Nat, l \in Nat : NumChecks = 2 * m + 6 * l
        BY CheckSizes DEF TypeInv
      <3>2. i \in 0 .. (2 * m + 6 * l) - 1
        BY <3>1
      <3>3. i + 1 \in 0 .. 2 * m + 6 * l
        BY <3>2
      <3>4. QED
        BY <2>1, <3>1, <3>3
    <2>5. TrigOK'
      BY <2>1, <2>3, <2>4 DEF TypeInv, TrigOK, NumChecks, Img
    <2>6. TurnOK'
      BY <2>1 DEF turnVars, TypeInv, TurnOK
    <2>7. QED
      BY <2>1, <2>2, <2>5, <2>6, GatherKept DEF TypeInv
  <1>3. QED
    BY <1>1, <1>2 DEF Scan

LEMMA EngineRestType ==
  ASSUME TypeInv, EngineRest, BodyOK',
         line' \in [Entity -> {"off", "idle", "touch"}], flags' \subseteq 0 .. NumChecks - 1
  PROVE  TypeInv'
  <1>1. /\ map' = map /\ UNCHANGED stackVars /\ UNCHANGED joinVars
        /\ UNCHANGED <<scan, talkDone>> /\ UNCHANGED turnVars
    BY DEF EngineRest
  <1>2. TurnOK'
    BY <1>1 DEF turnVars, TypeInv, TurnOK
  <1>3. TrigOK'
    BY <1>1 DEF TypeInv, TrigOK, NumChecks, Img
  <1>4. QED
    BY <1>1, <1>2, <1>3, StackKept, GatherKept DEF TypeInv

LEMMA EngineType ==
  ASSUME TypeInv, Engine
  PROVE  TypeInv'
  <1>1. BodyOK /\ TrigOK
    BY DEF TypeInv
  <1>2. Img.models \in Seq(Entity) /\ Img.lines \in Seq(Entity)
    BY ImgWellFormed DEF TypeInv, WellFormed
  <1>3. ASSUME NEW e \in Entity, EngineWalk(e) \/ EngineTurn(e)
        PROVE  TypeInv'
    <2>1. EngineRest /\ line' = line /\ flags' = flags
      BY <1>3 DEF EngineWalk, EngineTurn
    <2>2. BodyOK'
      BY <1>1, <1>3 DEF EngineWalk, EngineTurn, BodyOK
    <2>3. QED
      BY <1>1, <2>1, <2>2, EngineRestType DEF TrigOK
  <1>4. ASSUME NEW i \in 0 .. NumChecks - 1, EngineModel(i)
        PROVE  TypeInv'
    <2>1. EngineRest /\ line' = line /\ flags' = flags \cup {i} /\ BodyOK'
      BY <1>1, <1>4, BodyKept DEF EngineModel
    <2>2. QED
      BY <1>1, <2>1, EngineRestType DEF TrigOK
  <1>5. ASSUME NEW j \in 1 .. Len(Img.lines), EngineOnLine(j) \/ EngineOffLine(j)
        PROVE  TypeInv'
    <2>1. Img.lines[j] \in Entity
      BY <1>2
    <2>2. EngineRest /\ BodyOK'
      BY <1>1, <1>5, BodyKept DEF EngineOnLine, EngineOffLine
    <2>3. line' \in [Entity -> {"off", "idle", "touch"}]
      BY <1>1, <1>5, <2>1 DEF EngineOnLine, EngineOffLine, TrigOK
    <2>4. PICK m \in Nat, l \in Nat : /\ Len(Img.models) = m /\ Len(Img.lines) = l
                                      /\ NumChecks = 2 * m + 6 * l
      BY CheckSizes DEF TypeInv
    <2>7. j \in 1 .. l
      BY <2>4
    <2>8. /\ 2 * m + 6 * (j - 1) + 0 \in 0 .. (2 * m + 6 * l) - 1
          /\ 2 * m + 6 * (j - 1) + 1 \in 0 .. (2 * m + 6 * l) - 1
          /\ 2 * m + 6 * (j - 1) + 2 \in 0 .. (2 * m + 6 * l) - 1
          /\ 2 * m + 6 * (j - 1) + 3 \in 0 .. (2 * m + 6 * l) - 1
          /\ 2 * m + 6 * (j - 1) + 4 \in 0 .. (2 * m + 6 * l) - 1
      BY <2>7
    <2>5. flags' \subseteq 0 .. NumChecks - 1
      <3>1. CASE EngineOnLine(j)
        <4>1. DEFINE at(k) == 2 * Len(Img.models) + 6 * (j - 1) + k
        <4>2. at(0) \in 0 .. NumChecks - 1 /\ at(1) \in 0 .. NumChecks - 1
              /\ at(2) \in 0 .. NumChecks - 1 /\ at(3) \in 0 .. NumChecks - 1
          BY <2>4, <2>8
        <4>3. PICK more \in SUBSET {at(0), at(1), at(2)} :
                flags' = flags \cup more
                           \cup (IF line[Img.lines[j]] = "idle" THEN {at(3)} ELSE {})
          BY <3>1 DEF EngineOnLine
        <4>4. more \subseteq 0 .. NumChecks - 1 /\ {at(3)} \subseteq 0 .. NumChecks - 1
          BY <4>2
        <4>5. flags \subseteq 0 .. NumChecks - 1
          BY <1>1 DEF TrigOK
        <4> HIDE DEF at
        <4>6. QED
          BY <4>3, <4>4, <4>5
      <3>2. CASE EngineOffLine(j)
        <4>1. flags' = flags \cup {2 * Len(Img.models) + 6 * (j - 1) + 4}
          BY <3>2 DEF EngineOffLine
        <4>2. 2 * Len(Img.models) + 6 * (j - 1) + 4 \in 0 .. NumChecks - 1
          BY <2>4, <2>8
        <4>3. flags \subseteq 0 .. NumChecks - 1
          BY <1>1 DEF TrigOK
        <4>4. QED
          BY <4>1, <4>2, <4>3
      <3>3. QED
        BY <1>5, <3>1, <3>2
    <2>6. QED
      BY <2>2, <2>3, <2>5, EngineRestType
  <1>6. QED
    BY <1>3, <1>4, <1>5 DEF Engine

----------------------------------------------------------------------------
(***************************************************************************)
(* The type invariant holds of every image, also of one that uses RETTO.   *)
(***************************************************************************)
LEMMA TypeInit == Init => TypeInv
  <1> SUFFICES ASSUME Init PROVE TypeInv
    OBVIOUS
  <1>1. map \in Map /\ WellFormed(Img)
    BY ImgWellFormed DEF Init
  <1>2. 0 \in 0 .. NumChecks
    BY <1>1, CheckSizes
  <1>3. TurnOK
    <2>1. /\ 0 \in 0 .. NumEntities - 1 /\ NumEntities \in 0 .. NumEntities
          /\ NumEntities # 0 /\ 8 \in 1 .. 8
      BY Sizes
    <2>2. QED
      BY <2>1 DEF Init, TurnOK, Entity
  <1>4. StackOK
    BY <1>1 DEF Init, StackOK, WellFormed, MainLevel, Level
  <1>5. OwnedOK
    BY <1>1 DEF Init, OwnedOK, WellFormed
  <1>6. BodyOK /\ GatherOK
    BY <1>1 DEF Init, BodyOK, GatherOK, WellFormed, Party
  <1>7. TrigOK
    BY <1>2 DEF Init, TrigOK
  <1>8. QED
    BY <1>1, <1>3, <1>4, <1>5, <1>6, <1>7 DEF TypeInv

LEMMA TypeNext == TypeInv /\ [Next]_vars => TypeInv'
  <1> SUFFICES ASSUME TypeInv, [Next]_vars PROVE TypeInv'
    OBVIOUS
  <1>1. CASE Engine
    BY <1>1, EngineType
  <1>2. CASE FrameStart
    <2>1. /\ map' = map /\ UNCHANGED stackVars /\ UNCHANGED bodyVars
          /\ UNCHANGED joinVars /\ UNCHANGED trigVars /\ TurnOK'
      BY <1>2 DEF FrameStart, TypeInv, TurnOK
    <2>2. QED
      BY <2>1, StackKept, BodyKept, GatherKept, TrigKept DEF TypeInv
  <1>3. CASE Scan
    BY <1>3, ScanType
  <1>4. CASE SkipFrozen
    <2>1. /\ map' = map /\ UNCHANGED stackVars /\ UNCHANGED bodyVars
          /\ UNCHANGED joinVars /\ UNCHANGED trigVars /\ TurnOK'
      BY <1>4, YieldTurn DEF SkipFrozen, TypeInv
    <2>2. QED
      BY <2>1, StackKept, BodyKept, GatherKept, TrigKept DEF TypeInv
  <1>5. CASE Opcode
    BY <1>5, RequestType, RetMainType, RetType, RettoType, WaitType, JumpType, LockType,
       LinonType, PrtyeType, MoveType, GatherType DEF Opcode
  <1>6. CASE UNCHANGED vars
    <2>1. /\ map' = map /\ UNCHANGED stackVars /\ UNCHANGED bodyVars
          /\ UNCHANGED joinVars /\ UNCHANGED trigVars /\ TurnOK'
      BY <1>6 DEF vars, turnVars, TypeInv, TurnOK
    <2>2. QED
      BY <2>1, StackKept, BodyKept, GatherKept, TrigKept DEF TypeInv
  <1>7. QED
    BY <1>1, <1>2, <1>3, <1>4, <1>5, <1>6 DEF Next, Cycle

LEMMA TypeInvariant == Spec => []TypeInv
  BY TypeInit, TypeNext, PTL DEF Spec

\* Every variable keeps its type: the turn counters stay in range, program
\* counters stay in the image, and no party slot ever holds the forced-empty
\* code of PRTYE.
THEOREM TypeCorrect == Spec => []TypeOK
  BY TypeInvariant, TypeInvTypeOK, PTL

\* Whatever is requested, preempted or dropped, an entity runs its own code only.
THEOREM OwnCode == Spec => []CodeOwned
  BY TypeInvariant, TypeInvTypeOK, PTL

----------------------------------------------------------------------------
(***************************************************************************)
(* The wait counter.                                                       *)
(***************************************************************************)
\* What a step may leave of entity e: nothing has changed for it, its counter
\* is empty, its script has moved off an instruction that is no WAIT, or it
\* counts on the WAIT it stays on.
Counts(e) ==
    \/ pc'[e] = pc[e] /\ wait'[e] = wait[e]
    \/ wait'[e] = 0
    \/ pc[e] \in Addr /\ Code(pc[e]).op # "WAIT" /\ wait'[e] = wait[e]
    \/ /\ pc'[e] = pc[e] /\ pc[e] \in Addr /\ Code(pc[e]).op = "WAIT"
       /\ wait'[e] <= Code(pc[e]).n \/ (wait'[e] <= wait[e] /\ wait[e] # 0)
AllCount == \A e \in Entity : Counts(e)

\* The running script moves without touching its counter: it is not in a WAIT.
LEMMA Uncounted ==
  ASSUME TypeInv, NEW ks, Running(ks), "WAIT" \notin ks, wait' = wait,
         \A e \in Entity : e # cur => pc'[e] = pc[e]
  PROVE  AllCount
  <1>1. cur \in Entity /\ pc[cur] \in Addr /\ Cur.op \in ks
    BY CurInstr
  <1>2. QED
    BY <1>1 DEF AllCount, Counts, Cur

LEMMA RequestCounts ==
  ASSUME TypeInv, FieldEventRequest
  PROVE  AllCount
  <1>1. Running(ReqOp) /\ "WAIT" \notin ReqOp /\ cur \in Entity /\ StackOK
    <2>1. Running(ReqOp)
      BY DEF FieldEventRequest, RequestNoOne, RequestAwait, RequestEnd, RequestSkip,
             RequestBusy, RequestPark, RequestPreempt, RequestBusyStar, Asks
    <2>2. QED
      BY <2>1, CurInstr DEF ReqOp, Request, StartReq, EndReq, TypeInv
  <1>2. CASE \E t \in Entity, q \in Level : RequestPreempt(t, q)
    <2>1. PICK t \in Entity, q \in Level : RequestPreempt(t, q)
      BY <1>2
    <2>2. /\ wait' = [wait EXCEPT ![t] = 0]
          /\ \A e \in Entity : e # cur /\ e # t => pc'[e] = pc[e]
      BY <2>1, <1>1 DEF RequestPreempt, Suspend, DropCount, StackOK
    <2>3. pc[cur] \in Addr /\ Cur.op # "WAIT"
      BY <1>1, CurInstr
    <2>4. \A e \in Entity : wait'[e] = IF e = t THEN 0 ELSE wait[e]
      BY <2>2, <1>1 DEF StackOK
    <2>5. QED
      BY <2>2, <2>3, <2>4 DEF AllCount, Counts, Cur
  <1>3. CASE ~\E t \in Entity, q \in Level : RequestPreempt(t, q)
    <2>1. wait' = wait /\ (pc' = pc \/ Step)
      BY <1>3 DEF FieldEventRequest, RequestNoOne, RequestAwait, RequestEnd, RequestSkip,
                  RequestBusy, RequestPark, RequestBusyStar, stackVars
    <2>2. \A e \in Entity : e # cur => pc'[e] = pc[e]
      BY <2>1, <1>1 DEF Step, StackOK
    <2>3. QED
      BY <1>1, <2>1, <2>2, Uncounted
  <1>4. QED
    BY <1>2, <1>3

LEMMA ReturnCounts ==
  ASSUME TypeInv, Ret \/ Retto \/ RetMain
  PROVE  AllCount
  <1>1. PICK k \in {"RET", "RETTO"} : Running({k})
    BY DEF Ret, Retto, RetMain
  <1>2. wait' = wait /\ \A e \in Entity : e # cur => pc'[e] = pc[e]
    <2>1. StackOK /\ cur \in Entity
      BY <1>1, CurInstr DEF TypeInv
    <2>2. QED
      BY <2>1 DEF Ret, Retto, RetMain, StackOK, stackVars
  <1>3. QED
    BY <1>1, <1>2, Uncounted

LEMMA WaitCounts ==
  ASSUME TypeInv, WaitStart \/ WaitOn \/ WaitEnd
  PROVE  AllCount
  <1>1. /\ cur \in Entity /\ pc[cur] \in Addr /\ Cur.op = "WAIT" /\ Cur.n \in Nat /\ StackOK
    BY CurInstr, InstrFields DEF WaitStart, WaitOn, WaitEnd, TypeInv
  <1>2. CASE WaitStart
    <2>1. \A e \in Entity : /\ wait'[e] = IF e = cur THEN Cur.n ELSE wait[e]
                            /\ pc'[e] = IF e = cur /\ Cur.n = 0 THEN pc[e] + 1 ELSE pc[e]
      BY <1>1, <1>2 DEF WaitStart, Step, StackOK
    <2>2. QED
      BY <1>1, <2>1 DEF AllCount, Counts, Cur
  <1>3. CASE WaitOn
    <2>1. /\ pc' = pc /\ wait[cur] \in Nat /\ wait[cur] > 1
          /\ \A e \in Entity : wait'[e] = IF e = cur THEN wait[e] - 1 ELSE wait[e]
      BY <1>1, <1>3 DEF WaitOn, StackOK
    <2>2. QED
      BY <1>1, <2>1 DEF AllCount, Counts, Cur
  <1>4. CASE WaitEnd
    <2>1. \A e \in Entity : /\ wait'[e] = IF e = cur THEN 0 ELSE wait[e]
                            /\ e # cur => pc'[e] = pc[e]
      BY <1>1, <1>4 DEF WaitEnd, Step, StackOK
    <2>2. QED
      BY <2>1 DEF AllCount, Counts
  <1>5. QED
    BY <1>2, <1>3, <1>4

LEMMA OtherCounts ==
  ASSUME TypeInv, \/ Wait1 \/ Back \/ Skip \/ If \/ Nop \/ Poll
                  \/ Uc \/ AskOn \/ AskEnd \/ Linon \/ Prtye
                  \/ MoveSkip \/ MoveArm \/ MoveOn \/ MoveEnd
                  \/ JoinOn \/ JoinEnd \/ SplitOn \/ SplitEnd
  PROVE  AllCount
  <1>1. PICK k \in Op \ {"WAIT"} : Running({k})
    BY DEF Wait1, Back, Skip, If, Nop, Poll, Uc, AskOn, AskEnd, Linon, Prtye, MoveSkip, MoveArm,
           MoveOn, MoveEnd, JoinOn, JoinEnd, SplitOn, SplitEnd, Op
  <1>2. wait' = wait
    BY DEF Wait1, Back, Skip, If, Nop, Poll, Uc, AskOn, AskEnd, Linon, Prtye, MoveSkip, MoveArm,
           MoveOn, MoveEnd, JoinOn, JoinEnd, SplitOn, SplitEnd, Gathering, Gathered, Rest
  <1>3. pc' = pc \/ Step \/ pc' = [pc EXCEPT ![cur] = Cur.to]
    BY DEF Wait1, Back, Skip, If, Nop, Poll, Uc, AskOn, AskEnd, Linon, Prtye, MoveSkip, MoveArm,
           MoveOn, MoveEnd, JoinOn, JoinEnd, SplitOn, SplitEnd, Gathering, Gathered
  <1>4. \A e \in Entity : e # cur => pc'[e] = pc[e]
    BY <1>3 DEF Step, TypeInv, StackOK
  <1>5. QED
    BY <1>1, <1>2, <1>4, Uncounted

LEMMA ScanCounts ==
  ASSUME TypeInv, Scan
  PROVE  AllCount
  <1>1. StackOK
    BY DEF TypeInv
  <1>2. CASE ScanEnd
    BY <1>2 DEF ScanEnd, AllCount, Counts, stackVars
  <1>3. ASSUME NEW e \in Entity, NEW s, RequestRun(e, 1, s)
        PROVE  AllCount
    <2>1. CASE Accepts(e, 1, s)
      <3>1. \A d \in Entity : /\ wait'[d] = IF d = e THEN 0 ELSE wait[d]
                              /\ d # e => pc'[d] = pc[d]
        BY <1>1, <1>3, <2>1 DEF RequestRun, Suspend, DropCount, StackOK
      <3>2. QED
        BY <3>1 DEF AllCount, Counts
    <2>2. CASE ~Accepts(e, 1, s)
      BY <1>3, <2>2 DEF RequestRun, AllCount, Counts
    <2>3. QED
      BY <2>1, <2>2
  <1>4. ASSUME NEW i \in 0 .. NumChecks - 1, ScanCheck(i)
        PROVE  AllCount
    <2>1. CheckEntity(i) \in Entity
      BY CheckTarget
    <2>2. CASE UNCHANGED <<pc, prio, saved, wait, mode, talkDone>>
      BY <2>2 DEF AllCount, Counts
    <2>3. CASE RequestRun(CheckEntity(i), 1, CheckScript(i))
      BY <1>3, <2>1, <2>3
    <2>4. QED
      BY <1>4, <2>2, <2>3 DEF ScanCheck
  <1>5. QED
    BY <1>2, <1>4 DEF Scan

LEMMA StepCounts ==
  ASSUME TypeInv, [Next]_vars
  PROVE  AllCount /\ map' = map
  <1>1. CASE Engine \/ FrameStart \/ SkipFrozen \/ UNCHANGED vars
    <2>1. UNCHANGED stackVars /\ map' = map
      BY <1>1 DEF Engine, EngineWalk, EngineTurn, EngineModel, EngineOnLine, EngineOffLine,
                  EngineRest, FrameStart, SkipFrozen, vars
    <2>2. QED
      BY <2>1 DEF AllCount, Counts, stackVars
  <1>2. CASE Scan
    <2>1. map' = map
      BY <1>2 DEF Scan, ScanEnd, ScanCheck
    <2>2. QED
      BY <1>2, <2>1, ScanCounts
  <1>3. CASE Opcode
    <2>1. AllCount
      BY <1>3, RequestCounts, ReturnCounts, WaitCounts, OtherCounts DEF Opcode
    <2>2. CASE FieldEventRequest
      BY <2>2, <2>1 DEF FieldEventRequest, RequestNoOne, RequestAwait, RequestEnd, RequestSkip,
             RequestBusy, RequestPark, RequestPreempt, RequestBusyStar, ReqRest
    <2>3. CASE ~FieldEventRequest
      BY <1>3, <2>3, <2>1
         DEF Opcode, Ret, Retto, RetMain, Wait1, WaitStart, WaitOn, WaitEnd, Back, Skip, If, Nop,
             Poll, Uc, AskOn, AskEnd, Linon, Prtye, MoveSkip, MoveArm, MoveOn, MoveEnd, JoinOn,
             JoinEnd, SplitOn, SplitEnd, Gathering, Gathered, Rest, OpRest
    <2>4. QED
      BY <2>2, <2>3, <2>1
  <1>4. QED
    BY <1>1, <1>2, <1>3 DEF Next, Cycle

LEMMA WaitOwnerNext ==
  ASSUME TypeInv, TypeInv', WaitOwner, AllCount, map' = map
  PROVE  WaitOwner'
  <1>1. \A e \in Entity : wait[e] \in Nat /\ wait'[e] \in Nat
    BY DEF TypeInv, StackOK
  <1>2. \A a \in Addr : Img.code[a].n \in Nat
    BY ImgWellFormed, InstrFields DEF TypeInv, WellFormed
  <1>3. \A e \in Entity : wait'[e] # 0 =>
          /\ pc'[e] \in Addr /\ Img.code[pc'[e]].op = "WAIT"
          /\ wait'[e] <= Img.code[pc'[e]].n
    BY <1>1, <1>2 DEF WaitOwner, AllCount, Counts, Code
  <1>4. QED
    BY <1>3 DEF WaitOwner, Code, Img

\* The one wait counter an entity has belongs to the WAIT its running script
\* stands on: a preempting or resumed script never inherits a count.
THEOREM WaitOwned == Spec => []WaitOwner
  <1>1. Init => WaitOwner
    BY TypeInit DEF Init, WaitOwner
  <1>2. TypeInv /\ TypeInv' /\ WaitOwner /\ [Next]_vars => WaitOwner'
    BY StepCounts, WaitOwnerNext
  <1>3. QED
    BY <1>1, <1>2, TypeInvariant, PTL DEF Spec

----------------------------------------------------------------------------
(***************************************************************************)
(* The walk of a follower.                                                 *)
(***************************************************************************)
WalkKeptStep ==
    \A f \in Entity :
      sj[f] = 1 /\ sj'[f] = 1 /\ f # Leader /\ f # sjOwner
          /\ mode[f] = "WALK" /\ mode'[f] # "WALK"
        => prio'[f] < prio[f]

\* A request that is accepted drops the scripted move of its target only.
LEMMA SuspendWalk ==
  ASSUME TypeInv, NEW t \in Entity, NEW q \in Level, prio[t] > q, Suspend(t, q)
  PROVE  WalkKeptStep
  <1>1. mode \in [Entity -> {"NONE", "WALK"}] /\ prio \in [Entity -> Level]
    BY DEF TypeInv, BodyOK, StackOK
  <1>2. \A f \in Entity : f # t => mode'[f] = mode[f]
    BY <1>1 DEF Suspend
  <1>3. prio'[t] < prio[t]
    BY <1>1 DEF Suspend
  <1>4. QED
    BY <1>2, <1>3 DEF WalkKeptStep

LEMMA SameMode ==
  ASSUME mode' = mode
  PROVE  WalkKeptStep
  BY DEF WalkKeptStep

LEMMA RequestWalk ==
  ASSUME TypeInv, FieldEventRequest
  PROVE  WalkKeptStep
  <1>1. CASE \E t \in Entity, q \in Level : RequestPreempt(t, q)
    BY <1>1, SuspendWalk DEF RequestPreempt
  <1>2. CASE ~\E t \in Entity, q \in Level : RequestPreempt(t, q)
    BY <1>2, SameMode DEF FieldEventRequest, RequestNoOne, RequestAwait, RequestEnd, RequestSkip,
                          RequestBusy, RequestPark, RequestBusyStar
  <1>3. QED
    BY <1>1, <1>2

LEMMA ScanWalk ==
  ASSUME TypeInv, Scan
  PROVE  WalkKeptStep
  <1>1. CASE ScanEnd
    BY <1>1, SameMode DEF ScanEnd, bodyVars
  <1>2. ASSUME NEW i \in 0 .. NumChecks - 1, ScanCheck(i)
        PROVE  WalkKeptStep
    <2>1. CheckEntity(i) \in Entity /\ 1 \in Level
      BY CheckTarget DEF Level
    <2>2. mode' = mode \/ (prio[CheckEntity(i)] > 1 /\ Suspend(CheckEntity(i), 1))
      BY <1>2 DEF ScanCheck, RequestRun, Accepts
    <2>3. QED
      BY <2>1, <2>2, SuspendWalk, SameMode
  <1>3. QED
    BY <1>1, <1>2 DEF Scan

\* A follower's own MOVE: its script is frozen unless it drives.
LEMMA MoveWalk ==
  ASSUME TypeInv, MoveSkip \/ MoveArm \/ MoveOn \/ MoveEnd
  PROVE  WalkKeptStep
  <1>1. mode \in [Entity -> {"NONE", "WALK"}] /\ cur \in Entity
    BY DEF TypeInv, BodyOK, TurnOK
  <1>2. CASE MoveSkip \/ MoveOn
    BY <1>2, SameMode DEF MoveSkip, MoveOn, bodyVars
  <1>3. CASE MoveArm
    BY <1>1, <1>3 DEF MoveArm, WalkKeptStep
  <1>4. CASE MoveEnd
    <2>1. sj[cur] = 0 \/ sjOwner = cur
      BY <1>4 DEF MoveEnd, Running, Frozen
    <2>2. \A f \in Entity : f # cur => mode'[f] = mode[f]
      BY <1>1, <1>4 DEF MoveEnd
    <2>3. QED
      BY <2>1, <2>2 DEF WalkKeptStep
  <1>5. QED
    BY <1>2, <1>3, <1>4

\* JOIN and SPLIT end a follower's walk with the phase it belongs to.
LEMMA SetWalk ==
  ASSUME NEW f \in Entity, sj[f] = 1
  PROVE  /\ JoinSet(f).sj = 1 => JoinSet(f).mode = mode[f]
         /\ SplitSet(f).sj = 1 => SplitSet(f).mode = mode[f]
  <1>1. JoinSet(f) \in {Now(f), Follower(3, "NONE", 0, turn[f])}
    BY DEF JoinSet
  <1>2. SplitSet(f) \in {Now(f), Follower(2, "NONE", 0, StartTurn(f))}
    BY DEF SplitSet
  <1>3. QED
    BY <1>1, <1>2 DEF Now, Follower

LEMMA GatherWalk ==
  ASSUME TypeInv, JoinOn \/ JoinEnd \/ SplitOn \/ SplitEnd
  PROVE  WalkKeptStep
  <1>1. SUFFICES ASSUME NEW f \in Entity, sj[f] = 1, sj'[f] = 1, f # Leader
                 PROVE  mode'[f] = mode[f]
    BY DEF WalkKeptStep
  <1>2. CASE f \notin Followers
    BY <1>1, <1>2 DEF JoinOn, JoinEnd, SplitOn, SplitEnd, Gathering, Gathered
  <1>3. CASE f \in Followers
    <2>1. f \in Members
      BY <1>3 DEF Followers, Members, Slot
    <2>2. ~JoinEnd /\ ~SplitEnd
      BY <1>1, <2>1 DEF JoinEnd, SplitEnd, Gathered
    <2>3. CASE JoinOn
      BY <1>1, <1>3, <2>3, SetWalk DEF JoinOn, Gathering
    <2>4. CASE SplitOn
      BY <1>1, <1>3, <2>4, SetWalk DEF SplitOn, Gathering
    <2>5. QED
      BY <2>2, <2>3, <2>4
  <1>4. QED
    BY <1>2, <1>3

LEMMA OtherWalk ==
  ASSUME \/ Engine \/ FrameStart \/ SkipFrozen \/ UNCHANGED vars
         \/ RetMain \/ Ret \/ Retto \/ Wait1 \/ WaitStart \/ WaitOn \/ WaitEnd
         \/ Back \/ Skip \/ If \/ Nop \/ Poll \/ Uc \/ AskOn \/ AskEnd \/ Linon \/ Prtye
  PROVE  WalkKeptStep
  <1>1. mode' = mode
    BY DEF Engine, EngineWalk, EngineTurn, EngineModel, EngineOnLine, EngineOffLine, FrameStart,
           SkipFrozen, vars, RetMain, Ret, Retto, Wait1, WaitStart, WaitOn, WaitEnd, Back, Skip,
           If, Nop, Poll, Uc, AskOn, AskEnd, Linon, Prtye, OpRest, bodyVars
  <1>2. QED
    BY <1>1, SameMode

\* The walk of a follower that JOIN or SPLIT has set walking is not cancelled by
\* any script but the driver's own: only a request that preempts the follower
\* does so.
THEOREM WalksKept == Spec => WalkKept
  <1>1. TypeInv /\ [Next]_vars => WalkKeptStep
    BY OtherWalk, RequestWalk, ScanWalk, MoveWalk, GatherWalk DEF Next, Cycle, Opcode
  <1>2. QED
    BY <1>1, TypeInvariant, PTL DEF Spec, WalkKept, WalkKeptStep

-----------------------------------------------------------------------------
(***************************************************************************)
(* The scripts of every entity are kept on a stack of levels, for images   *)
(* that do not use RETTO.                                                  *)
(*                                                                         *)
(* A step of the system does one of four things to the scripts: it lets    *)
(* the running one move on, parks a script, preempts the running one, or   *)
(* resumes the next.  Each is described here by what it leaves of the      *)
(* levels, lemma StepKinds shows there is nothing else, and every theorem  *)
(* is proved once per kind.                                                *)
(***************************************************************************)

NoRetto == \A m \in Map, a \in Addr : Image[m].code[a].op # "RETTO"

\* Where an instruction that is no return leads to.
Leads(a, b) == \/ Code(a).op \in FallsThrough /\ b = a + 1
               \/ Code(a).op \in Jumps /\ b = Code(a).to
\* Program counters of all entities but t: that of the running entity may move.
MovesOn(e) == e = cur /\ pc[e] \in Addr /\ pc'[e] \in Addr /\ Leads(pc[e], pc'[e])
PcsOf(t) == \A e \in Entity \ {t} : pc'[e] = pc[e] \/ MovesOn(e)
\* Levels other than level q of t keep their answers.
AnswersBut(t, q) ==
    \A e \in Entity, l \in Level :
      e # t \/ l # q => sync'[e][l] = sync[e][l] /\ waiter'[e][l] = waiter[e][l]

Local == /\ prio' = prio /\ saved' = saved
         /\ \A e \in Entity : pc'[e] = pc[e] \/ MovesOn(e)
         /\ \A e \in Entity, l \in Level :
              /\ sync[e][l] # "DONE" => sync'[e][l] = sync[e][l] /\ waiter'[e][l] = waiter[e][l]
              /\ sync'[e][l] = "WAITING" => sync[e][l] = "WAITING"

Parks(t, q) ==
    /\ prio[t] < q /\ saved[t][q] = NoAddr
    /\ prio' = prio
    /\ saved'[t][q] \in Addr
    /\ \A e \in Entity, l \in Level : e # t \/ l # q => saved'[e][l] = saved[e][l]
    /\ pc'[t] = pc[t] /\ PcsOf(t)
    /\ AnswersBut(t, q)

Preempts(t, q) ==
    /\ prio[t] > q /\ sync[t][q] = "NONE"
    /\ \A e \in Entity : prio'[e] = IF e = t THEN q ELSE prio[e]
    /\ \A e \in Entity, l \in Level :
         saved'[e][l] = IF e = t /\ l = prio[t] THEN pc[t] ELSE saved[e][l]
    /\ pc'[t] \in Addr
    /\ PcsOf(t)
    /\ AnswersBut(t, q)

Returns(l) ==
    /\ pc[cur] \in Addr /\ Cur.op = "RET"
    /\ prio[cur] < l
    /\ l = MainLevel \/ saved[cur][l] # NoAddr
    /\ \A k \in Level : prio[cur] < k /\ k < l => saved[cur][k] = NoAddr
    /\ \A e \in Entity : prio'[e] = IF e = cur THEN l ELSE prio[e]
    /\ \A e \in Entity, k \in Level :
         saved'[e][k] = IF e = cur /\ k = l THEN NoAddr ELSE saved[e][k]
    /\ \A e \in Entity : pc'[e] = IF e = cur THEN saved[cur][l] ELSE pc[e]
    /\ waiter' = waiter
    /\ \A e \in Entity, k \in Level :
         sync'[e][k] = IF e = cur /\ k = prio[cur] /\ sync[e][k] = "WAITING"
                       THEN "DONE" ELSE sync[e][k]

ScriptStep == \/ Local
              \/ \E t \in Entity, q \in Level : Parks(t, q) \/ Preempts(t, q)
              \/ cur \in Entity /\ \E l \in Level : Returns(l)

----------------------------------------------------------------------------
(***************************************************************************)
(* Every step of the system is one of the four.                            *)
(***************************************************************************)
LEMMA NothingMoves ==
  ASSUME UNCHANGED stackVars
  PROVE  Local
  BY DEF Local, stackVars

LEMMA ScriptMoves ==
  ASSUME TypeInv, cur \in Entity, pc[cur] \in Addr, NEW a \in Addr, Leads(pc[cur], a),
         pc' = [pc EXCEPT ![cur] = a],
         UNCHANGED <<prio, saved, sync, waiter>>
  PROVE  Local
  <1>1. \A e \in Entity : pc'[e] = pc[e] \/ MovesOn(e)
    BY DEF TypeInv, StackOK, MovesOn
  <1>2. QED
    BY <1>1 DEF Local

LEMMA StepMoves ==
  ASSUME TypeInv, NEW ks, Running(ks), ks \subseteq FallsThrough, Step,
         UNCHANGED <<prio, saved, sync, waiter>>
  PROVE  Local
  <1>1. pc[cur] \in Addr /\ pc[cur] + 1 \in Addr /\ cur \in Entity
        /\ Leads(pc[cur], pc[cur] + 1)
    BY NextAddr, CurInstr DEF Leads, Cur
  <1>2. pc' = [pc EXCEPT ![cur] = pc[cur] + 1]
    BY DEF Step
  <1>3. QED
    BY <1>1, <1>2, ScriptMoves

LEMMA SentAnswers ==
  ASSUME TypeInv, NEW t \in Entity, NEW q \in Level, Sent(t, q)
  PROVE  AnswersBut(t, q)
  <1>1. CASE Cur.op \in EndReq
    <2>1. /\ waiter' = [waiter EXCEPT ![t][q] = cur]
          /\ sync' = [sync EXCEPT ![t][q] = "WAITING"]
      BY <1>1 DEF Sent
    <2>2. cur \in Entity \cup {NoEntity}
      BY DEF TypeInv, TurnOK
    <2>3. \A e \in Entity, l \in Level :
            sync'[e][l] = IF e = t /\ l = q THEN "WAITING" ELSE sync[e][l]
      BY <2>1, SetAt DEF TypeInv, StackOK
    <2>4. \A e \in Entity, l \in Level :
            waiter'[e][l] = IF e = t /\ l = q THEN cur ELSE waiter[e][l]
      BY <2>1, <2>2, SetAt DEF TypeInv, StackOK
    <2>5. QED
      BY <2>3, <2>4 DEF AnswersBut
  <1>2. CASE Cur.op \notin EndReq
    BY <1>2 DEF Sent, AnswersBut
  <1>3. QED
    BY <1>1, <1>2

LEMMA RequestStep ==
  ASSUME TypeInv, FieldEventRequest
  PROVE  ScriptStep
  <1>0. Running(ReqOp)
    BY DEF FieldEventRequest, RequestNoOne, RequestAwait, RequestEnd, RequestSkip,
           RequestBusy, RequestPark, RequestPreempt, RequestBusyStar, Asks
  <1>1. cur \in Entity /\ pc[cur] \in Addr /\ pc[cur] + 1 \in Addr /\ StackOK
        /\ Leads(pc[cur], pc[cur] + 1)
    BY <1>0, CurInstr, NextAddr, RequestOps DEF TypeInv, Leads, Cur
  <1>2. ASSUME RequestNoOne \/ \E t \in Entity, q \in Level : RequestSkip(t, q)
        PROVE  Local
    BY <1>0, <1>2, StepMoves, RequestOps DEF RequestNoOne, RequestSkip
  <1>3. ASSUME NEW t \in Entity, NEW q \in Level,
               RequestAwait(t, q) \/ RequestBusy(t, q) \/ RequestBusyStar(t, q)
        PROVE  Local
    BY <1>3, NothingMoves DEF RequestAwait, RequestBusy, RequestBusyStar
  <1>4. ASSUME NEW t \in Entity, NEW q \in Level, RequestEnd(t, q)
        PROVE  Local
    <2>1. /\ sync[t][q] = "DONE" /\ sync' = [sync EXCEPT ![t][q] = "NONE"]
          /\ waiter' = [waiter EXCEPT ![t][q] = NoEntity]
          /\ pc' = [pc EXCEPT ![cur] = pc[cur] + 1] /\ UNCHANGED <<prio, saved>>
      BY <1>4 DEF RequestEnd, Step
    <2>2. \A e \in Entity, l \in Level :
            sync'[e][l] = IF e = t /\ l = q THEN "NONE" ELSE sync[e][l]
      BY <2>1, <1>1, SetAt DEF StackOK
    <2>3. \A e \in Entity, l \in Level :
            waiter'[e][l] = IF e = t /\ l = q THEN NoEntity ELSE waiter[e][l]
      BY <2>1, <1>1, SetAt DEF StackOK
    <2>4. \A e \in Entity : pc'[e] = pc[e] \/ MovesOn(e)
      BY <2>1, <1>1 DEF StackOK, MovesOn
    <2>5. QED
      BY <2>1, <2>2, <2>3, <2>4 DEF Local
  <1>5. ASSUME NEW t \in Entity, NEW q \in Level, RequestPark(t, q)
        PROVE  Parks(t, q)
    <2>1. /\ prio[t] < q /\ saved[t][q] = NoAddr /\ prio' = prio
          /\ saved' = [saved EXCEPT ![t][q] = Start(t, Cur.script)]
          /\ pc' = pc \/ pc' = [pc EXCEPT ![cur] = pc[cur] + 1]
          /\ Sent(t, q)
      BY <1>5 DEF RequestPark, Occupied, Step
    <2>2. Start(t, Cur.script) \in Addr
      BY <1>0, CurEntry
    <2>3. \A e \in Entity, l \in Level :
            saved'[e][l] = IF e = t /\ l = q THEN Start(t, Cur.script) ELSE saved[e][l]
      BY <2>1, <2>2, <1>1, SetAt DEF StackOK
    <2>4. pc'[t] = pc[t] /\ PcsOf(t)
      <3>1. AskerStays => pc' = pc
        BY <1>5 DEF RequestPark
      <3>2. ~AskerStays => t # cur
        BY <1>5, OtherAsker DEF RequestPark
      <3>3. QED
        BY <2>1, <3>1, <3>2, <1>1, <1>5 DEF StackOK, PcsOf, MovesOn, RequestPark, Step
    <2>5. AnswersBut(t, q)
      BY <2>1, SentAnswers
    <2>6. QED
      BY <2>1, <2>2, <2>3, <2>4, <2>5 DEF Parks
  <1>6. ASSUME NEW t \in Entity, NEW q \in Level, RequestPreempt(t, q)
        PROVE  Preempts(t, q)
    <2>1. /\ prio[t] > q /\ sync[t][q] = "NONE"
          /\ saved' = [saved EXCEPT ![t][prio[t]] = pc[t]]
          /\ prio' = [prio EXCEPT ![t] = q]
          /\ Sent(t, q)
      BY <1>6 DEF RequestPreempt, Suspend, Keep
    <2>2. Start(t, Cur.script) \in Addr
      BY <1>0, CurEntry
    <2>3. ~AskerStays => t # cur
      BY <1>6, OtherAsker DEF RequestPreempt
    <2>4. pc'[t] \in Addr /\ PcsOf(t)
      BY <1>6, <2>2, <2>3, <1>1 DEF RequestPreempt, StackOK, PcsOf, MovesOn
    <2>5. \A e \in Entity, l \in Level :
            saved'[e][l] = IF e = t /\ l = prio[t] THEN pc[t] ELSE saved[e][l]
      BY <2>1, <1>1, SetAt DEF StackOK
    <2>6. \A e \in Entity : prio'[e] = IF e = t THEN q ELSE prio[e]
      BY <2>1, <1>1 DEF StackOK
    <2>7. AnswersBut(t, q)
      BY <2>1, SentAnswers
    <2>8. QED
      BY <2>1, <2>4, <2>5, <2>6, <2>7 DEF Preempts
  <1>7. QED
    BY <1>2, <1>3, <1>4, <1>5, <1>6 DEF FieldEventRequest, ScriptStep

LEMMA RetStep ==
  ASSUME TypeInv, Ret
  PROVE  ScriptStep
  <1>1. cur \in Entity /\ StackOK
    BY CurInstr DEF Ret, TypeInv
  <1>2. PICK l \in Level : /\ Resumes(cur, l)
                           /\ prio' = [prio EXCEPT ![cur] = l]
                           /\ pc' = [pc EXCEPT ![cur] = saved[cur][l]]
                           /\ Empty(cur, l)
    BY DEF Ret
  <1>3. \A e \in Entity, k \in Level :
          saved'[e][k] = IF e = cur /\ k = l THEN NoAddr ELSE saved[e][k]
    BY <1>1, <1>2, SetAt DEF Empty, StackOK
  <1>4. \A e \in Entity, k \in Level :
          sync'[e][k] = IF e = cur /\ k = prio[cur] /\ sync[e][k] = "WAITING"
                        THEN "DONE" ELSE sync[e][k]
    <2>1. Answer(cur, {prio[cur]})
      BY DEF Ret
    <2>2. QED
      BY <1>1, <2>1, AnswerType
  <1>5. /\ \A e \in Entity : prio'[e] = IF e = cur THEN l ELSE prio[e]
        /\ \A e \in Entity : pc'[e] = IF e = cur THEN saved[cur][l] ELSE pc[e]
    BY <1>1, <1>2 DEF StackOK
  <1>6. prio[cur] < l /\ (l = MainLevel \/ saved[cur][l] # NoAddr)
        /\ \A k \in Level : prio[cur] < k /\ k < l => saved[cur][k] = NoAddr
    <2>1. prio[cur] \in Level
      BY <1>1 DEF StackOK
    <2>2. QED
      BY <1>2, <2>1 DEF Resumes, Level
  <1>7. waiter' = waiter
    BY DEF Ret
  <1>8. Returns(l)
    BY <1>3, <1>4, <1>5, <1>6, <1>7, CurInstr DEF Returns, Ret
  <1>9. QED
    BY <1>1, <1>8 DEF ScriptStep

LEMMA FlowStep ==
  ASSUME TypeInv, Wait1 \/ WaitStart \/ WaitOn \/ WaitEnd \/ Back \/ Skip \/ If \/ Nop \/ Poll
  PROVE  Local
  <1>1. UNCHANGED <<prio, saved, sync, waiter>>
    BY DEF Wait1, WaitStart, WaitOn, WaitEnd, Back, Skip, If, Nop, Poll, FlowRest
  <1>2. ASSUME pc' = pc
        PROVE  Local
    BY <1>1, <1>2, NothingMoves DEF stackVars, Local
  <1>3. ASSUME NEW k \in Jumps, Running({k}), pc' = [pc EXCEPT ![cur] = Cur.to]
        PROVE  Local
    <2>1. cur \in Entity /\ pc[cur] \in Addr /\ Cur.to \in Addr /\ Leads(pc[cur], Cur.to)
      BY <1>3, CurInstr, InstrFields DEF Leads, Cur
    <2>2. QED
      BY <1>1, <1>3, <2>1, ScriptMoves
  <1>4. ASSUME NEW k \in FallsThrough, Running({k}), Step
        PROVE  Local
    BY <1>1, <1>4, StepMoves
  <1>5. {"WAIT1", "WAIT", "IF", "NOP", "POLL"} \subseteq FallsThrough 
    BY DEF FallsThrough, Op
  <1>6. CASE Wait1 \/ Nop
    BY <1>4, <1>5, <1>6 DEF Wait1, Nop
  <1>7. CASE WaitStart \/ WaitOn \/ WaitEnd
    BY <1>2, <1>4, <1>5, <1>7 DEF WaitStart, WaitOn, WaitEnd
  <1>8. CASE Back \/ Skip
    BY <1>3, <1>5, <1>8 DEF Back, Skip, Jumps
  <1>9. CASE If
    BY <1>3, <1>4, <1>5, <1>9 DEF If, Jumps
  <1>10. CASE Poll
    BY <1>2, <1>4, <1>5, <1>10 DEF Poll
  <1>11. QED
    BY <1>6, <1>7, <1>8, <1>9, <1>10

LEMMA BodyStep ==
  ASSUME TypeInv, \/ Uc \/ AskOn \/ AskEnd \/ Linon \/ Prtye
                  \/ MoveSkip \/ MoveArm \/ MoveOn \/ MoveEnd
                  \/ JoinOn \/ JoinEnd \/ SplitOn \/ SplitEnd
  PROVE  Local
  <1>1. UNCHANGED <<prio, saved, sync, waiter>>
    BY DEF Uc, AskOn, AskEnd, Linon, Prtye, MoveSkip, MoveArm, MoveOn, MoveEnd,
           JoinOn, JoinEnd, SplitOn, SplitEnd, Gathering, Gathered, Rest, FlowRest
  <1>2. ASSUME pc' = pc
        PROVE  Local
    BY <1>1, <1>2, NothingMoves DEF stackVars, Local
  <1>4. ASSUME NEW k \in FallsThrough, Running({k}), Step
        PROVE  Local
    BY <1>1, <1>4, StepMoves
  <1>5. {"UC", "ASK", "LINON", "PRTYE", "MOVE", "JOIN", "SPLIT"} \subseteq FallsThrough
    BY DEF FallsThrough, Op
  <1>6. CASE Uc \/ AskOn \/ AskEnd \/ Linon \/ Prtye
    BY <1>2, <1>4, <1>5, <1>6 DEF Uc, AskOn, AskEnd, Linon, Prtye
  <1>7. CASE MoveSkip \/ MoveArm \/ MoveOn \/ MoveEnd
    BY <1>2, <1>4, <1>5, <1>7 DEF MoveSkip, MoveArm, MoveOn, MoveEnd
  <1>8. CASE JoinOn \/ JoinEnd \/ SplitOn \/ SplitEnd
    BY <1>2, <1>4, <1>5, <1>8 DEF JoinOn, JoinEnd, SplitOn, SplitEnd, Gathering, Gathered
  <1>9. QED
    BY <1>6, <1>7, <1>8

LEMMA TriggerStep ==
  ASSUME TypeInv, NEW e \in Entity, NEW q \in Level, NEW s \in ScriptId,
         RequestRun(e, q, s), UNCHANGED <<sync, waiter>>
  PROVE  Local \/ Preempts(e, q)
  <1>1. CASE Accepts(e, q, s)
    <2>1. /\ prio[e] > q /\ sync[e][q] = "NONE"
          /\ saved' = [saved EXCEPT ![e][prio[e]] = pc[e]]
          /\ prio' = [prio EXCEPT ![e] = q]
          /\ pc' = [pc EXCEPT ![e] = Start(e, s)]
      BY <1>1 DEF RequestRun, Accepts, Suspend, Keep
    <2>2. Start(e, s) \in Addr /\ StackOK
      BY StartAddr DEF TypeInv
    <2>3. \A d \in Entity, l \in Level :
            saved'[d][l] = IF d = e /\ l = prio[e] THEN pc[e] ELSE saved[d][l]
      BY <2>1, <2>2, SetAt DEF StackOK
    <2>4. \A d \in Entity : prio'[d] = IF d = e THEN q ELSE prio[d]
      BY <2>1, <2>2 DEF StackOK
    <2>5. pc'[e] \in Addr /\ PcsOf(e)
      BY <2>1, <2>2 DEF StackOK, PcsOf
    <2>6. AnswersBut(e, q)
      BY DEF AnswersBut
    <2>7. QED
      BY <2>1, <2>3, <2>4, <2>5, <2>6 DEF Preempts
  <1>2. CASE ~Accepts(e, q, s)
    BY <1>2 DEF RequestRun, Local
  <1>3. QED
    BY <1>1, <1>2

LEMMA ScanStep ==
  ASSUME TypeInv, Scan
  PROVE  ScriptStep
  <1>1. CASE ScanEnd
    BY <1>1, NothingMoves DEF ScanEnd, ScriptStep
  <1>2. ASSUME NEW i \in 0 .. NumChecks - 1, ScanCheck(i)
        PROVE  ScriptStep
    <2>1. CheckEntity(i) \in Entity /\ CheckScript(i) \in ScriptId /\ 1 \in Level
      BY CheckTarget DEF Level
    <2>2. UNCHANGED <<sync, waiter>>
      BY <1>2 DEF ScanCheck
    <2>3. CASE UNCHANGED <<pc, prio, saved, wait, mode, talkDone>>
      BY <2>2, <2>3 DEF Local, ScriptStep
    <2>4. CASE RequestRun(CheckEntity(i), 1, CheckScript(i))
      BY <2>1, <2>2, <2>4, TriggerStep DEF ScriptStep
    <2>5. QED
      BY <1>2, <2>3, <2>4 DEF ScanCheck
  <1>3. QED
    BY <1>1, <1>2 DEF Scan

LEMMA AnyStepKinds ==
  ASSUME TypeInv, [Next]_vars
  PROVE  ScriptStep \/ Retto
  <1>1. CASE Engine \/ FrameStart \/ SkipFrozen \/ RetMain \/ UNCHANGED vars
    <2>1. UNCHANGED stackVars
      BY <1>1 DEF Engine, EngineWalk, EngineTurn, EngineModel, EngineOnLine, EngineOffLine,
                  EngineRest, FrameStart, SkipFrozen, RetMain, vars
    <2>2. QED
      BY <2>1, NothingMoves DEF ScriptStep
  <1>2. CASE Scan
    BY <1>2, ScanStep
  <1>3. CASE Opcode
    BY <1>1, <1>3, RequestStep, RetStep, FlowStep, BodyStep DEF Opcode, ScriptStep
  <1>4. QED
    BY <1>1, <1>2, <1>3 DEF Next, Cycle

LEMMA StepKinds ==
  ASSUME NoRetto, TypeInv, [Next]_vars
  PROVE  ScriptStep
  <1>1. ~Retto
    <2>1. SUFFICES ASSUME Retto PROVE FALSE
      OBVIOUS
    <2>2. pc[cur] \in Addr /\ Cur.op = "RETTO" /\ map \in Map
      BY <2>1, CurInstr DEF Retto, TypeInv
    <2>3. QED
      BY <2>2 DEF NoRetto, Cur, Code, Img
  <1>2. QED
    BY <1>1, AnyStepKinds

----------------------------------------------------------------------------
(***************************************************************************)
(* The shape of the stack: what is above the running script is empty, the  *)
(* main script is at the bottom, and a level that is waited on holds the   *)
(* script that answers.  The three need each other: a park is refused on a *)
(* waited-on level because it is occupied, and a return finds a script to  *)
(* resume because the bottom is.                                           *)
(***************************************************************************)
StackInv == StackShape /\ MainKept /\ NoLostWakeup

LEMMA StackInit == Init => StackInv
  <1> SUFFICES ASSUME Init PROVE StackInv
    OBVIOUS
  <1>1. WellFormed(Img)
    BY ImgWellFormed DEF Init
  <1>2. \A e \in Entity : pc[e] \in Addr
    BY <1>1 DEF Init, WellFormed
  <1>3. QED
    BY <1>2 DEF Init, StackInv, StackShape, MainKept, NoLostWakeup, Addr, NoAddr

LEMMA StackNext ==
  ASSUME TypeInv, StackInv, ScriptStep
  PROVE  StackInv'
  <1>1. /\ \A e \in Entity : prio[e] \in Level /\ pc[e] \in Addr
        /\ \A e \in Entity, l \in Level : l <= prio[e] => saved[e][l] = NoAddr
        /\ \A e \in Entity : prio[e] # MainLevel => saved[e][MainLevel] # NoAddr
        /\ \A e \in Entity, l \in Level :
             sync[e][l] = "WAITING" /\ l # prio[e] => saved[e][l] # NoAddr
    BY DEF TypeInv, StackOK, StackInv, StackShape, MainKept, NoLostWakeup, Frame
  <1>2. NoAddr \notin Addr /\ MainLevel \in Level
    BY DEF NoAddr, Addr, MainLevel, Level
  <1>3. CASE Local
    <2>1. \A e \in Entity : pc'[e] # NoAddr
      BY <1>1, <1>2, <1>3 DEF Local, MovesOn
    <2>2. QED
      BY <1>1, <1>2, <1>3, <2>1 DEF Local, StackInv, StackShape, MainKept, NoLostWakeup, Frame
  <1>4. ASSUME NEW t \in Entity, NEW q \in Level, Parks(t, q)
        PROVE  StackInv'
    <2>1. \A e \in Entity : pc'[e] # NoAddr
      BY <1>1, <1>2, <1>4 DEF Parks, PcsOf, MovesOn
    <2>2. StackShape' /\ MainKept'
      BY <1>1, <1>2, <1>4, <2>1 DEF Parks, StackShape, MainKept, Level
    <2>3. NoLostWakeup'
      BY <1>1, <1>2, <1>4, <2>1 DEF Parks, AnswersBut, NoLostWakeup, Frame
    <2>4. QED
      BY <2>2, <2>3 DEF StackInv
  <1>5. ASSUME NEW t \in Entity, NEW q \in Level, Preempts(t, q)
        PROVE  StackInv'
    <2>1. \A e \in Entity : pc'[e] # NoAddr
      BY <1>1, <1>2, <1>5 DEF Preempts, PcsOf, MovesOn
    <2>2. StackShape'
      BY <1>1, <1>5 DEF Preempts, StackShape, Level
    <2>3. MainKept'
      BY <1>1, <1>2, <1>5, <2>1 DEF Preempts, MainKept
    <2>4. NoLostWakeup'
      BY <1>1, <1>2, <1>5, <2>1 DEF Preempts, AnswersBut, NoLostWakeup, Frame
    <2>5. QED
      BY <2>2, <2>3, <2>4 DEF StackInv
  <1>6. ASSUME cur \in Entity, NEW l \in Level, Returns(l)
        PROVE  StackInv'
    <2>0. saved[cur][l] # NoAddr
      BY <1>1, <1>6 DEF Returns, Level, MainLevel
    <2>1. \A e \in Entity : pc'[e] # NoAddr
      BY <1>1, <1>2, <1>6, <2>0 DEF Returns
    <2>2. StackShape'
      BY <1>1, <1>6 DEF Returns, StackShape, Level
    <2>3. MainKept'
      <3>1. prio[cur] # MainLevel
        BY <1>1, <1>6 DEF Returns, Level, MainLevel
      <3>2. QED
        BY <1>1, <1>2, <1>6, <2>1, <3>1 DEF Returns, MainKept
    <2>4. NoLostWakeup'
      BY <1>1, <1>2, <1>6, <2>1 DEF Returns, NoLostWakeup, Frame
    <2>5. QED
      BY <2>2, <2>3, <2>4 DEF StackInv
  <1>7. QED
    BY <1>3, <1>4, <1>5, <1>6 DEF ScriptStep

LEMMA StackInvariant ==
  ASSUME NoRetto
  PROVE  Spec => [](TypeInv /\ StackInv)
  <1>1. Init => TypeInv /\ StackInv
    BY TypeInit, StackInit
  <1>2. TypeInv /\ StackInv /\ [Next]_vars => TypeInv' /\ StackInv'
    BY TypeNext, StepKinds, StackNext
  <1>3. QED
    BY <1>1, <1>2, PTL DEF Spec

\* An entity runs the most urgent script it has, its main script is never lost,
\* and no wake-up is: whatever is requested, parked, preempted or returned in
\* whatever order, for any image without RETTO.
THEOREM StackDiscipline ==
  ASSUME NoRetto
  PROVE  Spec => [](StackShape /\ MainKept /\ NoLostWakeup)
  BY StackInvariant, PTL DEF StackInv

----------------------------------------------------------------------------
(***************************************************************************)
(* What a step may do to a script that is not running.                     *)
(***************************************************************************)
SuspendedKeptStep ==
    \A e \in Entity, l \in Level :
      saved[e][l] # NoAddr /\ prio'[e] # l => saved'[e][l] = saved[e][l]
WaitKeptStep ==
    \A t \in Entity, q \in Level :
      sync[t][q] = "WAITING" => /\ waiter'[t][q] = waiter[t][q]
                                /\ sync'[t][q] # "NONE"
                                /\ sync'[t][q] = "DONE" => Frame(t, q)' = NoAddr

LEMMA SuspendedKeptNext ==
  ASSUME TypeInv, StackInv, ScriptStep
  PROVE  SuspendedKeptStep
  <1>1. \A e \in Entity : saved[e][prio[e]] = NoAddr
    BY DEF TypeInv, StackOK, StackInv, StackShape, Level
  <1>2. CASE Local
    BY <1>2 DEF Local, SuspendedKeptStep
  <1>3. ASSUME NEW t \in Entity, NEW q \in Level, Parks(t, q) \/ Preempts(t, q)
        PROVE  SuspendedKeptStep
    BY <1>1, <1>3 DEF Parks, Preempts, SuspendedKeptStep
  <1>4. ASSUME NEW l \in Level, Returns(l)
        PROVE  SuspendedKeptStep
    BY <1>4 DEF Returns, SuspendedKeptStep
  <1>5. QED
    BY <1>2, <1>3, <1>4 DEF ScriptStep

LEMMA WaitKeptNext ==
  ASSUME TypeInv, StackInv, ScriptStep
  PROVE  WaitKeptStep
  <1>1. /\ \A e \in Entity : prio[e] \in Level /\ saved[e][prio[e]] = NoAddr
        /\ \A e \in Entity, l \in Level :
             sync[e][l] = "WAITING" /\ l # prio[e] => saved[e][l] # NoAddr
    BY DEF TypeInv, StackOK, StackInv, StackShape, NoLostWakeup, Frame, Level
  <1>2. CASE Local
    BY <1>2 DEF Local, WaitKeptStep
  <1>3. ASSUME NEW t \in Entity, NEW q \in Level, Parks(t, q)
        PROVE  WaitKeptStep
    <2>1. sync[t][q] # "WAITING"
      BY <1>1, <1>3 DEF Parks, Level
    <2>2. QED
      BY <1>3, <2>1 DEF Parks, AnswersBut, WaitKeptStep
  <1>4. ASSUME NEW t \in Entity, NEW q \in Level, Preempts(t, q)
        PROVE  WaitKeptStep
    BY <1>4 DEF Preempts, AnswersBut, WaitKeptStep
  <1>5. ASSUME cur \in Entity, NEW l \in Level, Returns(l)
        PROVE  WaitKeptStep
    <2>1. prio[cur] # l
      BY <1>1, <1>5 DEF Returns, Level
    <2>2. ASSUME NEW t \in Entity, NEW q \in Level, t = cur, q = prio[cur]
          PROVE  Frame(t, q)' = NoAddr
      BY <1>1, <1>5, <2>1, <2>2 DEF Returns, Frame
    <2>3. QED
      BY <1>5, <2>2 DEF Returns, WaitKeptStep
  <1>6. QED
    BY <1>2, <1>3, <1>4, <1>5 DEF ScriptStep

\* A suspended or parked script stays where it is until it is resumed.
THEOREM SuspendedStays ==
  ASSUME NoRetto
  PROVE  Spec => SuspendedKept
  <1>1. TypeInv /\ StackInv /\ [Next]_vars => SuspendedKeptStep
    BY StepKinds, SuspendedKeptNext
  <1>2. QED
    BY <1>1, StackInvariant, PTL DEF Spec, SuspendedKept, SuspendedKeptStep

\* Only the return of the script waited for ends a wait.
THEOREM WaitStays ==
  ASSUME NoRetto
  PROVE  Spec => WaitKept
  <1>1. TypeInv /\ StackInv /\ [Next]_vars => WaitKeptStep
    BY StepKinds, WaitKeptNext
  <1>2. QED
    BY <1>1, StackInvariant, PTL DEF Spec, WaitKept, WaitKeptStep

----------------------------------------------------------------------------
(***************************************************************************)
(* The scheduler implements ScriptStack: what runs and what is kept, seen  *)
(* together, is one stack of scripts per entity.                           *)
(***************************************************************************)
frames == [e \in Entity |-> [l \in Level |-> Frame(e, l)]]

LEMMA FramesAt ==
  ASSUME TypeInv
  PROVE  /\ frames \in Stack!Frames
         /\ \A e \in Entity, l \in Level : frames[e][l] = Frame(e, l)
  BY DEF frames, Frame, TypeInv, StackOK, Stack!Frames

\* The running script of an entity is the one ScriptStack lets advance.
LEMMA RunningRuns ==
  ASSUME TypeInv, StackInv, NEW e \in Entity
  PROVE  prio[e] \in Level /\ Stack!Runs(e, prio[e])
  <1>1. /\ prio[e] \in Level /\ pc[e] # NoAddr
        /\ \A k \in Level : k < prio[e] => saved[e][k] = NoAddr
    BY DEF TypeInv, StackOK, StackInv, StackShape, MainKept, Level
  <1>2. Frame(e, prio[e]) # NoAddr /\ \A k \in Level : k < prio[e] => Frame(e, k) = NoAddr
    BY <1>1 DEF Frame, Level
  <1>3. QED
    BY <1>1, <1>2, FramesAt DEF Stack!Runs, frames

\* One entry of a frame stack is changed.
LEMMA FrameSet ==
  ASSUME TypeInv, TypeInv', NEW e \in Entity, NEW l \in Level, NEW a \in Addr \cup {NoAddr},
         \A k \in Level : Frame(e, k)' = IF k = l THEN a ELSE Frame(e, k)
  PROVE  frames'[e] = [frames[e] EXCEPT ![l] = a]
  BY DEF frames

LEMMA SameFrame ==
  ASSUME TypeInv, TypeInv', NEW e \in Entity,
         pc'[e] = pc[e], prio'[e] = prio[e], \A k \in Level : saved'[e][k] = saved[e][k]
  PROVE  frames'[e] = frames[e]
  BY DEF frames, Frame

\* The other entities of a request, and all of a step that makes none.
LEMMA OthersAdvance ==
  ASSUME TypeInv, TypeInv', StackInv, NEW e \in Entity,
         pc'[e] = pc[e] \/ pc'[e] \in Addr,
         prio'[e] = prio[e], \A k \in Level : saved'[e][k] = saved[e][k]
  PROVE  frames'[e] = frames[e] \/ Stack!Advance(e)
  <1>1. CASE pc'[e] = pc[e]
    BY <1>1, SameFrame
  <1>2. CASE pc'[e] \in Addr
    <2>1. prio[e] \in Level /\ Stack!Runs(e, prio[e])
      BY RunningRuns
    <2>2. \A k \in Level : Frame(e, k)' = IF k = prio[e] THEN pc'[e] ELSE Frame(e, k)
      BY DEF Frame
    <2>3. frames'[e] = [frames[e] EXCEPT ![prio[e]] = pc'[e]]
      BY <1>2, <2>1, <2>2, FrameSet
    <2>4. QED
      BY <1>2, <2>1, <2>3 DEF Stack!Advance, frames
  <1>3. QED
    BY <1>1, <1>2

LEMMA PutsFrame ==
  ASSUME TypeInv, TypeInv', StackInv, NEW t \in Entity, NEW q \in Level,
         Parks(t, q) \/ Preempts(t, q)
  PROVE  Stack!Push(t)
  <1>1. /\ prio[t] \in Level /\ StackOK
        /\ \A k \in Level : k <= prio[t] => saved[t][k] = NoAddr
    BY DEF TypeInv, StackOK, StackInv, StackShape
  <1>2. CASE Parks(t, q)
    <2>1. Frame(t, q) = NoAddr /\ saved'[t][q] \in Addr
      BY <1>1, <1>2 DEF Parks, Frame, Level
    <2>2. \A k \in Level : Frame(t, k)' = IF k = q THEN saved'[t][q] ELSE Frame(t, k)
      BY <1>1, <1>2 DEF Parks, Frame, Level
    <2>3. frames'[t] = [frames[t] EXCEPT ![q] = saved'[t][q]]
      BY <2>1, <2>2, FrameSet
    <2>4. QED
      BY <2>1, <2>3, FramesAt DEF Stack!Push, frames
  <1>3. CASE Preempts(t, q)
    <2>1. Frame(t, q) = NoAddr /\ pc'[t] \in Addr
      BY <1>1, <1>3 DEF Preempts, Frame, Level
    <2>2. \A k \in Level : Frame(t, k)' = IF k = q THEN pc'[t] ELSE Frame(t, k)
      BY <1>1, <1>3 DEF Preempts, Frame, Level
    <2>3. frames'[t] = [frames[t] EXCEPT ![q] = pc'[t]]
      BY <2>1, <2>2, FrameSet
    <2>4. QED
      BY <2>1, <2>3, FramesAt DEF Stack!Push, frames
  <1>4. QED
    BY <1>2, <1>3

LEMMA TakesFrame ==
  ASSUME TypeInv, TypeInv', StackInv, cur \in Entity, NEW l \in Level, Returns(l)
  PROVE  \A e \in Entity : frames'[e] = frames[e] \/ Stack!Pop(e)
  <1>1. ASSUME NEW e \in Entity, e # cur
        PROVE  frames'[e] = frames[e]
    BY <1>1, SameFrame DEF Returns
  <1>2. ASSUME NEW e \in Entity, e = cur
        PROVE  Stack!Pop(e)
    <2>1. prio[e] \in Level /\ Stack!Runs(e, prio[e])
      BY RunningRuns
    <2>2. prio[e] < l /\ prio[e] # MainLevel /\ prio[e] # l
      BY <1>2, <2>1 DEF Returns, Level, MainLevel
    <2>3. saved[e][prio[e]] = NoAddr
      BY <2>1 DEF StackInv, StackShape, Level
    <2>4. \A k \in Level : Frame(e, k)' = IF k = prio[e] THEN NoAddr ELSE Frame(e, k)
      BY <1>2, <2>1, <2>2, <2>3 DEF Returns, Frame
    <2>5. frames'[e] = [frames[e] EXCEPT ![prio[e]] = NoAddr]
      BY <2>1, <2>4, FrameSet
    <2>6. QED
      BY <2>1, <2>2, <2>5 DEF Stack!Pop, frames
  <1>3. QED
    BY <1>1, <1>2

LEMMA StackStep ==
  ASSUME TypeInv, TypeInv', StackInv, ScriptStep
  PROVE  Stack!Next
  <1>1. frames' \in Stack!Frames
    BY DEF frames, Frame, TypeInv, StackOK, Stack!Frames
  <1>2. CASE Local
    BY <1>1, <1>2, OthersAdvance DEF Local, MovesOn, Stack!Next, frames
  <1>3. ASSUME NEW t \in Entity, NEW q \in Level, Parks(t, q) \/ Preempts(t, q)
        PROVE  Stack!Next
    <2>1. \A e \in Entity \ {t} : frames'[e] = frames[e] \/ Stack!Advance(e)
      BY <1>3, OthersAdvance DEF Parks, Preempts, PcsOf, MovesOn
    <2>2. Stack!Push(t)
      BY <1>3, PutsFrame
    <2>3. QED
      BY <1>1, <2>1, <2>2 DEF Stack!Next, frames
  <1>4. ASSUME cur \in Entity, NEW l \in Level, Returns(l)
        PROVE  Stack!Next
    BY <1>1, <1>4, TakesFrame DEF Stack!Next, frames
  <1>5. QED
    BY <1>2, <1>3, <1>4 DEF ScriptStep

LEMMA StackStart == Init => Stack!Init
  <1> SUFFICES ASSUME Init PROVE Stack!Init
    OBVIOUS
  <1>1. TypeInv
    BY TypeInit
  <1>2. \A e \in Entity : pc[e] \in Addr /\ prio[e] = MainLevel
                         /\ \A l \in Level : saved[e][l] = NoAddr
    BY <1>1, ImgWellFormed DEF TypeInv, Init, WellFormed
  <1>3. \A e \in Entity, l \in Level : Frame(e, l) # NoAddr <=> l = MainLevel
    BY <1>2 DEF Frame, Addr, NoAddr
  <1>4. QED
    BY <1>1, <1>3, FramesAt DEF Stack!Init, frames

\* Every script runs on the stack discipline of ScriptStack.
THEOREM ImplementsStack ==
  ASSUME NoRetto
  PROVE  Spec => StackSpec
  <1>1. TypeInv /\ TypeInv' /\ StackInv /\ [Next]_vars => [Stack!Next]_frames
    BY StepKinds, StackStep
  <1>2. QED
    BY <1>1, StackStart, StackInvariant, PTL DEF Spec, StackSpec, Stack!Spec, frames

----------------------------------------------------------------------------
(***************************************************************************)
(* The main script, for images that use RETTO as well.  What runs on the   *)
(* bottom level is main code, and main code never leaves that level; so    *)
(* RETTO is only ever met above it, where the main script is kept.         *)
(***************************************************************************)
RettoSpares == \A m \in Map : \E C \in SUBSET Addr : MainCode(Image[m], C)

MainIn(C) ==
    \A e \in Entity : /\ pc[e] \in Addr
                      /\ prio[e] # MainLevel => saved[e][MainLevel] \in Addr
                      /\ prio[e] = MainLevel => pc[e] \in C
                      /\ saved[e][MainLevel] \in C \cup {NoAddr}
MainInv == \E C \in SUBSET Addr : MainCode(Img, C) /\ MainIn(C)

LEMMA MainMoves ==
  ASSUME TypeInv, NEW C \in SUBSET Addr, MainCode(Img, C), NEW e \in Entity, MovesOn(e),
         pc[e] \in C
  PROVE  pc'[e] \in C
  BY DEF MovesOn, Leads, MainCode, Code

LEMMA MainRetto ==
  ASSUME TypeInv, NEW C \in SUBSET Addr, MainCode(Img, C), MainIn(C), Retto
  PROVE  MainIn(C)'
  <1>1. /\ cur \in Entity /\ pc[cur] \in Addr /\ Cur.op = "RETTO" /\ Cur \in Instr
        /\ StackOK /\ MainLevel \in Level
    BY CurInstr DEF Retto, TypeInv, MainLevel, Level
  <1>2. /\ \A e \in Entity : pc'[e] = IF e = cur THEN Start(cur, Cur.script) ELSE pc[e]
        /\ \A e \in Entity : prio'[e] = IF e = cur THEN Cur.prio ELSE prio[e]
    BY <1>1 DEF Retto, StackOK
  <1>3. \A e \in Entity : saved'[e][MainLevel] = saved[e][MainLevel]
    <2>1. Cur.prio \in Level
      BY <1>1, InstrFields
    <2>2. MainLevel \notin prio[cur] + 1 .. Cur.prio - 1
      BY <1>1, <2>1 DEF StackOK, Level, MainLevel
    <2>3. QED
      BY <1>1, <2>2 DEF Retto, StackOK
  <1>4. Start(cur, Cur.script) \in Addr
    BY <1>1, CurEntry DEF Retto
  <1>5. Cur.prio = MainLevel => Start(cur, Cur.script) \in C
    <2>1. Img.owner[pc[cur]] = cur
      BY <1>1 DEF TypeInv, OwnedOK, Addr, NoAddr
    <2>2. QED
      BY <1>1, <2>1 DEF MainCode, Cur, Code, Start
  <1>6. prio[cur] = MainLevel => Cur.prio = MainLevel
    BY <1>1 DEF MainIn, MainCode, Cur, Code
  <1>7. QED
    BY <1>1, <1>2, <1>3, <1>4, <1>5, <1>6 DEF MainIn

LEMMA MainNext ==
  ASSUME TypeInv, NEW C \in SUBSET Addr, MainCode(Img, C), MainIn(C), ScriptStep
  PROVE  MainIn(C)'
  <1>1. /\ \A e \in Entity : prio[e] \in Level
        /\ MainLevel \in Level /\ NoAddr \notin Addr
    BY DEF TypeInv, StackOK, MainLevel, Level, NoAddr, Addr
  <1>2. CASE Local
    BY <1>1, <1>2, MainMoves DEF Local, MainIn, MovesOn
  <1>3. ASSUME NEW t \in Entity, NEW q \in Level, Parks(t, q)
        PROVE  MainIn(C)'
    <2>1. q # MainLevel
      BY <1>1, <1>3 DEF Parks, MainIn, Level, MainLevel
    <2>2. \A e \in Entity : /\ prio'[e] = prio[e] /\ saved'[e][MainLevel] = saved[e][MainLevel]
                            /\ pc'[e] = pc[e] \/ MovesOn(e)
      BY <1>1, <1>3, <2>1 DEF Parks, PcsOf
    <2>3. QED
      BY <1>1, <2>2, MainMoves DEF MainIn, MovesOn
  <1>4. ASSUME NEW t \in Entity, NEW q \in Level, Preempts(t, q)
        PROVE  MainIn(C)'
    <2>1. q # MainLevel
      BY <1>1, <1>4 DEF Preempts, Level, MainLevel
    <2>2. ASSUME NEW e \in Entity, e # t
          PROVE  /\ prio'[e] = prio[e] /\ saved'[e][MainLevel] = saved[e][MainLevel]
                 /\ pc'[e] = pc[e] \/ MovesOn(e)
      BY <1>1, <1>4, <2>2 DEF Preempts, PcsOf
    <2>3. /\ prio'[t] = q /\ pc'[t] \in Addr
          /\ saved'[t][MainLevel] = IF prio[t] = MainLevel THEN pc[t] ELSE saved[t][MainLevel]
      BY <1>1, <1>4 DEF Preempts
    <2>4. QED
      BY <1>1, <2>1, <2>2, <2>3, MainMoves DEF MainIn, MovesOn
  <1>5. ASSUME cur \in Entity, NEW l \in Level, Returns(l)
        PROVE  MainIn(C)'
    <2>1. prio[cur] # MainLevel
      BY <1>1, <1>5 DEF Returns, Level, MainLevel
    <2>2. saved[cur][l] \in Addr
      BY <1>5, <2>1 DEF Returns, MainIn, TypeInv, StackOK
    <2>3. QED
      BY <1>1, <1>5, <2>1, <2>2 DEF Returns, MainIn
  <1>6. QED
    BY <1>2, <1>3, <1>4, <1>5 DEF ScriptStep

LEMMA MainInit ==
  ASSUME RettoSpares, Init
  PROVE  MainInv
  <1>1. PICK C \in SUBSET Addr : MainCode(Img, C)
    BY DEF RettoSpares, Init, Img
  <1>2. MainIn(C)
    BY <1>1, ImgWellFormed DEF Init, MainIn, MainCode, WellFormed, Level, MainLevel, NoAddr
  <1>3. QED
    BY <1>1, <1>2 DEF MainInv

LEMMA MainInvNext ==
  ASSUME TypeInv, MainInv, [Next]_vars
  PROVE  MainInv'
  <1>1. PICK C \in SUBSET Addr : MainCode(Img, C) /\ MainIn(C)
    BY DEF MainInv
  <1>2. Img' = Img
    BY StepCounts DEF Img
  <1>3. MainIn(C)'
    BY <1>1, AnyStepKinds, MainRetto, MainNext
  <1>4. MainCode(Img, C)'
    BY <1>1, <1>2 DEF MainCode
  <1>5. QED
    BY <1>3, <1>4 DEF MainInv

\* The main script is never lost while another one runs, and no entity ever
\* runs from address 0, for all images whose main scripts do not leave their
\* level with RETTO.
THEOREM MainScriptKept ==
  ASSUME RettoSpares
  PROVE  Spec => []MainKept
  <1>1. MainInv => MainKept
    BY DEF MainInv, MainIn, MainKept, Addr, NoAddr
  <1>2. Init => TypeInv /\ MainInv
    BY TypeInit, MainInit
  <1>3. TypeInv /\ MainInv /\ [Next]_vars => TypeInv' /\ MainInv'
    BY TypeNext, MainInvNext
  <1>4. QED
    BY <1>1, <1>2, <1>3, PTL DEF Spec

----------------------------------------------------------------------------
(***************************************************************************)
(* Who holds the player or freezes entities.  ASK, JOIN and SPLIT do while *)
(* they are polled; a script that stands on one of them keeps its place on *)
(* its level, whatever preempts it, until it has let go.                   *)
(***************************************************************************)
Holders == {"ASK", "JOIN", "SPLIT"}
LetsGo == AskEnd \/ JoinEnd \/ SplitEnd

LEMMA ScanPlaces ==
  ASSUME TypeInv, Scan, NEW e \in Entity, prio'[e] = prio[e]
  PROVE  pc'[e] = pc[e]
  <1>1. StackOK
    BY DEF TypeInv
  <1>2. CASE ScanEnd
    BY <1>2 DEF ScanEnd, stackVars
  <1>3. ASSUME NEW i \in 0 .. NumChecks - 1, ScanCheck(i)
        PROVE  pc'[e] = pc[e]
    <2>1. CheckEntity(i) \in Entity /\ 1 \in Level
      BY CheckTarget DEF Level
    <2>2. CASE ~Accepts(CheckEntity(i), 1, CheckScript(i))
      BY <1>3, <2>2 DEF ScanCheck, RequestRun
    <2>3. CASE Accepts(CheckEntity(i), 1, CheckScript(i)) /\ pc' # pc
      <3>1. /\ prio' = [prio EXCEPT ![CheckEntity(i)] = 1] /\ prio[CheckEntity(i)] > 1
            /\ pc' = [pc EXCEPT ![CheckEntity(i)] = Start(CheckEntity(i), CheckScript(i))]
        BY <1>3, <2>3 DEF ScanCheck, RequestRun, Accepts, Suspend
      <3>2. e # CheckEntity(i)
        BY <1>1, <2>1, <3>1 DEF StackOK, Level
      <3>3. QED
        BY <1>1, <3>1, <3>2 DEF StackOK
    <2>4. QED
      BY <2>2, <2>3
  <1>4. QED
    BY <1>2, <1>3 DEF Scan

LEMMA RequestPlaces ==
  ASSUME TypeInv, FieldEventRequest, NEW e \in Entity, prio'[e] = prio[e], pc'[e] # pc[e]
  PROVE  e = cur /\ Cur.op \notin Holders
  <1>1. Cur.op \in ReqOp
    <2>1. Running(ReqOp)
      BY DEF FieldEventRequest, RequestNoOne, RequestAwait, RequestEnd, RequestSkip,
             RequestBusy, RequestPark, RequestPreempt, RequestBusyStar, Asks
    <2>2. QED
      BY <2>1, CurInstr
  <1>2. Cur.op \notin Holders
    BY <1>1 DEF ReqOp, Request, StartReq, EndReq, Holders
  <1>3. /\ ScriptStep
        /\ \A t \in Entity : prio[t] \in Level
    BY RequestStep DEF TypeInv, StackOK
  <1>4. ~\E l \in Level : Returns(l)
    BY <1>1 DEF Returns, ReqOp, Request, StartReq, EndReq
  <1>5. CASE Local
    BY <1>2, <1>5 DEF Local, MovesOn
  <1>6. ASSUME NEW t \in Entity, NEW q \in Level, Parks(t, q) \/ Preempts(t, q)
        PROVE  e = cur
    BY <1>3, <1>6 DEF Parks, Preempts, PcsOf, MovesOn, Level
  <1>7. QED
    BY <1>2, <1>3, <1>4, <1>5, <1>6 DEF ScriptStep

LEMMA OpcodePlaces ==
  ASSUME TypeInv, Opcode, ~FieldEventRequest, ~LetsGo, NEW e \in Entity, pc'[e] # pc[e]
  PROVE  e = cur /\ Cur.op \notin Holders
  <1>1. ~(JoinOn \/ SplitOn \/ AskOn)
    BY DEF JoinOn, SplitOn, AskOn, Gathering
  <1>2. PICK k \in Op \ Holders : Running({k})
    BY <1>1 DEF Opcode, LetsGo, Ret, Retto, RetMain, Wait1, WaitStart, WaitOn, WaitEnd, Back, Skip,
                If, Nop, Poll, Uc, Linon, Prtye, MoveSkip, MoveArm, MoveOn, MoveEnd, Op, Holders
  <1>3. Cur.op \notin Holders /\ cur \in Entity
    BY <1>2, CurInstr
  <1>4. e = cur
    BY <1>1, <1>3
       DEF Opcode, LetsGo, Ret, Retto, RetMain, Wait1, WaitStart, WaitOn, WaitEnd, Back, Skip,
           If, Nop, Poll, Uc, Linon, Prtye, MoveSkip, MoveArm, MoveOn, MoveEnd, Step, stackVars,
           TypeInv, StackOK
  <1>5. QED
    BY <1>3, <1>4

\* The step lets a script go that stands on one of the instructions K.
LetGo(K) == JoinEnd \/ SplitEnd \/ (AskEnd /\ "ASK" \in K)

LEMMA PlacesKept ==
  ASSUME TypeInv, [Next]_vars, NEW K \in SUBSET Holders, ~LetGo(K), NEW e \in Entity,
         prio'[e] = prio[e], pc'[e] # pc[e]
  PROVE  e = cur /\ Cur.op \notin K
  <1>1. CASE Engine \/ FrameStart \/ SkipFrozen \/ UNCHANGED vars
    BY <1>1 DEF Engine, EngineWalk, EngineTurn, EngineModel, EngineOnLine, EngineOffLine,
                EngineRest, FrameStart, SkipFrozen, vars, stackVars
  <1>2. CASE LetsGo
    <2>1. AskEnd /\ "ASK" \notin K
      BY <1>2 DEF LetsGo, LetGo
    <2>2. cur \in Entity /\ Cur.op = "ASK"
      BY <2>1, CurInstr DEF AskEnd
    <2>3. QED
      BY <2>1, <2>2 DEF AskEnd, Step, TypeInv, StackOK
  <1>3. QED
    BY <1>1, <1>2, ScanPlaces, RequestPlaces, OpcodePlaces DEF Next, Cycle

\* A script on one of the three stays where it is, until the step that lets go.
LEMMA HolderStays ==
  ASSUME TypeInv, StackInv, NoRetto, [Next]_vars, NEW K \in SUBSET Holders, ~LetGo(K),
         NEW e \in Entity, NEW l \in Level,
         Frame(e, l) # NoAddr, Code(Frame(e, l)).op \in K
  PROVE  Frame(e, l)' = Frame(e, l)
  <1>1. /\ ScriptStep
        /\ prio[e] \in Level /\ saved[e][prio[e]] = NoAddr
        /\ \A k \in Level : k <= prio[e] => saved[e][k] = NoAddr
    BY StepKinds DEF TypeInv, StackOK, StackInv, StackShape, Level
  <1>2. ASSUME prio'[e] = prio[e], l = prio[e] \/ saved'[e][l] = saved[e][l]
        PROVE  Frame(e, l)' = Frame(e, l)
    <2>1. l = prio[e] => pc'[e] = pc[e]
      BY <1>2, PlacesKept DEF Frame, Cur
    <2>2. QED
      BY <1>2, <2>1 DEF Frame
  <1>3. CASE Local
    BY <1>2, <1>3 DEF Local
  <1>4. ASSUME NEW t \in Entity, NEW q \in Level, Parks(t, q)
        PROVE  Frame(e, l)' = Frame(e, l)
    <2>1. CASE e = t /\ l = q
      BY <1>1, <1>4, <2>1 DEF Parks, Frame, Level
    <2>2. CASE ~(e = t /\ l = q)
      BY <1>2, <1>4, <2>2 DEF Parks
    <2>3. QED
      BY <2>1, <2>2
  <1>5. ASSUME NEW t \in Entity, NEW q \in Level, Preempts(t, q)
        PROVE  Frame(e, l)' = Frame(e, l)
    <2>1. CASE e # t
      BY <1>2, <1>5, <2>1 DEF Preempts
    <2>2. CASE e = t
      <3>1. q < prio[e] /\ Frame(e, q) = NoAddr
        BY <1>1, <1>5, <2>2 DEF Preempts, Frame, Level
      <3>2. QED
        BY <1>1, <1>5, <2>2, <3>1 DEF Preempts, Frame
    <2>3. QED
      BY <2>1, <2>2
  <1>6. ASSUME NEW k \in Level, Returns(k), cur \in Entity
        PROVE  Frame(e, l)' = Frame(e, l)
    <2>1. CASE e # cur
      BY <1>2, <1>6, <2>1 DEF Returns
    <2>2. CASE e = cur
      <3>1. l # prio[e]
        BY <1>6, <2>2 DEF Returns, Frame, Cur, Holders
      <3>2. QED
        BY <1>1, <1>6, <2>2, <3>1 DEF Returns, Frame
    <2>3. QED
      BY <2>1, <2>2
  <1>7. QED
    BY <1>1, <1>3, <1>4, <1>5, <1>6 DEF ScriptStep

\* A polling script is found on its own level.
LEMMA RunningHolds ==
  ASSUME TypeInv, NEW k, Running({k})
  PROVE  /\ cur \in Entity /\ prio[cur] \in Level /\ Frame(cur, prio[cur]) = pc[cur]
         /\ pc[cur] # NoAddr /\ Code(pc[cur]).op = k
  BY CurInstr DEF TypeInv, StackOK, Frame, Cur, Addr, NoAddr

LEMMA HoldsOn ==
  ASSUME TypeInv, NEW k \in Holders, Running({k}), UNCHANGED <<map, pc, prio, saved>>
  PROVE  \E d \in Entity, l \in Level : Frame(d, l)' # NoAddr /\ Code(Frame(d, l))'.op = k
  <1>1. PICK d \in Entity, l \in Level : Frame(d, l) # NoAddr /\ Code(Frame(d, l)).op = k
    BY RunningHolds
  <1>2. Frame(d, l)' = Frame(d, l) /\ Img' = Img
    BY DEF Frame, Img
  <1>3. Code(Frame(d, l))' = Code(Frame(d, l))
    BY <1>2 DEF Code
  <1>4. QED
    BY <1>1, <1>2, <1>3

LEMMA HolderNext ==
  ASSUME TypeInv, StackInv, NoRetto, [Next]_vars, NEW K \in SUBSET Holders, ~LetGo(K),
         \E d \in Entity, l \in Level : Frame(d, l) # NoAddr /\ Code(Frame(d, l)).op \in K
  PROVE  \E d \in Entity, l \in Level : Frame(d, l)' # NoAddr /\ Code(Frame(d, l))'.op \in K
  <1>1. PICK d \in Entity, l \in Level : Frame(d, l) # NoAddr /\ Code(Frame(d, l)).op \in K
    OBVIOUS
  <1>2. Frame(d, l)' = Frame(d, l)
    BY <1>1, HolderStays
  <1>3. Img' = Img
    BY StepCounts DEF Img
  <1>4. Code(Frame(d, l))' = Code(Frame(d, l))
    BY <1>2, <1>3 DEF Code
  <1>5. QED
    BY <1>1, <1>2, <1>4

LEMMA LockHolderNext ==
  ASSUME TypeInv, StackInv, NoRetto, LockHasHolder, [Next]_vars
  PROVE  LockHasHolder'
  <1>1. SUFFICES ASSUME locked' # lockSaved'
                 PROVE  \E d \in Entity, l \in Level :
                          Frame(d, l)' # NoAddr /\ Code(Frame(d, l))'.op \in Holders
    BY DEF LockHasHolder, Holders
  <1>2. ~LetsGo
    BY <1>1 DEF LetsGo, AskEnd, JoinEnd, SplitEnd, Gathered, Release
  <1>3. CASE AskOn \/ JoinOn \/ SplitOn
    <2>1. PICK k \in Holders : Running({k})
      BY <1>3 DEF AskOn, JoinOn, SplitOn, Holders
    <2>2. UNCHANGED <<map, pc, prio, saved>>
      BY <1>3 DEF AskOn, JoinOn, SplitOn, Gathering, Rest, FlowRest
    <2>3. QED
      BY <2>1, <2>2, HoldsOn
  <1>4. CASE ~(AskOn \/ JoinOn \/ SplitOn)
    <2>1. UNCHANGED <<locked, lockSaved>>
      <3>1. CASE Engine \/ FrameStart \/ SkipFrozen \/ Scan \/ UNCHANGED vars
        BY <3>1 DEF Engine, EngineWalk, EngineTurn, EngineModel, EngineOnLine, EngineOffLine,
                    EngineRest, FrameStart, SkipFrozen, Scan, ScanEnd, ScanCheck, vars, joinVars
      <3>2. CASE FieldEventRequest
        BY <3>2 DEF FieldEventRequest, RequestNoOne, RequestAwait, RequestEnd, RequestSkip,
             RequestBusy, RequestPark, RequestPreempt, RequestBusyStar, ReqRest, joinVars
      <3>3. CASE Opcode /\ ~FieldEventRequest
        BY <3>3, <1>1, <1>2, <1>4
           DEF Opcode, LetsGo, Ret, Retto, RetMain, Wait1, WaitStart, WaitOn, WaitEnd, Back, Skip,
               If, Nop, Poll, Uc, Linon, Prtye, MoveSkip, MoveArm, MoveOn, MoveEnd, OpRest, joinVars
      <3>4. QED
        BY <3>1, <3>2, <3>3 DEF Next, Cycle
    <2>2. \E d \in Entity, l \in Level :
            Frame(d, l) # NoAddr /\ Code(Frame(d, l)).op \in Holders
      BY <1>1, <2>1 DEF LockHasHolder, Holders
    <2>3. QED
      BY <1>2, <2>2, HolderNext DEF LetsGo, LetGo
  <1>5. QED
    BY <1>3, <1>4

\* The player is held without a UC only while some script is in the middle of
\* an ASK, a JOIN or a SPLIT, whatever preempts that script meanwhile, for any
\* image without RETTO.
THEOREM LockIsHeld ==
  ASSUME NoRetto
  PROVE  Spec => []LockHasHolder
  <1>1. Init => LockHasHolder
    BY DEF Init, LockHasHolder
  <1>2. TypeInv /\ StackInv /\ LockHasHolder /\ [Next]_vars => LockHasHolder'
    BY LockHolderNext
  <1>3. QED
    BY <1>1, <1>2, StackInvariant, PTL DEF Spec

----------------------------------------------------------------------------
(***************************************************************************)
(* Frozen entities.  The step of JOIN or SPLIT that releases everybody     *)
(* finds them by the party there is by then: who has been put out of the   *)
(* party while it gathered stays frozen, and nobody else does.             *)
(***************************************************************************)
Drives == {"JOIN", "SPLIT"}
Driven == \E d \in Entity, l \in Level : Frame(d, l) # NoAddr /\ Code(Frame(d, l)).op \in Drives

LEMMA DriverIs == HasDriver <=> sjOwner # NoEntity /\ Driven
  BY DEF HasDriver, Driven, Drives

LEMMA MembersAre ==
  ASSUME NEW e \in Entity, InParty(e)
  PROVE  e \in Members
  <1>1. NoEntity \notin Entity
    BY SizesAssumption DEF Entity, NoEntity
  <1>2. PICK i \in Slot : party[i] # NoChar /\ Img.entityOf[party[i]] = e
    BY DEF InParty
  <1>3. QED
    BY <1>1, <1>2 DEF Members, EntityAt

LEMMA OtherSplitJoin ==
  ASSUME [Next]_vars, ~(JoinOn \/ SplitOn \/ JoinEnd \/ SplitEnd)
  PROVE  UNCHANGED <<sj, sjOwner>>
  <1>1. CASE Engine \/ FrameStart \/ SkipFrozen \/ Scan \/ UNCHANGED vars
    BY <1>1 DEF Engine, EngineWalk, EngineTurn, EngineModel, EngineOnLine, EngineOffLine,
                EngineRest, FrameStart, SkipFrozen, Scan, ScanEnd, ScanCheck, vars, joinVars
  <1>2. CASE FieldEventRequest
    BY <1>2 DEF FieldEventRequest, RequestNoOne, RequestAwait, RequestEnd, RequestSkip,
         RequestBusy, RequestPark, RequestPreempt, RequestBusyStar, ReqRest, joinVars
  <1>3. CASE Opcode /\ ~FieldEventRequest
    BY <1>3
       DEF Opcode, Ret, Retto, RetMain, Wait1, WaitStart, WaitOn, WaitEnd, Back, Skip, If, Nop,
           Poll, Uc, AskOn, AskEnd, Linon, Prtye, MoveSkip, MoveArm, MoveOn, MoveEnd, OpRest,
           joinVars
  <1>4. QED
    BY <1>1, <1>2, <1>3 DEF Next, Cycle

\* Nobody starts to gather without a driver.
LEMMA GatheringDriven ==
  ASSUME TypeInv, JoinOn \/ SplitOn
  PROVE  HasDriver'
  <1>1. PICK k \in Drives : Running({k})
    BY DEF JoinOn, SplitOn, Drives
  <1>2. UNCHANGED <<map, pc, prio, saved>> /\ sjOwner' = cur
    BY DEF JoinOn, SplitOn, Gathering, Rest, FlowRest
  <1>3. Driven'
    BY <1>1, <1>2, HoldsOn DEF Driven, Drives, Holders
  <1>4. sjOwner' # NoEntity
    BY <1>2, SizesAssumption DEF TypeInv, TurnOK, Entity, NoEntity
  <1>5. QED
    BY <1>3, <1>4 DEF HasDriver, Driven, Drives

\* A driver stays one until it lets everybody go.
LEMMA DriverNext ==
  ASSUME TypeInv, StackInv, NoRetto, [Next]_vars, ~(JoinEnd \/ SplitEnd), HasDriver
  PROVE  HasDriver'
  <1>1. CASE JoinOn \/ SplitOn
    BY <1>1, GatheringDriven
  <1>2. CASE ~(JoinOn \/ SplitOn)
    <2>1. sjOwner' = sjOwner
      BY <1>2, OtherSplitJoin
    <2>2. Driven => Driven'
      BY HolderNext DEF Driven, Drives, Holders, LetGo
    <2>3. QED
      BY <2>1, <2>2, DriverIs DEF HasDriver, Driven, Drives
  <1>3. QED
    BY <1>1, <1>2

LEMMA FrozenNext ==
  ASSUME TypeInv, StackInv, NoRetto, [Next]_vars, NEW e \in Entity, sj'[e] # 0, ~HasDriver'
  PROVE  sj[e] # 0 /\ (~HasDriver \/ ~InParty(e))
  <1>1. CASE JoinEnd \/ SplitEnd
    <2>1. sj'[e] = IF e \in Members THEN 0 ELSE sj[e]
      BY <1>1 DEF JoinEnd, SplitEnd, Gathered
    <2>2. QED
      BY <2>1, MembersAre
  <1>2. CASE ~(JoinEnd \/ SplitEnd)
    <2>1. ~(JoinOn \/ SplitOn)
      BY GatheringDriven
    <2>2. sj' = sj
      BY <1>2, <2>1, OtherSplitJoin
    <2>3. ~HasDriver
      BY <1>2, DriverNext
    <2>4. QED
      BY <2>2, <2>3
  <1>3. QED
    BY <1>1, <1>2

\* A frozen entity has a driver with a JOIN or a SPLIT under way that is going
\* to release it, unless PRTYE had put it out of the party by the time its
\* driver let everybody go: whatever is requested, preempted and returned, and
\* however the party is changed, for any image without RETTO.
THEOREM FrozenAreLetGo ==
  ASSUME NoRetto
  PROVE  Spec => FrozenIsLet
  <1>1. TypeInv /\ StackInv /\ [Next]_vars =>
          [\A e \in Entity : sj'[e] # 0 /\ ~HasDriver'
                              => sj[e] # 0 /\ (~HasDriver \/ ~InParty(e))]_vars
    BY FrozenNext
  <1>2. QED
    BY <1>1, StackInvariant, PTL DEF Spec, FrozenIsLet
=============================================================================
