# Verification of the FF7 decompilation

TLA+ modules, TLC configurations and machine-checked proofs for the program in this repository: the PlayStation
executable `SCUS_941.63` of Final Fantasy VII and its overlays, as far as they have been decompiled to C under
`src/`. The reference is always the C source (paths below are relative to the repository's own `src/`); comments and
`docs/reference` are used only to say what the code is *said* to do.

Everything in the game runs on one thread, with vertical-blank and CD interrupts beside it. What is hard is
therefore not threads but the *cooperative* concurrency on top: field scripts, windows, walks, scrolls, memory cards
and loads that each advance by one step per frame, poll each other's state, and can be preempted, cancelled or pulled
out between two polls. The field module, which runs these scripts, is the core of the project; the menus' inventory
and memory card code and the party records that both sides share stand beside it.

Contents: 1 inventory, 2 modules, 3 runs, 4 fairness, 5 proofs, 6 what is not modelled, 7 observations, 8 plan.

## 1. Inventory

| Component | Source | State it keeps | Operations | Hard behaviour | Module |
|---|---|---|---|---|---|
| **Script scheduler** | `field/field4.c` 1160-2100, 3400-3530, 4190-4600 | `g_FieldScriptPC`, `g_FieldScriptPriority`, `g_SavedFieldScriptPC`, `g_FieldScriptSyncState`, `g_FieldScriptSyncWaitEntity`, `g_FieldWaitCounter`, `g_CurrentEntity` | `FieldEventInit`, `FieldEventOpcodeCycle`, `FieldEventRequest` (REQ, REQSW, REQEW, PREQ, PRQSW, PRQEW), `FieldEventRequestRun`, RET, RETTO, WAIT, jumps | eight priority levels per entity, 48 entities preempting, parking, waiting for one another; triggers of the player in between | `FieldScript` |
| **Party gathering, player control** | `field4.c` 9100-9700 | `g_EntitySplitJoinState`, `g_EntityForSplitJoin`, `characterLock`, `g_CharacterLock` | UC, ASK, JOIN, SPLIT, PRTYE, MOVE | operations of many frames on entities that have scripts of their own, a lock with three kinds of holder, a party that changes meanwhile | `FieldScript` |
| **Dialog windows** | `field/field5.c` 785-1660, opcodes in `field4.c` 6941-7110 | `g_WindowData[4]`, `g_WindowToEntity[4]`, `g_WindowCount` | MES, ASK, WINDOW, WMODE, WCLS, WCLSE, WREST, WROW, WSIZE, WMOVE | four windows, any entity may name any of them; a state machine driven by polls, by its owner's and by everybody else's | `FieldDialog` |
| **Field commands, map change** | `field/field.c` 30-203, 851-1360; `field2.c` 2337, 4448-4850; `field4.c` 4656-5100, 8073-8140; `field5.c` 113-152 | `eventCmd`, `movieCommandState`, `g_isFieldLoading`, `D_80071A5C`, `g_FieldPreloadMapId`, movie flags | `FieldMain`, `FieldMainLoop`, `PreloadNextFieldMap`, `FieldUpdateMovieStream`, MJUMP, PMJMP, BATLE, MGAME, MENU, TUTOR, DSKCG, GMOVR, PMVIE, MOVIE | one mailbox between all scripts, the player and the frame loop; CD reads that are interrupted | `FieldEventCmd` |
| **Models: movement, turns, animation** | `field4.c` 5050-6940, `field2.c` 1395-2590, 3260-3640 | the orders in each model: `scriptedMoveMode`, `ActionState`, `MoveEnd`, `TurnType`, `OfsType`, animation fields | MOVE, FMOVE, CMOVE, MOVA, JUMP, LADER, TURN, TURNR, TURA, DIR, OFST, ANIME, CANIM families, UC, CC; the engine's update | an order is a handshake over many frames in fields of the *model*, which a preempting script finds half done | `FieldMotion` |
| **Script variables** | `field4.c` 2974-4230, 7125-8010 | `Savemap.memory_bank_*`, `g_FieldMapVars`, random table index | SET, arithmetic, bit, search, random and test opcodes | bytes and words overlap; capped and uncapped sums; pages without bounds | `FieldVars` |
| **Picture** | `field4.c` 8010-8960, 9385-10193; `field2.c` 34-1290; `field.c` 2794-2903 | `cameraScroll*`, view offset, shake, fade, layer visibility, palettes | SCR2D, SCR2DC, SCR2DL, SCRLA, SCRLC, SCRLP, SCRCC, SCRLW, VWOFT, SHAKE, FADE, NFADE, FADEW, BGON.., STPAL.. | one camera for all scripts; orders outlive the script and in part the map | `FieldScreen` |
| **Save and load screens** | `menu/savemenu.c`, `menu/title.c` | mode, cursor, retry counters, transfer step, buffer, list of files | probing, listing, saving, loading, formatting | cards pulled and exchanged between any two of a transfer's calls, calls that fail, power cuts | `SaveMenu` |
| **Party members and health** | `field4.c` 8958-9340, `field5.c` 301-460, `main/1255C.c` 503-616 | `memory_bank_2[9..11]`, `Savemap.partyID`, masks, battle records, gil | PRTYP, PRTYM, PRTYE, GPTYE, SPTYE, MMB+-, MMBLK, PC, CC, HP+-, MP+-, HMPMX, GOLD+-, MENU | the party is kept twice, changed on either side and carried over | `PartyMembers` |
| **Items and materia** | `menu/itemmenu.c`, `main/1255C.c` 340-428, `field4.c` 10199-10357 | inventory, materia inventory, equipment slots, the buffer of stolen materia | STITM, DLITM, CLITM, SMTRA, Arrange (quicksort, seven orders), Yuffie's theft and its return, unequip, backup, restore | sorting in place with an explicit stack and ties; one buffer for two purposes | `ItemMenu` |
| Field geometry | `field2.c`, `field3.c` | walkmesh, lines, projection | movement on triangles, collision, talk and line checks | arithmetic; reports arrival and touch to scripts | - |
| Debug pages, particles, rain, model effects | `field.c`, `field3.c`-`field5.c` | drawing lists | drawing | none | - |
| Battle | `battle/*.c` | event queues, effects, AI stack | mostly assembly | - | - |
| Magic effects | `magic/*.c` | one effect each | drawing | none | - |
| Other menus | `menu/bginmenu.c`, `menu/cnfgmenu.c` | cursor | naming, configuration | none | - |
| Resident program | `main/18B8.c`, `1255C.c` | overlay id, savemap | mostly assembly; accessors of party, items, gil | see the components that call it | - |
| Sound driver | `main/akao*.c` | channels | sequencer, in part assembly | - | - |
| CD access | `main/psxsdk.c` | read request, callback chain | almost only assembly | - | - |
| World map | `world/*.c` | actors, world script, terrain | interpreter and boarding in C, callers in assembly | - | - |
| Small overlays | `brom`, `dschange`, `ending` | - | linear screens | none | - |
| Build tools | `tools/`, `config/`, `docs/` | - | no part of the program | - | - |

**How they interact.** `FieldMain` loads a map, runs `FieldEventInit` and then `FieldMainLoop`. Per frame the loop lets
the engine move models and test lines (which *raises flags*), runs one `FieldEventOpcodeCycle` (which *polls* the flags
and then the scripts), carries out the orders that scripts have left in models, camera, shake and fade, draws, and
looks at `eventCmd` (which a script may have *set*) to leave for a battle, a menu, a movie or another map. Scripts talk
to each other only through requests; to windows, models, camera and the loop they talk by *polling*: a handler that is
not done returns 1 and leaves the program counter where it is, so that it is run again in the next frame. Two scripts of
one entity share the entity's model, windows and place in the mailbox without any name for which of them asked.
Menus and battles work on `Savemap.partyID` and on battle records, the field on its variables; opcodes carry one over to
the other. Saving copies the `Savemap` that all of them have been writing to.

**What makes each correct.**

* scheduler: no script is lost or run twice, no wake-up is lost, the wait counter belongs to one script, waits end;
* party gathering: a frozen follower has somebody who will release it, the player's control comes back;
* windows: an open window has one owner, and the owner goes on polling it; it keeps its message, shows it to the end,
  and closes;
* field commands: an opcode ends when *its* command has been carried out; the map shown is the map the field is on; the
  CD drive and its buffer have one user;
* models: an order in a model is the order of the instruction its script stands on, and ends where that says;
* variables: a capped sum never comes out on the other side, an opcode writes one variable, a search finds the first;
* picture: after a wait the camera stands where it was sent, a shake comes to rest, no frame
  divides by the steps of an order that has none;
* saves: what is said to be saved is on its card (whole, unless a write fell short), what is loaded was saved;
* party: nobody twice, the two copies agree after a carry, points change only for who was meant;
* items: the inventory is a bag, sorting only sorts; the theft takes the most valuable materia and no piece is lost.

The hazards behind these, each at its line, are listed in `PROJECT.json` with the properties that would catch them.

## 2. Modules

| Module | What it is |
|---|---|
| `PartyOps` | `PartyReplace`: the three party slots, as an operator |
| `FieldScript` | the scheduler, requests, triggers, waits, party gathering and the player's lock |
| `ScriptStack` | what the scheduler promises about scripts, abstractly |
| `ScriptImages` | assembles small script images for the MC modules |
| `FieldScriptMC`, `FieldPartyMC` | field maps (families of script images) to check `FieldScript` on |
| `FieldScriptProofs` | types, code ownership, wait counters, walks, stack discipline, refinement of `ScriptStack`, main scripts, the player's lock, frozen followers |
| `FieldDialog`, `FieldDialogMC`, `FieldDialogProofs` | the windows, the opcodes that drive them and the frame around them |
| `FieldEventCmd`, `FieldEventCmdMC`, `FieldEventCmdProofs` | the command mailbox, the loop's ways out, reading ahead, the movie stream |
| `FieldMotion`, `FieldMotionMC`, `FieldMotionProofs` | the orders scripts leave in models, and the engine that carries them out |
| `FieldVars`, `FieldVarsMC`, `FieldVarsProofs` | memory banks, arithmetic and tests |
| `FieldScreen`, `FieldScreenMC` | scrolling, view offset, shake, fades, layers, palettes |
| `SaveMenu`, `SaveMenuMC`, `SaveMenuProofs` | save and load screens with their memory cards |
| `PartyMembers`, `PartyMembersMC`, `PartyMembersProofs` | the two copies of the party, hit points, gil |
| `ItemBag` | what an inventory promises, abstractly |
| `ItemMenu`, `ItemMenuMC`, `ItemMenuProofs` | inventory, Arrange, materia, theft and return |

The components are separate modules because the code's own boundary between them is narrow: a handler returns 0 or 1.
`FieldScript` keeps every other opcode as `Nop` (returns 0) or `Poll` (returns 1 until done), and each other field module
keeps of the scheduler what its opcodes can observe: that a script of the same entity may come on top of another one
and end again, at any opcode. `FieldScript` and `PartyMembers` share `PartyOps`.

A definition named like its neighbour with a suffix (`SetPcModelOld`, `FreshNever`, `OfferFirst`, ...) is a variant
with one mistake, which no specification uses: each property is checked to tell the variant from the code.
### 2.1 `FieldScript`

One action is one opcode handler or one branch of it. The scripts themselves are a constant: `Image[m]` holds, for a
map `m`, an instruction per address, the script tables, the models and the lines. An instruction is a record instead of
bytes, so an address is an instruction and `PC_INC` by its size is `+ 1`.

| Model | Code |
|---|---|
| `pc`, `prio`, `saved`, `sync`, `waiter`, `wait` | the arrays named above, one entry per entity and level |
| `mode`, `act`, `turn` | `scriptedMoveMode`, `ActionState`, `TurnType` of the entity's model |
| `sj`, `sjOwner` | `g_EntitySplitJoinState`, `g_EntityForSplitJoin` |
| `locked`, `lockSaved` | `characterLock`, and `g_CharacterLock`, the value JOIN, SPLIT and ASK restore |
| `phase`, `scan`, `cur`, `left`, `ops` | where the frame is: engine, trigger checks, opcode cycle with its two loop counters |
| `RequestAwait` ... `RequestBusyStar` | the branches of `FieldEventRequest`, in the order of its tests |
| `Ret`, `Retto`, `RetMain` | `OpcodeFuncRet`, `OpcodeFuncRetto` |
| `ScanCheck`, `ScanEnd` | the trigger loops at the start of `FieldEventOpcodeCycle` with `FieldEventRequestRun` |
| `JoinOn`, `JoinEnd`, `SplitOn`, `SplitEnd` | `OpcodeFuncJoin`, `OpcodeFuncSplit` with their per-follower helpers |
| `Engine...` | what `field2.c` reports to scripts: arrival, end of a turn, talk, push and line flags; nondeterministic |
| `Nop`, `Poll` | every handler that touches none of this state and returns 0, or 1 until something else is over |

Left out: debug stepping and halting, opcodes run by `FieldEventRunInit` (the model starts where every entity stands
behind its init script), positions and animations. Script comparisons read variables that are not modelled here, so
`If` goes either way.

`WellFormed` says what the scheduler takes for granted of an image and no code checks: code stays within its entity,
requests name entities of the map, and nobody requests *itself* without waiting (the code would then step the program
counter of the script it has just installed).

### 2.2 `FieldDialog`

What a script does to windows is a sequence of commands (a *plan*: MES, WCLS, WCLSE, WSIZW, WREST, WROW, WMODE, MENU,
BATLE), and an entity has a stack of scripts, as the scheduler gives it; the scheduler itself is not repeated.
A text is a sequence of codes, of which the control codes that stop the writer are kept (new row, new page, wait for
OK, timed pause); everything between two of them is one character.

| Model | Code |
|---|---|
| `state`, `size`, `msg`, `pos`, `row`, `scroll`, `fast`, `pause` | the fields of `g_WindowData[w]` that the state machine reads |
| `rows`, `stay` | the height in rows, and whether WMODE keeps OK from closing it |
| `owner` | `g_WindowToEntity[w]` |
| `refresh` | the reset of all windows that `FieldEventUpdate` does when the field is resumed |
| `count` | `g_WindowCount`, a byte (`CountSize`) |
| `UpdateStates` and its parts | `FieldDialogMessageUpdateStates`, `FieldDialogAskUpdateStates`: one state per poll |
| `Mine`, `Busy`, `Stalls` | the owner tests at the top of `FieldDialogWindowInit`, `...Growth`, `...Decrease` |
| `MesOn`, `MesEnd` | `OpcodeFuncMes`, `OpcodeFuncAsk` |
| `WclsOn`, `WsizwOn` ... | the opcodes of the same names |
| `ToClose` | `FieldWindowSetStateToClose` (WCLSE; some states it leaves alone) |
| `Menu`, `Batle` | the two opcodes that call `FieldWindowResetTextAll` or keep the script waiting meanwhile; the mailbox behind them is `FieldEventCmd`'s |
| `Preempt` | a request puts a script on top (`FieldEventRequest`) |

`FieldDialogWindowDecrease` has a bare `return;` in a function that returns a value: a poll of a window that belongs to
somebody else then ends or not as the register has it. The constant `Undefined` holds the answers the build may give.

### 2.3 `FieldEventCmd`

`eventCmd` is a mailbox with one place. Opcodes write a command when it is empty and poll until they find their own
command with `movieCommandState` done; gateways, random encounters, the menu button and the soft reset write to it
whatever is in it. A plan gives the mailbox opcodes of each entity's script, the gateways, and what the player may do.

| Model | Code |
|---|---|
| `cmd`, `param`, `mov` | `eventCmd`, `eventCmdParam`, `movieCommandState` |
| `played`, `stream` | `g_FieldMoviePlayed`, `g_FieldMovieStreamActive` |
| `chain`, `buffer` | what `SystemCdromReadChain` answers, and what lies at 0x801B0000 |
| `loading`, `preId`, `nextId` | `g_isFieldLoading`, `D_80071A5C`, `g_FieldPreloadMapId` |
| `enc`, `map`, `came` | `D_8007EBC8`, `g_CurrentFieldIndex`, `D_800965EC` |
| `shown` | the map whose MIM data `FieldLoadMimDatFiles` has unpacked |
| `asker`, `served` | history: whose command is in the mailbox, and who has been served |
| `Ask`, `Collect`, `Wait` | the three branches that all mailbox opcodes share, with their differences |
| `Leave`, `SoftReset`, `PlayerMenu`, `ChangeMap`, `Stay` | the tests of `FieldMainLoop` after the scripts, in their order, and what `FieldMain` makes of them |
| `ReadAhead`, `StreamArms` ... `StreamRuns` | the branches of `FieldUpdateMovieStream` |
| `EnterMap`, `ResumeMap` | the way through `FieldMain` to the next `FieldMainLoop`, with `FieldEventInit` or without |
| `Return`, `Drive` | external: `main()` with the other modules, and the CD driver |

### 2.4 `FieldMotion`

A script is any sequence of the instructions in `words[e]`, chosen as it goes; an entity has a stack of them, and a
request may put one on top at any opcode (`Request`). A frame is a turn for every entity, then
`FieldUpdateAnimationState`, then `FieldEntityMovementUpdate` for every model.

| Model | Code |
|---|---|
| `go` | `scriptedMoveMode`, `ActionState`, `MoveEnd*`, `ActionArg`, `MoveStart*`, `MoveStep(s)` |
| `turn`, `ofs`, `anim` | `TurnType` .. `TurnEnd`; `OfsType`, `OffsetStep(s)`; the fields of a scripted animation |
| `pos`, `dir`, `fix` | `PosX/Y/Z/I`, `Dir`, `DirLock` |
| `pcModel`, `lock` | `pcModelId`, `characterLock` |
| `Move`, `Fmove`, `Cmove`, `FieldMoveToEntityUpdate`, `Jump`, `Lader`, `Turn`, `Turnr`, `FieldEntityTurnToEntity`, `Ofstd`, `Anime`, `Canim` ... | the handlers of the same names, first call and poll |
| `UnderWay`, `Ordered`, `Arrived`, `Poll` | the three cases every one of them distinguishes by `ActionState` |
| `Walked`, `Controlled`, `Jumped`, `Climbed`, `Turned`, `Offset`, `AnimStep` | the branches of the engine's updates |
| `Halt` | a division by zero steps stops the processor |

The ground is a line of places. Where the walkmesh or another model stops a walker the outcome is chosen (`Outside`,
`Possible`), and `MayBlock` says who may be stopped. The interpolation `Linear` divides towards zero and has both
branches of `FieldCalcLinearStep`: a way of more than `Short` (0x7FFFF) is divided before it is multiplied, so that its
last step ends short of the target by the remainder. `Rung` is the length of a climb's step.

### 2.5 `FieldVars`

Memory is a function from cells to bytes; `ReadU8`, `WriteU8`, `ReadS16`, `WriteS16` are the four accessors, low byte
first, and each opcode is one operator on them. A byte has `Base` values and a page `Page` bytes, so that the same text
is checked with 3-bit bytes and proved for any size. The cells beyond the pages are in the model, since a word may end
there and SETX and GETX may lead there. SRCHX is the code's loop (`Walk`), and `FoundIsFirst` says what it has to find
without it. `taken` is the answer of a test; where it jumps is `FieldScript`'s.

### 2.6 `FieldScreen`

`camera`, `view`, `shake`, `fade`, `layer`, `lit`, `pal`, `vram` are the orders as the opcodes leave them and the
frame finds them; `Frame` is `FieldBGScrollInit`, `FieldBGScrollUpdate`, `FieldBGShakeUpdate` and
`FieldBGUpdateDrawenv` in the loop's order. One axis stands for both. An eased movement starts, ends and turns back
where a linear one does, and is linear here. The palette opcodes go through their runs colour by colour (`Passed`), so
that where source and destination overlap a colour is read as an earlier turn of the loop has left it. Fades are
carried out by code outside `src/`; `Fades` is what FADEW takes for granted of it.

### 2.7 `SaveMenu`

| Model | Code |
|---|---|
| `screen`, `mode`, `sel`, `cur`, `list`, `next` | which overlay runs, `D_801E3850` or `g_MenuStartMode`, the cursors, `D_80062F3C`, `D_801E36AC` |
| `step`, `tries`, `left`, `fd`, `buf` | where the transfer loop of `func_801D2408` or `func_801D1F40` is, its retries, `D_801E8F40`, the open file, `D_801E6F38` |
| `port`, `fresh`, `card` | external: what is in the ports and on the cards; a file is `Chunks` parts that know their save |
| `savemap`, `frozen` | the running game, whose play time changes it unless `D_80062D99` stops the clock |
| `Probe...` | the look at the ports; `SlotMove` ... `FormatNo`: every button of both screens |
| `SaveSum` ... `WriteFails`, `LoadOpen` ... `LoadRuined` | each call of the two loops with its success and its failure |
| `Written`, `WriteShort`, `Delivered` | a `write` or `read` that moves fewer parts than asked: the next one goes on in the file, but at the start of the buffer |
| `Insert`, `Remove`, `PowerOff`, `Ticks` | the world: cards go and come, power goes, the play time ticks in the vertical-blank callback |

### 2.8 `PartyMembers`

`party` and `partyID` are the two copies; `Transfer` is `PartyFromBank2ToSave` and its converse, with `OnlyIn`,
`PartyRemove`, `PartyAdd` as the helpers `PartyCompare`, `PartyRemove`, `PartyAdd`. `rec` is the battle record by slot,
which `Fresh` makes from the save data and `Restored` writes back. Save data are unsigned 16-bit numbers (`Unsigned`),
records signed ones (`Wrap`), and amounts any signed 16-bit number: `Added` has a limit above and none below, `Subtracted`
the reverse. `Owner` maps the two doubles (young Cloud, Sephiroth)
to the records they share. The menu between `MenuOn` and `MenuEnd` is external: it may exchange members (`MenuExchange`).

### 2.9 `ItemMenu`

`items` by place; `stack` is Quicksort's explicit stack of ranges, the top one being scanned; `SortExchange` and
`SortSplit` are one turn of its loop each. `Rank` and `After` are the comparators of the seven orders, `InOrder` says what
each order is for without them. `pockets`, `worn`,
`gear`, `charm` are the materia inventory and the equipment; `loot` and `aside` are the one buffer `yuffie_stolen_materia`
in its two uses, and `holds` says which of them the story has going on (the code relies on the story for that). `Each` is
the loop of the theft, the return, the unequip and FLMAT: one step (`Offering`, `Removing`, `GivingBack`, `Pocketing`) for
each materia of a list; `Upwards` and `Downwards` are the orders in which the slots are gone through (`LastChar` is the
last character, 8 in the game), and only characters of `Seen`, the visibility mask, are robbed and repaid.
`ItemBag` is the abstract inventory, a number per item; `BagSpec` is the refinement.
## 3. Runs

| Run | Module, cfg | Checks | Bounds |
|---|---|---|---|
| `requests` | `FieldScriptMC` | `NoLostWakeup WaitOwner StackSpec` | 3 entities, 144 maps: two directors with 3 x 2 kinds of request on 2 x 3 levels, 4 kinds of trigger |
| `party` | `FieldPartyMC` | `MainKept FrozenIsLet LockHasHolder WalkKept` | 4 entities, 28 maps: two drivers (the leader or another member), seven behaviours of the director (`ask`, `halt`, `preq`, `prqew`, `prtye`, `retto`, `swap`), a party of two or with a gap and in the other order |
| `waits_and_gatherings_end` | `FieldPartyMC_live` | `EveryWaitAnswered GatheringEnds` | 4 entities, one map without requests to followers (`reqew`) |
| `dialog` | `FieldDialogMC` | `OwnerPolls WindowKept ReadToEnd WindowsClose` | 2 entities, 2 windows, stacks of 2 scripts, a byte of 8 values for the count, texts of up to two rows and a page, one talk per entity |
| `commands` | `FieldEventCmdMC` | `MapShown MovieKept OwnCommandServed CommandsEnd` | 2 entities, 4 maps (one on the world map, one too large to be read ahead), one movie, 6 plans |
| `motion` | `FieldMotionMC` | `MoveOwned EndsWhereAsked OrdersEnd` | 2 models on 6 places, the player on 3 of them, ways of more than 2 places divided first, rungs of 2, 4 directions, orders of up to 3 steps, stacks of 2, one request, 13 maps |
| `vars` | `FieldVarsMC` | `NeverWraps OneVariable FoundIsFirst` | bytes of 3 bits, pages of 2 bytes, 12 programs |
| `screen` | `FieldScreenMC` | `CameraStands StepsAreCounted ScriptsEnd ShakeRests` | 2 scripts, 2 models, 7 plans, fades of 3 steps, 2 maps entered |
| `save` | `SaveMenuMC` | `TypeOK SavedIsWhole LoadsWhatWasSaved WorkEnds` | 1 port, 2 cards (one unformatted), 2 files in 1 row, 2 parts per file, 2 retries, 1 save, a clock of 2 values, short reads and writes |
| `load_never_gives_up` | `SaveMenuMC_load` | `LoadEnds`, violated | the same cards |
| `members` | `PartyMembersMC` | `OnceEach CopiesAgree LeaderKept OnlyTheirs` | 4 characters, one of them a double, 1 point at most in records of -3 .. 2, amounts -2 and 2, 6 plans |
| `items` | `ItemMenuMC` | `Arranged BagSpec ArrangeEnds PiecesKept TakesBest` | 4 items in 5 places, 2 of each at most, 6 orders, 3 kinds of materia, 3 characters (one not visible), pockets and buffer of 2 |

The assumptions on constants are evaluated by every run: sizes, well-formed images and plans, and for the proofs below
also `MainScripts` (`FieldPartyMC`) and `OneAsker` (`FieldEventCmdMC`), so that the hypotheses of the theorems are true of
something that is also checked.

**Why these bounds show something.**

* `requests`: with two directors asking one target on a less urgent, equal and more urgent level, together with a trigger
  at level 1, every branch of `FieldEventRequest` is taken against a target that runs its main script, a requested
  script, or a triggered one with two others beneath it; `WAIT`s of two frames put the preemption in front of, inside and
  behind a wait. A third director adds no new kind of contention, since a level has one waiter and one script.
* `party`: followers go through all four split-join states with the driver, the director and the player acting between any
  two of them; `retto` makes a member drop its scripts in the middle, `halt` is a director that is gone; in `swap` the
  director puts one member out and another in between any two frames of a gathering, so that a follower *is* out of the
  party when its driver lets everybody go: what `FrozenIsLet` allows does occur.
* `dialog`: two entities want the same window, one of them closing it (`share`); a window that OK does not close is
  resized and closed by another entity (`mode`); a script on top shows something in the window of the one beneath,
  while MENU and BATLE reset all windows (`own`); a window is reset while it is open (`reset`). A window's tables have
  no more than two sides (the owner, and everybody else), so a third entity repeats the second.
* `commands`: each plan is one reason for which the mailbox or the drive is in demand: `screens` (battle, menu, disc,
  event, minigame, with the player's menu button), `movies` (a disc, two movies in a row and a jump), `ahead` (PMJMP,
  PMJMP2, MJUMP), `locked` (MVLCK, game over), `free` and `walk` (the player crosses gateways and meets enemies while
  a script fights, jumps, plays a movie that another stops).
* `motion`: each map is a family of instructions of two entities that can disturb each other, with a preemption at any
  opcode: two walks that meet, a jump under a turn, a locked direction, asynchronous animations under a second script.
  From 0 to 5 is beyond `Short`, and jumps and climbs over it fall short of their place by a remainder.
* `vars`: 3-bit bytes have all of the code's cases (sign, overlap, carry into the neighbour, caps) with every value tried.
* `screen`: one plan per kind of order, each with two scripts that want it, and a map change in the middle of it;
  `Left` is left in the middle of a shake, of a scroll and of the camera's own movement.
* `save`: two parts per file are enough for a torn file and for a write or read that does half of it, two retries for a
  retry that succeeds and one that gives up, two files for a list that scrolls past its one row (and for a file that is
  not the chosen one). Lists of more rows and pages are covered by theorem `SaveTypes`.
* `members`: three slots, four characters: a full party with one left over; a double shares a record. The amounts are
  negative and positive and do not fit on top of a full pool, so that records wrap.
* `items`: five places are one more than the items, so that an empty place lies between any two; six orders contain all
  that the comparators compare (rank, name, count, flag).

CHECK_DEADLOCK is FALSE in `vars` (a division by zero traps and the console stands still) and in `screen` (all scripts
of a plan may be over).

`load_never_gives_up`: `func_801D1F40` is documented to have the shape of `func_801D1D40`, which gives up after 30 tries,
and a comment marks that it counts its tries up instead of down. The run shows what follows: a card that is pulled while
a game is loaded leaves the screen reading for ever (the finding in `PROJECT.json`).

## 4. Fairness

* `FieldScript`: `FairSpec` has weak fairness on the start of a frame, on the trigger checks and on the opcode cycle:
  `FieldMainLoop` never blocks on scripts, a turn is at most eight opcodes and a cycle at most `NumEntities` turns, so
  each always ends. `MotionFairness` adds strong fairness of arrival and of the end of a turn: a walk that is armed
  again and again would arrive if its way is clear, and a turn takes a fixed number of frames. Strong, since the frame
  phases in between disable the engine's actions. Liveness is checked on a map where nobody preempts followers and
  waits form no cycle: an image can deadlock by design, and no code prevents it.
* `FieldDialog`: every frame and every turn ends, as above; `PlayerFairness` says that the player presses OK again and
  again (and lets go), which no code can force and every text waits for; `TextGoesOn` that a writer that is polled
  writes.
* `FieldEventCmd`: weak on the whole system (the loop never blocks), strong on the end of a turn, on the movie update, on
  the drive (a read that is started ends), and on `Leave` and `Stay`: the player does not hold the menu button at every
  single frame, which would postpone battles and movies for ever.
* `FieldMotion`: weak on `Next`; the frame goes on. `FieldScreen`: weak on the frame and on each script's turn.
* `SaveMenu`: weak on the screen's own work, nothing of the player, the cards or the power. `ItemMenu`: weak on a turn of
  Quicksort's loop.

## 5. Proofs

TLAPS checks every theorem below for all values of the constants that satisfy the named assumptions: any number of
entities, windows, models, files, places, any images, texts, plans and maps. Each component has an inductive invariant,
and one lemma for each action, or each kind of action, that preserves it.

### Scheduler (`FieldScriptProofs`, from `SizesAssumption`, `ImagesAssumption` and the characters of `PartyOps`)

* `TypeCorrect`, `OwnCode`. The inductive invariant `TypeInv` is `TypeOK` with `CodeOwned`: a program counter stays an
  address only because it stays in code of its own entity, where every instruction that falls through has a successor.
* `WaitOwned`: `WaitOwner` is inductive together with `TypeInv`; every opcode that leaves a WAIT clears its counter.
* `WalksKept`: the walk of a follower is cancelled by no one but a request that preempts the follower. It needs that a
  script that runs a MOVE on a frozen follower is turned away, and that only JOIN's and SPLIT's own driver goes on.

For images in which no script uses `RETTO` (`NoRetto`, a hypothesis of each theorem: RETTO drops scripts without
answering who waits for the last of them, see 7):

* `StackDiscipline`: `StackShape`, `MainKept` and `NoLostWakeup`. None of the three is inductive by itself. Every step
  is one of four kinds (`Local`, `Parks`, `Preempts`, `Returns`; lemma `StepKinds`), and each kind preserves the
  conjunction: a return resumes the most urgent kept script, which exists because the main one is kept, and empties
  its slot, which keeps the shape; a request touches only empty levels, so no level that is waited for loses its
  script.
* `SuspendedStays`, `WaitStays`: the action properties, from the same step kinds.
* `ImplementsStack`: `Spec => StackSpec`, each step kind being an `Advance`, `Push` or `Pop` of every entity or a stutter.
* `LockIsHeld`: `LockHasHolder`. The frame that took the control stays in some level until it gives it back; without
  `NoRetto` a parked ASK, JOIN or SPLIT can be dropped and the player stays locked.
* `FrozenAreLetGo`: `FrozenIsLet`, whatever PRTYE does to the party and when. A driver keeps the frame of its JOIN or
  SPLIT, running, kept or parked, until the step with which it lets everybody go (`DriverNext`); nobody is frozen but
  by a driver (`GatheringDriven`); and the step that lets go finds who is in the party at that moment (`MembersAre`).
  So the only way for a frozen entity to be left without a driver is to be out of the party in that step.

For images that use RETTO, under a weaker hypothesis:

* `MainScriptKept`: `MainKept`, if main code uses RETTO only to start over at the main level (`RettoSpares`: there is
  a set of addresses, `MainCode`, that holds the main scripts' starts, is closed under where its instructions lead,
  and whose RETTOs name the main level). The inductive `MainInv` says that what runs or lies on the main level is in
  that set. `FieldPartyMC` checks that the maps of the `party` run satisfy it, those with RETTO among them.

### Windows (`FieldDialogProofs`, from `DialogAssumption`)

* `WindowTypes`: `TypeOK`, strengthened by `Opening` (a window that grows is not at full size yet).
* `WindowsOwned`: `OwnerPolls`, with `OwnInv`: a window is open exactly when it has an owner, and the owner has a
  script on its stack that stands at a MES or ASK for it. The second half makes it inductive: a script leaves its MES
  only when the window is gone.
* `WindowsKept`: the action property `WindowKept`, one lemma per kind of poll.

### Field commands (`FieldEventCmdProofs`, from `CmdAssumption`), whatever the player does

* `CmdTypes`, `MapAlwaysShown`, `OneDriveUser` from the inductive invariant `CmdInv`. `MapShown` is not inductive: it
  needs that what is flagged as read ahead *is* in the buffer (`BufferKept`), which a movie overwrites, so that it
  needs in turn that reading ahead has been stopped in the frame in which the movie is asked for; that a map that is
  resumed is the one that was left (`PlaceKept`); and that the parameter of a map change is a map, whoever wrote it
  (`ParamKind`). `DriveOwned` needs that the mailbox is not free while a movie runs (`StreamAsked`), else a second
  PMVIE would find the drive idle and its flags reset by the end of the first.
* `MoviesKept`: no step reads a map over a movie.
* `CommandsAreOwn`: `OwnCommandServed`, if no two entities ask for the same command in a plan in which the player is held
  (`OneAsker`; the mailbox does not say whose an answer is, so two askers may take each other's). The inductive `AskInv`:
  while the player is held no random battle is pending; what is in the mailbox was put there by an opcode that still
  stands there, or is a menu nobody waits for, or a command nobody is told the end of; and DONE with a command means that
  its asker has been served, but for one case, DSKCG, which finds the DONE of an earlier command when the disc is
  already the right one (`DiscAhead`).

### Models (`FieldMotionProofs`, from `MotionSizes`, `MotionAnims`, `MotionWords`)

* `MotionTypes`, `MovesAreOwned` (`MoveOwned`), `MovesEndWhereAsked` (`EndsWhereAsked`), `StepsStayInside`, and the
  action property `CmoveKeepsFacing`, from `IInv == ScriptsOK /\ ModelsOK /\ FrameOK /\ MovesOK`. The heart is
  `InOrder`: what a model's order says at each `ActionState` is a function of the instruction the running script
  stands on. It is kept by a preemption because a request cancels the model's movement, which is what the mutant of
  `MoveOwned` leaves out. `MovesEndWhereAsked` holds with the remainder of a long way: n steps of the quotient by n
  end less than n from the place.

### Variables (`FieldVarsProofs`, from `VarsSizes`, `VarsTable`, `VarsPrograms`, `VarsBits`)

* `VarsTypes`, `SumsNeverWrap`, `OneVariableOnly`, `SearchFindsFirst`. Widths are constants, so that the theorems are
  about 8-bit bytes and 256-byte pages as well as about the small ones TLC has seen. `VarsBits` (every set of bits is
  some word's) is arithmetic of powers of two, an induction; TLC evaluates it for the run's width. `SearchFindsFirst`
  is about the loop of SRCHX, a recursive function: that it exists is proved by well-founded recursion, and that what
  it gives is the first place with the value by the last start at which it would not be (lemmas on `Walk`).

### Saves (`SaveMenuProofs`, from `SaveSizes`)

* `SaveTypes`, `SavedWhole`, `LoadedWasSaved` from an inductive `IInv`, which ties the step of a transfer to its
  counter, to the card behind the open file and to the parts written so far, and says that any part with a good
  checksum is of a game that was held or saved. `SavedWhole` is an equivalence: a file that is called saved is whole
  *if and only if* no write of it fell short (`left = Chunks` at the last one), since a write after a short one puts
  the buffer's start where its end belongs. `LoadedWasSaved` then says that such a file is refused, or that what is
  read of it is a saved game; it is the file that was chosen if that file's parts are where they belong.

### Party (`PartyMembersProofs`, from `MembersAssumption`)

* `MembersTypes`, `NobodyTwice`, `CopiesAreCarried`, `LeaderIsKept`, `OnlyTheirPoints` from `IInv == PartyOK /\
  OnceInv /\ HealthOK /\ PayOK`, for all signed 16-bit amounts. `OnceEach` alone is not inductive: SPTYE sets back
  what GPTYE kept, so `OnceInv` includes the kept party. `CopiesAgree` rests on lemmas about the carry: `OnlyIn` lists
  exactly the members one copy has and the other has not, there are as many free slots as newcomers, and who was in
  both stays in its slot. `OnlyTheirs` needs that a battle record is fresh when an opcode changes it: a record that
  wrapped is the same bits as the save data it came from (`StoredTwice`), so freshness survives sums that do not fit.
* `PoolsStayInLimits`: `PoolsInLimits` where the amounts are not negative and fit on top of a full pool
  (`SmallAmounts`, the hypothesis of this theorem only); with others pools do leave their limits, see 7.

### Items (`ItemMenuProofs`, from `ItemsAssumption`)

* `ItemTypes`, `ArrangeSorts` (`Arranged`), `InventoryIsABag` (`Spec => BagSpec`), `RangesHaveRoom` from
  `IInv == GoodsOK /\ SortInv`. `SortInv` is the invariant of Quicksort: the ranges on the stack are disjoint and each at
  most half as long as the one beneath (`RangesOK`), what the two scanning indices have passed is on its side of the
  pivot (`Pivoted`), and two places in the wrong order lie in one range that is still to be sorted (`Apart`). Halving is
  also why the 64 entries of the code's stack are never used up, so that its silent overflow return is never taken.
  `Arranged` is stated by `InOrder`, which does not mention `Rank`: lemma `RanksInOrder` says that ascending ranks are the
  order asked for. `InventoryIsABag` needs that an item is in one place and that a place is left for a new one.
* `MateriaStays`, `PiecesAreKept` (`PiecesKept`), `TheftIsBest` (`TakesBest`), from `MateriaOK`, the types of the materia.
  The work is in single steps, which loop over all slots and places. `EachKeeps` is the rule for `Each`: what holds before
  and is kept by every turn holds at the end (by the least turn at which it fails, as the library's induction needs an
  operator). What is kept is a count of each materia. `Upwards` and `Downwards` enumerate every slot once
  (`UpwardsIs`, `DownwardsIs`, by division by the slots of a character), so that the list that is offered has as many of a
  materia as lie within reach. For the theft, `Fits` is the invariant of the offers: the buffer holds no more of a materia
  than were offered, and fewer only when it is full of what is worth no less. The removals then find every piece there
  is in the buffer (`RemovesEach`), so that what is left was not taken, and the sum of hands and buffer stays.

### What stays with TLC

* Liveness, out of the prover's reach as is ENABLED: `EveryWaitAnswered`, `GatheringEnds`, `ReadToEnd`, `WindowsClose`,
  `CommandsEnd`, `OrdersEnd`, `ScriptsEnd`, `ShakeRests`, `WorkEnds`, `ArrangeEnds`.
* `CameraStands`, `StepsAreCounted`: not proved yet (see 8).
* Images with RETTO, beyond types, code ownership, wait counters, walks and main scripts.
## 6. Not modelled

* **Code that is still assembly.** The functions below are `INCLUDE_ASM` stubs: there is no source to translate, and
  what remains in C beside them does not add up to a protocol: `battle.c` 75, `battle1.c` 99, `battle2.c` 48,
  `battle3.c` 42, `world.c` 103, `world2.c` 12, `18B8.c` 126, `1255C.c` 29, `akao2.c` 34, `psxsdk.c` 459. In battle
  these are the consumers of the event queues, the turn order and the AI's stack machine; in the resident program the
  dispatch of overlays and the main menus; in the world map the main loop and whatever boards, leaves and frees
  vehicles. Where the field calls into such code (`main()`, the CD chain, the BIOS, fades, the party menu), the
  modules have external actions, marked so in `PROJECT.json`.
* **Drawing**: packets, particles, rain, effects on models, debug pages, effects of magic, the ending, fonts. No other
  part waits for their state.
* **Geometry**: the walkmesh, projection and collision arithmetic. What it reports to scripts is a choice in the models.
* **Left out of modelled components**: speeds and radii (MSPED, SLIDR, TALKR, ASPED), JOIN's and SPLIT's walks inside
  `FieldMotion` (they are in `FieldScript`), window geometry and text beyond the codes that stop the writer, ASK's
  pointer, BGPDH, levels and equipment bonuses, MHMMX's clearing of a status, the item menu's own cursor and using an
  item. Of the materia: the result code `g_FieldMateriaAddResult`, the kind bits of `func_8002542C`, and the party's
  line-up that `BackupCharacterMateria` keeps and `RestoreCharacterMateria` writes back (`menu/itemmenu.c` 753-758 and
  820-825), which `PartyMembers` does not see either.

These are most of the repository's lines: the assembly overlays and the drawing code are why the share of all C lines that
the modules stand for stays low, while the field's scripting, which is the program's control, is covered opcode by opcode.

Abstractions that a reader should know of:

* A word at the last byte of bank 7's page reaches `phs_locking_mask`; SETX and GETX have no lower clamp and read the
  offset byte twice; the cells beyond the pages are in the model for that. Which initial step the random table has is
  overlay data, and an unknown comparison leaves its result uninitialised: both are choices.
* A write to a card that fails may have written some parts; one that succeeds may have written fewer than it was given. A
  new file has the block's old content. Transfers fail when another card than the opened one is in the port. The check of
  a card, which reads the start of each file into the same buffer, leaves it as it was: transfers start there anyway.
* The functions that `SystemRefreshParty` calls (`func_80020058`, `func_8001786C`, `func_80017678`) are assembly and
  taken to copy the save data into the battle records.
* Items are one place per number and there are as many places as numbers (320), so that a free place is always found;
  amounts are at most the cap. FLITM's order of filling is a choice.
* The modules' frames have nothing else in them than their own opcodes; the sort is one turn of its loop per step while
  nothing else runs, as in the code.

## 7. Observations

Found while modelling, and kept out of the runs' properties because they are what the code does. Each is a place where
the code surprises; none is a claim that the game misbehaves on its own scripts.

*Scheduler.* `REQ` on a level whose last `REQEW` was answered and not yet collected yields and tries again. `RETTO`
stops one short: a waiter on the level just below the given one is not answered, and the main script itself is lost if
main code takes itself to a more urgent level. It can also drop a parked ASK, JOIN or SPLIT and leave the player
locked. `WAIT 0` gives the turn up, and a `WAIT` starts over after each preemption, so that a trigger raised often
enough starves it. The waiter of a level is an *entity*: a preempting script of the same entity that asks for the same
level joins the wait, and one of the two ends without its script having run. A `REQEW` parked on a level whose answer
is DONE overwrites the waiter. `PRQEW` looks its slot up at every poll, so a party change redirects it. `PRTYE` during
a gathering leaves a dropped member frozen. A driver of JOIN or SPLIT that is itself a follower can cancel its own
walk by a MOVE in a preempting script.

*Windows.* After `WROW` on a window that waits for OK at a row, OK does nothing any more. `MES` or `ASK` on a window
of the same entity's script beneath goes on with that script's message. `WCLSE` does nothing to a window in a timed
pause, before a page and while scrolling; `WREST` of an open window leaves the count too high; two entities that hold
a window each and want the other's wait for ever.

*Field commands.* In the frame after a random encounter, BATLE takes the encounter and an old DONE for its own and neither
battle is fought. Two scripts that ask for the same command: the first to poll takes the other's answer. A battle between
PMJMP and PMJMP2 makes the latter wait for ever on a map without gateways; a second PMVIE while a movie is ready is
done at once, without its movie; MOVIE without a loaded movie never ends; a player who holds the menu button keeps PMVIE
from being looked at.

*Models.* TURN takes the end of another script's turn for its own. A jump or climb over more than 0x7FFFF units of
12-bit fixed point (128 of the map's) ends short of its place by the remainder of the division by its steps. MOVA goes
to where the other model was at its last poll, and may end where that model no longer is. LADER that is preempted at
its end climbs again, from where it stands, and divides by zero steps.

*Variables.* DEC2! and MNS2! always leave -32768 where their comments say capped. SRCHX counts from the start of the
memory while GETX adds the page again. IF2's bit tests are kept in a byte and drop bits 8 to 15. DIV and REMAI by zero
trap.

*Picture.* SHAKE off, on with fewer steps and off again within one frame of the final ease swings until a 16-bit step
wraps. Amplitudes of 129 and more overflow; shake segments overshoot by one step; zero steps divide by zero. RTPAL
includes the colour behind its run. SCRLP of an empty slot reads behind a table. BGROL shifts bits out. The fade of a
return from battle replaces a script's. SCRLW after an order that follows at once waits for ever.

*Saves.* After a write that moved fewer bytes than it was given, the rest is written from the start of the buffer and
"Saved." is said of a file that loading refuses; reads do the same. A card pulled between delete and write loses the
old save; a swap between two probes leaves the old list on the screen; format acts on whatever card is in the port.
After a failed read of the last file the screen goes on to wait.

*Party.* SPTYE does not give back a party with an empty slot (the slot is filled from the current party). MMB- changes the
field's copy only, so that a later MENU brings the member back. Other scripts run between the menu's return and MENU's
collection, so that a carry the other way loses the player's choice. MENU's end and MMB- do not set the player's model.
HP+ and MP+ have no lower limit and HP- and MP- no upper one: a negative amount, or one whose sum does not fit into
sixteen signed bits, leaves a pool above its maximum, and the save data hold it as an unsigned number.

*Items.* The comparators' comments contradict them twice. They say that empty places sort first for four of the
orders; the code sorts them last. They say that items with the flag go ahead of those without (`menu/itemmenu.c` 331,
351, 372); `Sign(kb - ka)` puts those whose bit is *set* in what `func_8001FAF8` returns behind the others. That
function is assembly, so which bit value means usable is not in the source, and `Flagged` is whatever has it set. A
return to a full materia inventory loses pieces, a second return would duplicate them, and Restore overwrites the
first three pockets and restores the party line-up as well. STITM of zero leaves a place with zero.

## 8. Plan

Done: the ten modules above, with proofs for nine of them. Next, in this order:

1. `FieldScreen`: `CameraStands` (once the order is carried out the camera is at its target until the next order) and
   `StepsAreCounted` (each order that is under way has steps).
2. The composition of `FieldDialog` and `FieldEventCmd`: BATLE and MENU reset windows while their owners wait.
3. `FieldScript` with RETTO: which of the stack's properties hold with the waiters it forgets.
