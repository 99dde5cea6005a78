------------------------------ MODULE SaveMenu ------------------------------
(***************************************************************************)
(* The save screen (src/src/menu/savemenu.c), the load screen              *)
(* (src/src/menu/title.c) and the memory cards they talk to.               *)
(*                                                                         *)
(* Both screens poll the ports, list the files of a card, and save the     *)
(* running game or load another.  Reading and writing are loops of calls   *)
(* to the BIOS, any of which may fail; a card may be pulled, put back or   *)
(* exchanged between any two of them, and the power may go at any time.    *)
(* What the screens draw, and the fades when they open and close, are left *)
(* out.  A file is a block of parts, and each part knows which part of     *)
(* which save it is.                                                       *)
(***************************************************************************)
EXTENDS Integers, Sequences, FiniteSets

CONSTANTS
    Ports,          \* the two ports
    Cards,          \* memory cards
    Nothing,        \* no card
    Files,          \* how many files a card has for this game (15)
    Rows,           \* how many of them the screen shows (3)
    Chunks,         \* parts of a file a transfer may end after
    Retries,        \* how often a call is tried again (30)
    DeleteTries,    \* how often the old file is opened (10)
    MaxClock,       \* bound on the states of the running game
    MaxSaves,       \* bound on the saves of a behaviour
    ShortReads,     \* the BIOS may read a part of what was asked for
    ShortWrites,    \* and write a part of what it was given
    Contents        \* the cards at the start

File  == 0 .. Files - 1
Game  == 0 .. MaxClock          \* the running game; its play time changes it
Save  == [game : Game, sum : Game]      \* a Savemap; sum is what its checksum was made of
Lost  == [game |-> -1, sum |-> 0]       \* a Savemap that is no game
Block == [1 .. Chunks -> [save : Save, part : 0 .. Chunks]]
FileOf(s) == [n \in 1 .. Chunks |-> [save |-> s, part |-> n]]
Blank     == [n \in 1 .. Chunks |-> [save |-> [game |-> 0, sum |-> 0], part |-> 0]]
\* Every part that was written is where it belongs.
InPlace(b) == \A n \in 1 .. Chunks : b[n].part \in {0, n}
CardState == [formatted : BOOLEAN, dir : SUBSET File, block : [File -> Block]]

ASSUME SaveSizes ==
    /\ Files \in Nat \ {0} /\ Rows \in 1 .. Files /\ Chunks \in Nat \ {0}
    /\ Retries \in Nat \ {0} /\ DeleteTries \in Nat \ {0} /\ MaxClock \in Nat /\ MaxSaves \in Nat
    /\ ShortReads \in BOOLEAN /\ ShortWrites \in BOOLEAN /\ Nothing \notin Cards
    /\ Contents \in [Cards -> CardState] /\ \A c \in Cards, f \in File : InPlace(Contents[c].block[f])

VARIABLES
    port,       \* the card in each port
    fresh,      \* the BIOS has not seen the card in the port yet
    card,       \* what is on each card
    known,      \* D_801E8F38: what the last look at each port found
    screen,     \* "save" or "load"
    mode,       \* D_801E3850, g_MenuStartMode
    sel,        \* the port chosen
    cur,        \* the list of files: the row of the cursor, the top row, and scroll
    list,       \* D_80062F3C: the files found on the card
    next,       \* D_801E36AC: the next file to look into; -1 before the directory is read
    msg,        \* the message on the screen
    over,       \* "no", or how the screen was left
    savemap,    \* Savemap, the running game
    frozen,     \* D_80062D99: the play time stands still
    step,       \* where saving or loading is
    tries,      \* retries
    left,       \* D_801E8F40: parts still to transfer
    fd,         \* the card of the file that is read or written
    buf,        \* D_801E6F38: the buffer for both directions
    saved       \* history: the games that were saved, in order

bios  == <<port, fresh, card>>
lists == <<sel, cur, list, next>>
io    == <<step, tries, left, fd, buf, saved>>
vars  == <<bios, known, screen, mode, lists, msg, over, savemap, frozen, io>>
----------------------------------------------------------------------------
(***************************************************************************)
(* Cards, the BIOS and the clock                                           *)
(***************************************************************************)
Insert(p, c) ==
    /\ port[p] = Nothing /\ \A q \in Ports : port[q] # c
    /\ port' = [port EXCEPT ![p] = c] /\ fresh' = [fresh EXCEPT ![p] = TRUE]
    /\ UNCHANGED <<card, known, screen, mode, lists, msg, over, savemap, frozen, io>>
Remove(p) ==
    /\ port[p] # Nothing
    /\ port' = [port EXCEPT ![p] = Nothing] /\ fresh' = [fresh EXCEPT ![p] = FALSE]
    /\ UNCHANGED <<card, known, screen, mode, lists, msg, over, savemap, frozen, io>>
\* The play time goes on in the vertical blank, on the save screen too.
Ticks ==
    /\ savemap.game \in 0 .. MaxClock - 1 /\ ~frozen /\ over = "no"
    /\ savemap' = [savemap EXCEPT !.game = @ + 1]
    /\ UNCHANGED <<bios, known, screen, mode, lists, msg, over, frozen, io>>

Selected    == cur.row + cur.top
Readable(p) == port[p] # Nothing /\ card[port[p]].formatted
Has(p, f)   == Readable(p) /\ f \in card[port[p]].dir
Whole(b)    == b = FileOf(b[1].save)
\* The checksum of a Savemap that is not what it was made of is taken to be wrong.
SumHolds(s) == s.sum = s.game
----------------------------------------------------------------------------
(***************************************************************************)
(* func_801D3478: every 64 frames, a look at each port.  What it notes of  *)
(* an error is never read.                                                 *)
(***************************************************************************)
Probing ==
    /\ over = "no" /\ mode \in {"title", "slot", "file"}
    /\ screen = "save" => msg = "none"
NoCard == [here |-> FALSE, raw |-> FALSE]

ProbeTimeout(p) == port[p] = Nothing /\ known' = [known EXCEPT ![p] = NoCard] /\ UNCHANGED bios
\* Whether the card can be read; an error leaves that as it was.
Loaded(p, raw) == raw = known[p].raw \/ (raw <=> ~Readable(p))
\* A card that was seen before and is known is not looked into again.
ProbeSame(p) ==
    /\ port[p] # Nothing /\ ~fresh[p]
    /\ \E raw \in BOOLEAN :
          Loaded(p, raw) /\ known' = [known EXCEPT ![p] = IF @.here THEN @ ELSE [here |-> TRUE, raw |-> raw]]
    /\ UNCHANGED bios
\* A new card is cleared and loaded; that it is here is noted at the next look.
ProbeNew(p) ==
    /\ port[p] # Nothing /\ fresh[p]
    /\ fresh' = [fresh EXCEPT ![p] = FALSE]
    /\ \E raw \in BOOLEAN : Loaded(p, raw) /\ known' = [known EXCEPT ![p].raw = raw]
    /\ UNCHANGED <<port, card>>
\* The card is pulled meanwhile, and _card_load times out.
ProbeLost(p) ==
    /\ port[p] # Nothing /\ (fresh[p] \/ ~known[p].here)
    /\ port' = [port EXCEPT ![p] = Nothing] /\ fresh' = [fresh EXCEPT ![p] = FALSE]
    /\ known' = [known EXCEPT ![p].here = FALSE]
    /\ UNCHANGED card
Probe(p) ==
    /\ Probing
    /\ ProbeTimeout(p) \/ ProbeSame(p) \/ ProbeNew(p) \/ ProbeLost(p)
    /\ UNCHANGED <<screen, mode, lists, msg, over, savemap, frozen, io>>

\* Drawing the files of a card that is gone goes back to the choice of a slot.
FileGone ==
    /\ over = "no" /\ mode \in {"file", "confirm"} /\ ~known[sel].here
    /\ mode' = "slot"
    /\ UNCHANGED <<bios, known, screen, lists, msg, over, savemap, frozen, io>>
----------------------------------------------------------------------------
(***************************************************************************)
(* The player: buttons and cursors                                         *)
(***************************************************************************)
Reads(m) == over = "no" /\ msg = "none" /\ mode = m /\ (m \in {"file", "confirm"} => known[sel].here)
Rest     == UNCHANGED <<bios, known, screen, savemap, frozen, io>>
Goes(m)  == mode' = m /\ Rest /\ UNCHANGED <<lists, msg, over>>

TitleContinue == Reads("title") /\ (\E p \in Ports : known[p].here) /\ Goes("slot")
TitleNewGame  == Reads("title") /\ over' = "new" /\ Rest /\ UNCHANGED <<mode, lists, msg>>

SlotMove(p) == Reads("slot") /\ sel' = p /\ Rest /\ UNCHANGED <<mode, cur, list, next, msg, over>>
SlotNone ==
    /\ Reads("slot") /\ ~known[sel].here
    /\ msg' = "No Memory card." /\ Rest /\ UNCHANGED <<mode, lists, over>>
SlotRaw   == Reads("slot") /\ known[sel].here /\ known[sel].raw /\ Goes("format")
SlotCheck ==
    /\ Reads("slot") /\ known[sel].here /\ ~known[sel].raw
    /\ mode' = "check" /\ next' = -1 /\ list' = {} /\ cur' = [row |-> 0, top |-> 0, scroll |-> 0]
    /\ Rest /\ UNCHANGED <<sel, msg, over>>
SlotCancel ==
    /\ Reads("slot")
    /\ \/ screen = "load" /\ mode' = "title" /\ UNCHANGED over
       \/ screen = "save" /\ over' = "back" /\ UNCHANGED mode
    /\ Rest /\ UNCHANGED <<lists, msg>>

\* func_801D2DA8: one row up or down, or a page; a list that scrolls up has its
\* new top at once, one that scrolls down when it is there.
Steers(to) == Reads("file") /\ cur' = to /\ Rest /\ UNCHANGED <<mode, sel, list, next, msg, over>>
RowUp ==
    /\ cur.scroll = 0
    /\ Steers(IF cur.row > 0 THEN [cur EXCEPT !.row = @ - 1]
              ELSE IF cur.top > 0 THEN [cur EXCEPT !.top = @ - 1, !.scroll = -1] ELSE cur)
RowDown ==
    /\ cur.scroll = 0
    /\ Steers(IF cur.row + 1 < Rows THEN [cur EXCEPT !.row = @ + 1]
              ELSE IF cur.top < Files - Rows THEN [cur EXCEPT !.scroll = 1] ELSE cur)
PageDownPast == cur.scroll = 0 /\ Steers([cur EXCEPT !.top = IF @ > Files - Rows THEN Files - Rows ELSE @ + Rows])
PageDown     == cur.scroll = 0 /\ Steers([cur EXCEPT !.top = IF @ + Rows > Files - Rows THEN Files - Rows ELSE @ + Rows])
PageUp       == cur.scroll = 0 /\ Steers([cur EXCEPT !.top = IF @ - Rows < 0 THEN 0 ELSE @ - Rows])
Scrolled     == cur.scroll # 0 /\ Steers([cur EXCEPT !.top = IF cur.scroll = 1 THEN @ + 1 ELSE @, !.scroll = 0])

\* Saving asks first, whatever is listed; loading does not, and takes what is listed.
FileSave   == screen = "save" /\ Reads("file") /\ cur.scroll = 0 /\ Goes("confirm")
FileLoad   == screen = "load" /\ Reads("file") /\ cur.scroll = 0 /\ Selected \in list /\ Goes("work")
FileCancel == Reads("file") /\ cur.scroll = 0 /\ Goes("slot")
ConfirmYes == Reads("confirm") /\ Len(saved) < MaxSaves /\ Goes("work")
ConfirmNo  == Reads("confirm") /\ Goes("file")

FormatYes ==
    /\ Reads("format") /\ mode' = "slot"
    /\ \/ /\ port[sel] # Nothing
          /\ card' = [card EXCEPT ![port[sel]].formatted = TRUE, ![port[sel]].dir = {}]
          /\ known' = [known EXCEPT ![sel].raw = FALSE]
          /\ msg' = "Completed."
       \/ msg' = "Could not format." /\ UNCHANGED <<card, known>>
    /\ UNCHANGED <<port, fresh, screen, lists, over, savemap, frozen, io>>
FormatNo == Reads("format") /\ Goes("slot")

\* The message window is the resident program's.
Dismiss == over = "no" /\ msg # "none" /\ msg' = "none" /\ Rest /\ UNCHANGED <<mode, lists, over>>
----------------------------------------------------------------------------
(***************************************************************************)
(* Checking the card: the directory, then every file it has                *)
(***************************************************************************)
\* func_801D1C2C: a card that does not answer has no files, and one that is
\* pulled meanwhile has those that were found.
CheckDirectory ==
    /\ Reads("check") /\ next = -1
    /\ next' = 0
    /\ list' \in SUBSET (IF Readable(sel) THEN card[port[sel]].dir ELSE {})
    /\ Rest /\ UNCHANGED <<mode, sel, cur, msg, over>>
\* func_801D3698: after the last file the check is over, read or not.
CheckFile ==
    /\ Reads("check") /\ next # -1
    /\ \/ /\ next \notin list \/ Has(sel, next)
          /\ mode' = IF next = Files - 1 THEN "wait" ELSE mode
          /\ UNCHANGED msg
       \/ /\ next \in list
          /\ mode' = IF next = Files - 1 THEN "wait" ELSE "slot"
          /\ msg' = "Couldn't read it."
    /\ next' = IF next = Files - 1 THEN next ELSE next + 1
    /\ Rest /\ UNCHANGED <<sel, cur, list, over>>
CheckOver == Reads("wait") /\ Goes("file")
----------------------------------------------------------------------------
(***************************************************************************)
(* func_801D2408: saving                                                   *)
(***************************************************************************)
Saving(s)  == over = "no" /\ screen = "save" /\ mode = "work" /\ msg = "none" /\ step = s
World      == UNCHANGED <<port, fresh, known, screen, lists, over>>
\* One more failure; the last one ends the loop.
FailsTo(s) == IF tries > 1 THEN tries' = tries - 1 /\ UNCHANGED step ELSE tries' = Retries /\ step' = s
\* The file is closed.  What was transferred stays in the buffer.  The check of
\* a card reads the start of every file to where each transfer begins anyway.
Closes     == step' = "start" /\ tries' = Retries /\ left' = Chunks /\ fd' = Nothing
Ends(m)    == Closes /\ msg' = m /\ mode' = "file" /\ UNCHANGED buf

\* The clock is stopped while the checksum is made and the Savemap is copied.
SaveSumRunning ==
    /\ Saving("start")
    /\ savemap' = [savemap EXCEPT !.sum = savemap.game] /\ step' = "copy"
    /\ World /\ UNCHANGED <<card, mode, msg, frozen, tries, left, fd, buf, saved>>
SaveSum ==
    /\ Saving("start")
    /\ frozen' = TRUE /\ savemap' = [savemap EXCEPT !.sum = savemap.game] /\ step' = "copy"
    /\ World /\ UNCHANGED <<card, mode, msg, tries, left, fd, buf, saved>>
SaveCopy ==
    /\ Saving("copy")
    /\ buf' = FileOf(savemap) /\ saved' = Append(saved, savemap.game)
    /\ frozen' = FALSE /\ left' = Chunks /\ step' = "old" /\ tries' = DeleteTries
    /\ World /\ UNCHANGED <<card, mode, msg, savemap, fd>>
\* The old file is opened and deleted; whether it is gone is not looked at.
OldDelete ==
    /\ Saving("old") /\ Has(sel, Selected)
    /\ \/ card' = [card EXCEPT ![port[sel]].dir = @ \ {Selected}]
       \/ UNCHANGED card
    /\ step' = "create" /\ tries' = Retries
    /\ World /\ UNCHANGED <<mode, msg, savemap, frozen, left, fd, buf, saved>>
OldFails ==
    /\ Saving("old") /\ FailsTo("create")
    /\ World /\ UNCHANGED <<card, mode, msg, savemap, frozen, left, fd, buf, saved>>
\* The new file has what was in its block before.
Create ==
    /\ Saving("create") /\ Readable(sel) /\ Selected \notin card[port[sel]].dir
    /\ card' = [card EXCEPT ![port[sel]].dir = @ \cup {Selected}]
    /\ step' = "reopen" /\ tries' = Retries
    /\ World /\ UNCHANGED <<mode, msg, savemap, frozen, left, fd, buf, saved>>
CreateFails ==
    /\ Saving("create") /\ FailsTo("failed")
    /\ World /\ UNCHANGED <<card, mode, msg, savemap, frozen, left, fd, buf, saved>>
Reopen ==
    /\ Saving("reopen") /\ Has(sel, Selected)
    /\ fd' = port[sel] /\ step' = "write" /\ tries' = Retries
    /\ World /\ UNCHANGED <<card, mode, msg, savemap, frozen, left, buf, saved>>
ReopenForEver ==
    /\ Saving("reopen")
    /\ UNCHANGED vars
ReopenFails ==
    /\ Saving("reopen") /\ FailsTo("failed")
    /\ World /\ UNCHANGED <<card, mode, msg, savemap, frozen, left, fd, buf, saved>>
\* n parts from the start of the buffer go to where the file is written on.
Written(n) ==
    LET at == Chunks - left
    IN  [card EXCEPT ![fd].block[Selected] = [k \in 1 .. Chunks |-> IF k \in at + 1 .. at + n THEN buf[k - at] ELSE @[k]]]
Write ==
    /\ Saving("write") /\ port[sel] = fd
    /\ card' = Written(left)
    /\ list' = list \cup {Selected} /\ Ends("Saved.")
    /\ UNCHANGED <<port, fresh, known, screen, sel, cur, next, over, savemap, frozen, saved>>
\* Fewer parts than there were: the next write goes on with as many as are left.
WriteShort ==
    /\ Saving("write") /\ ShortWrites /\ port[sel] = fd /\ FailsTo("failed")
    /\ \E n \in 0 .. left - 1 : card' = Written(n) /\ left' = left - n
    /\ World /\ UNCHANGED <<mode, msg, savemap, frozen, fd, buf, saved>>
\* A write that fails may have written some parts, and is made again.
WriteFails ==
    /\ Saving("write") /\ FailsTo("failed")
    /\ UNCHANGED card \/ (port[sel] = fd /\ \E n \in 1 .. left : card' = Written(n))
    /\ World /\ UNCHANGED <<mode, msg, savemap, frozen, left, fd, buf, saved>>
NotSaved ==
    /\ Saving("failed") /\ Ends("Not saved")
    /\ World /\ UNCHANGED <<card, savemap, frozen, saved>>
----------------------------------------------------------------------------
(***************************************************************************)
(* func_801D1F40: loading                                                  *)
(***************************************************************************)
Loading(s) == over = "no" /\ screen = "load" /\ mode = "work" /\ msg = "none" /\ step = s

LoadOpen ==
    /\ Loading("start") /\ Has(sel, Selected)
    /\ frozen' = TRUE /\ fd' = port[sel] /\ left' = Chunks /\ step' = "read"
    /\ World /\ UNCHANGED <<card, mode, msg, savemap, tries, buf, saved>>
LoadOpenFails ==
    /\ Loading("start") /\ Ends("Not loaded")
    /\ World /\ UNCHANGED <<card, savemap, frozen, saved>>
\* What is delivered goes to the start of the buffer, whatever came before it.
Delivered(n) == [k \in 1 .. Chunks |-> IF k <= n THEN card[fd].block[Selected][Chunks - left + k] ELSE buf[k]]
LoadRead ==
    /\ Loading("read") /\ port[sel] = fd
    /\ \E n \in IF ShortReads THEN 0 .. left ELSE {left} :
          /\ buf' = Delivered(n)
          /\ IF n = left THEN step' = "fill" /\ UNCHANGED left ELSE left' = left - n /\ UNCHANGED step
    /\ World /\ UNCHANGED <<card, mode, msg, savemap, frozen, tries, fd, saved>>
\* retries++ : a read that fails is tried again for ever.
LoadReadFails == Loading("read") /\ UNCHANGED vars
LoadCopy ==
    /\ Loading("fill") /\ step' = "compare"
    /\ savemap' = IF Whole(buf) THEN buf[1].save ELSE Lost
    /\ World /\ UNCHANGED <<card, mode, msg, frozen, tries, left, fd, buf, saved>>
LoadTrusted ==
    /\ Loading("compare") /\ over' = "loaded" /\ frozen' = FALSE /\ Closes
    /\ UNCHANGED <<bios, known, screen, mode, lists, msg, savemap, buf, saved>>
Load ==
    /\ Loading("compare") /\ SumHolds(savemap)
    /\ over' = "loaded" /\ frozen' = FALSE /\ Closes
    /\ UNCHANGED <<bios, known, screen, mode, lists, msg, savemap, buf, saved>>
LoadRuined ==
    /\ Loading("compare") /\ ~SumHolds(savemap)
    /\ frozen' = FALSE /\ Ends("File is ruined.")
    /\ World /\ UNCHANGED <<card, savemap, saved>>
----------------------------------------------------------------------------
(***************************************************************************)
(* Opening a screen.  The power may go on any screen; the load screen is   *)
(* the first that comes up then, as it is after a game over, which leaves  *)
(* the buffer alone.  A save fills the buffer before it is used.           *)
(***************************************************************************)
Opens(s, m) ==
    /\ screen' = s /\ mode' = m /\ over' = "no" /\ msg' = "none" /\ frozen' = FALSE
    /\ known' = [p \in Ports |-> NoCard] /\ sel' \in Ports
    /\ cur' = [row |-> 0, top |-> 0, scroll |-> 0] /\ list' = {} /\ next' = -1
    /\ Closes /\ UNCHANGED <<bios, saved>>
\* From the menu of the running game.
OpenSave ==
    /\ over # "no" /\ Opens("save", "slot") /\ buf' = Blank
    /\ savemap' = IF over = "new" THEN [game |-> 0, sum |-> 0] ELSE savemap
PowerOff == Opens("load", "title") /\ savemap' = Lost /\ buf' \in {buf, Blank}

\* The games of which the cards have a part at the start, deleted files included.
Genuine(q) == q.part # 0 /\ SumHolds(q.save)
Held == {q.save.game : q \in {r \in {Contents[c].block[f][n] : c \in Cards, f \in File, n \in 1 .. Chunks} : Genuine(r)}}
Init ==
    /\ port \in [Ports -> Cards \cup {Nothing}]
    /\ \A p, q \in Ports : p # q /\ port[p] = port[q] => port[p] = Nothing
    /\ fresh = [p \in Ports |-> port[p] # Nothing] /\ card = Contents
    /\ known = [p \in Ports |-> NoCard] /\ screen = "save" /\ mode = "slot" /\ sel \in Ports
    /\ cur = [row |-> 0, top |-> 0, scroll |-> 0] /\ list = {} /\ next = -1
    /\ msg = "none" /\ over = "no" /\ savemap = [game |-> 0, sum |-> 0] /\ frozen = FALSE
    /\ step = "start" /\ tries = Retries /\ left = Chunks /\ fd = Nothing /\ buf = Blank
    /\ saved = <<>>

Browse ==
    \/ TitleContinue \/ TitleNewGame \/ SlotNone \/ SlotRaw \/ SlotCheck \/ SlotCancel
    \/ \E p \in Ports : SlotMove(p)
    \/ RowUp \/ RowDown \/ PageDown \/ PageUp \/ FileSave \/ FileLoad \/ FileCancel
    \/ ConfirmYes \/ ConfirmNo \/ FormatNo \/ Dismiss
Look  == FileGone \/ Scrolled \/ CheckDirectory \/ CheckFile \/ CheckOver
Saves ==
    \/ SaveSum \/ SaveCopy \/ OldDelete \/ OldFails \/ Create \/ CreateFails
    \/ Reopen \/ ReopenFails \/ Write \/ WriteShort \/ WriteFails \/ NotSaved
Loads == LoadOpen \/ LoadOpenFails \/ LoadRead \/ LoadReadFails \/ LoadCopy \/ Load \/ LoadRuined
Around ==
    \/ FormatYes \/ OpenSave \/ PowerOff \/ Ticks
    \/ \E p \in Ports : Remove(p) \/ Probe(p) \/ \E c \in Cards : Insert(p, c)
Next == Browse \/ Look \/ Saves \/ Loads \/ Around

\* The program runs every frame, and a loop of BIOS calls runs to its end.
Spec == Init /\ [][Next]_vars /\ WF_vars(Look \/ Saves \/ Loads)
----------------------------------------------------------------------------
(***************************************************************************)
(* Properties                                                              *)
(***************************************************************************)
BiosTypes ==
    /\ port \in [Ports -> Cards \cup {Nothing}] /\ fresh \in [Ports -> BOOLEAN]
    /\ card \in [Cards -> CardState] /\ known \in [Ports -> [here : BOOLEAN, raw : BOOLEAN]]
ScreenTypes ==
    /\ screen \in {"save", "load"}
    /\ mode \in {"title", "slot", "file", "check", "wait", "work", "format", "confirm"}
    /\ msg \in {"none", "No Memory card.", "Couldn't read it.", "Saved.", "Not saved", "Not loaded",
                "File is ruined.", "Completed.", "Could not format."}
    /\ over \in {"no", "back", "new", "loaded"}
ListTypes ==
    /\ sel \in Ports /\ cur \in [row : 0 .. Rows - 1, top : 0 .. Files - Rows, scroll : {-1, 0, 1}]
    /\ cur.scroll = 1 => cur.top < Files - Rows
    /\ list \subseteq File /\ next \in File \cup {-1}
WorkTypes ==
    /\ savemap \in Save \cup {Lost} /\ frozen \in BOOLEAN
    /\ step \in {"start", "copy", "old", "create", "reopen", "write", "failed", "read", "fill", "compare"}
    /\ tries \in Nat /\ left \in 0 .. Chunks /\ fd \in Cards \cup {Nothing} /\ buf \in Block
    /\ saved \in Seq(Game)
\* The cursor and the page stay on the fifteen files, however rows, pages and a
\* scrolling list alternate (func_801D2DA8).
TypeOK == BiosTypes /\ ScreenTypes /\ ListTypes /\ WorkTypes

\* When the screen says that the game is saved, the file is on the card.  It has
\* all its parts, and they are the game that was saved with a checksum that holds,
\* however the clock ticked and the card was handled meanwhile, if and only if no
\* write fell short: the write after that one begins at the start of the buffer
\* again, and a file that loading will refuse is called saved (func_801D2408).
SavedIsWhole ==
    [][msg' = "Saved." /\ msg # msg' =>
          LET c == card'[fd]
              s == c.block[Selected][1].save
          IN  /\ Selected \in c.dir
              /\ Whole(c.block[Selected]) <=> left = Chunks
              /\ left = Chunks => SumHolds(s) /\ s.game = saved[Len(saved)]]_vars

\* A game that is started from a card is one that was saved: a file that was cut
\* off by a pulled card or the power, or pieced together from transfers that fell
\* short, is refused.  And it is the game of the file that was chosen, unless a
\* write that fell short has left there what reads that do so can piece together
\* with an older transfer (func_801D1F40 and the checksum).
LoadsWhatWasSaved ==
    [][over' = "loaded" /\ over # over' =>
          /\ savemap.game \in Held \cup {saved[n] : n \in DOMAIN saved}
          /\ InPlace(card[fd].block[Selected]) => card[fd].block[Selected] = FileOf(savemap)]_vars

\* Looking through a card, and saving, come to an end or say something, whatever
\* the card does (the counted retries of func_801D1C2C, func_801D1D40 and func_801D2408).
WorkEnds ==
    (mode \in {"check", "wait"} \/ (mode = "work" /\ screen = "save"))
        ~> (mode \notin {"check", "wait", "work"} \/ msg # "none" \/ screen = "load")

\* Loading gives up reading, too.
LoadEnds == (screen = "load" /\ mode = "work") ~> (mode # "work" \/ over # "no")
=============================================================================
