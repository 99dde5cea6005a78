--------------------------- MODULE SaveMenuProofs ---------------------------
(***************************************************************************)
(* Proofs about SaveMenu: types, that what is called saved is on the card, *)
(* and that only what was saved is loaded, for any number of cards, ports, *)
(* files, parts and retries.                                               *)
(***************************************************************************)
EXTENDS SaveMenu, TLAPS

----------------------------------------------------------------------------
(***************************************************************************)
(* The inductive invariant                                                 *)
(***************************************************************************)
SaveSteps == {"copy", "old", "create", "reopen", "write", "failed"}
LoadSteps == {"read", "fill", "compare"}

\* The save that is under way is in the buffer, whole.
InHand == saved # << >> /\ \E s \in Save : buf = FileOf(s) /\ SumHolds(s) /\ s.game = saved[Len(saved)]

\* The games that were saved, before or since.
Kept == Held \cup {saved[n] : n \in DOMAIN saved}

\* A block is the file that is read, if the parts of that are in their places.
IsFile(b) == InPlace(card[fd].block[Selected]) => b = card[fd].block[Selected]

\* Between two steps of a save or a load nothing but the cards and the ports moves.
WorkOK ==
    /\ step # "start" => over = "no" /\ mode = "work" /\ msg = "none"
    /\ step \in SaveSteps => screen = "save"
    /\ step \in LoadSteps => screen = "load"
    /\ step = "copy" => frozen /\ SumHolds(savemap)
    /\ step \in SaveSteps \ {"copy"} => InHand
    /\ step = "write" => fd \in Cards /\ Selected \in card[fd].dir
    /\ step \in LoadSteps => frozen /\ fd \in Cards
    /\ step \in SaveSteps \ {"copy"} \/ step = "read" => left >= 1
    /\ step = "fill" /\ Whole(buf) => IsFile(buf)
    /\ step = "compare" /\ SumHolds(savemap) =>
           savemap \in Save /\ IsFile(FileOf(savemap)) /\ savemap.game \in Kept

\* Every part on a card or in the buffer that passes for a game's is of one that was saved.
PartsOf(b, games) == \A n \in 1 .. Chunks : Genuine(b[n]) => b[n].save.game \in games
BlocksOK ==
    /\ \A c \in Cards, f \in File : PartsOf(card[c].block[f], Kept)
    /\ PartsOf(buf, Kept)

\* There is a game to save where one can be saved.
GameOK ==
    /\ screen = "save" \/ over = "loaded" => savemap \in Save
    /\ over = "back" => screen = "save"

IInv == TypeOK /\ WorkOK /\ BlocksOK /\ GameOK

----------------------------------------------------------------------------
(***************************************************************************)
(* Files, blocks and cards                                                 *)
(***************************************************************************)
LEMMA Sizes ==
    /\ Files \in Nat \ {0} /\ Rows \in 1 .. Files /\ Chunks \in Nat \ {0} /\ Retries \in Nat \ {0}
    /\ DeleteTries \in Nat \ {0} /\ MaxClock \in Nat
  BY SaveSizes

LEMMA FullLength == Chunks \in 0 .. Chunks /\ Retries \in Nat
  BY Sizes

\* The cursor is on a file.
LEMMA OnAFile == ASSUME TypeOK PROVE Selected \in File
<1>1. cur.row \in 0 .. Rows - 1 /\ cur.top \in 0 .. Files - Rows
  BY DEF TypeOK, ListTypes
<1>2. \A r, t \in Int : r \in 0 .. Rows - 1 /\ t \in 0 .. Files - Rows => r + t \in 0 .. Files - 1
  BY Sizes
<1> QED
  BY <1>1, <1>2 DEF Selected, File

LEMMA FileOfSave ==
    ASSUME NEW s \in Save
    PROVE  FileOf(s) \in Block /\ InPlace(FileOf(s)) /\ Whole(FileOf(s)) /\ FileOf(s)[1].save = s
  BY Sizes DEF FileOf, Block, InPlace, Whole

LEMMA BlankBlock == Blank \in Block
  BY Sizes DEF Blank, Block, Save, Game

LEMMA NoPartsInBlank == \A games : PartsOf(Blank, games)
  BY DEF PartsOf, Blank, Genuine

----------------------------------------------------------------------------
(***************************************************************************)
(* Browsing: nothing but what is on the screen moves                       *)
(***************************************************************************)
LEMMA ListsKept == ListTypes /\ UNCHANGED lists => ListTypes'
  BY DEF ListTypes, lists

LEMMA BiosKept == BiosTypes /\ UNCHANGED <<bios, known>> => BiosTypes'
  BY DEF BiosTypes, bios

LEMMA WorkKept == WorkTypes /\ UNCHANGED <<savemap, frozen, io>> => WorkTypes'
  BY DEF WorkTypes, io

LEMMA FirstFile == [row |-> 0, top |-> 0, scroll |-> 0] \in [row : 0 .. Rows - 1, top : 0 .. Files - Rows, scroll : {-1, 0, 1}]
  BY Sizes

\* The list moves to a place that it has.
LEMMA Steering ==
    ASSUME NEW to, Steers(to), ListTypes, ScreenTypes, WorkOK,
           to \in [row : 0 .. Rows - 1, top : 0 .. Files - Rows, scroll : {-1, 0, 1}],
           to.scroll = 1 => to.top < Files - Rows
    PROVE  Rest /\ step = "start" /\ ListTypes' /\ ScreenTypes' /\ over' = over
  BY DEF Steers, Reads, Rest, ListTypes, ScreenTypes, WorkOK

LEMMA Browsing ==
    ASSUME BiosTypes, ListTypes, ScreenTypes, WorkOK, Browse \/ Look
    PROVE  /\ Rest /\ step = "start" /\ ListTypes' /\ ScreenTypes'
           /\ over' = over \/ over' = "new" \/ (over' = "back" /\ screen = "save")
<1> DEFINE row == cur.row  top == cur.top
<1>0. /\ row \in 0 .. Rows - 1 /\ top \in 0 .. Files - Rows /\ Rows \in 1 .. Files /\ Files \in Nat
      /\ cur = [row |-> row, top |-> top, scroll |-> cur.scroll]
      /\ cur.scroll = 1 => top < Files - Rows
  BY Sizes DEF ListTypes
<1>1. CASE TitleContinue
  BY <1>1, ListsKept DEF TitleContinue, Reads, Goes, Rest, ScreenTypes, WorkOK
<1>2. CASE TitleNewGame
  BY <1>2, ListsKept DEF TitleNewGame, Reads, Rest, ScreenTypes, WorkOK
<1>3. CASE SlotNone
  BY <1>3, ListsKept DEF SlotNone, Reads, Rest, ScreenTypes, WorkOK
<1>4. CASE SlotRaw
  BY <1>4, ListsKept DEF SlotRaw, Reads, Goes, Rest, ScreenTypes, WorkOK
<1>5. CASE SlotCheck
  BY <1>5, FirstFile, Sizes DEF SlotCheck, Reads, Rest, ScreenTypes, WorkOK, ListTypes, File
<1>6. CASE SlotCancel
  BY <1>6, ListsKept DEF SlotCancel, Reads, Rest, ScreenTypes, WorkOK
<1>7. CASE (\E p \in Ports : SlotMove(p))
  BY <1>7 DEF SlotMove, Reads, Rest, ScreenTypes, WorkOK, ListTypes
<1>8. CASE RowUp
  <2> DEFINE to == IF cur.row > 0 THEN [cur EXCEPT !.row = @ - 1]
              ELSE IF cur.top > 0 THEN [cur EXCEPT !.top = @ - 1, !.scroll = -1] ELSE cur
  <2>1. Steers(to) /\ (cur.scroll = 0 \/ cur.scroll # 0)
    BY <1>8 DEF RowUp
  <2>2. to.row \in 0 .. Rows - 1 /\ to.top \in 0 .. Files - Rows /\ to.scroll \in {-1, 0, 1}
    BY <1>0, <1>8 DEF ListTypes, RowUp
  <2>3. to \in [row : 0 .. Rows - 1, top : 0 .. Files - Rows, scroll : {-1, 0, 1}]
    BY <1>0, <1>8, <2>2 DEF ListTypes, RowUp
  <2>4. to.scroll = 1 => to.top < Files - Rows
    BY <1>0, <1>8 DEF ListTypes, RowUp
  <2> QED
    BY <2>1, <2>3, <2>4, Steering
<1>9. CASE RowDown
  <2> DEFINE to == IF cur.row + 1 < Rows THEN [cur EXCEPT !.row = @ + 1]
              ELSE IF cur.top < Files - Rows THEN [cur EXCEPT !.scroll = 1] ELSE cur
  <2>1. Steers(to) /\ (cur.scroll = 0 \/ cur.scroll # 0)
    BY <1>9 DEF RowDown
  <2>2. to.row \in 0 .. Rows - 1 /\ to.top \in 0 .. Files - Rows /\ to.scroll \in {-1, 0, 1}
    BY <1>0, <1>9 DEF ListTypes, RowDown
  <2>3. to \in [row : 0 .. Rows - 1, top : 0 .. Files - Rows, scroll : {-1, 0, 1}]
    BY <1>0, <1>9, <2>2 DEF ListTypes, RowDown
  <2>4. to.scroll = 1 => to.top < Files - Rows
    BY <1>0, <1>9 DEF ListTypes, RowDown
  <2> QED
    BY <2>1, <2>3, <2>4, Steering
<1>10. CASE PageDown
  <2> DEFINE to == [cur EXCEPT !.top = IF @ + Rows > Files - Rows THEN Files - Rows ELSE @ + Rows]
  <2>1. Steers(to) /\ (cur.scroll = 0 \/ cur.scroll # 0)
    BY <1>10 DEF PageDown
  <2>2. to.row \in 0 .. Rows - 1 /\ to.top \in 0 .. Files - Rows /\ to.scroll \in {-1, 0, 1}
    BY <1>0, <1>10 DEF ListTypes, PageDown
  <2>3. to \in [row : 0 .. Rows - 1, top : 0 .. Files - Rows, scroll : {-1, 0, 1}]
    BY <1>0, <1>10, <2>2 DEF ListTypes, PageDown
  <2>4. to.scroll = 1 => to.top < Files - Rows
    BY <1>0, <1>10 DEF ListTypes, PageDown
  <2> QED
    BY <2>1, <2>3, <2>4, Steering
<1>11. CASE PageUp
  <2> DEFINE to == [cur EXCEPT !.top = IF @ - Rows < 0 THEN 0 ELSE @ - Rows]
  <2>1. Steers(to) /\ (cur.scroll = 0 \/ cur.scroll # 0)
    BY <1>11 DEF PageUp
  <2>2. to.row \in 0 .. Rows - 1 /\ to.top \in 0 .. Files - Rows /\ to.scroll \in {-1, 0, 1}
    BY <1>0, <1>11 DEF ListTypes, PageUp
  <2>3. to \in [row : 0 .. Rows - 1, top : 0 .. Files - Rows, scroll : {-1, 0, 1}]
    BY <1>0, <1>11, <2>2 DEF ListTypes, PageUp
  <2>4. to.scroll = 1 => to.top < Files - Rows
    BY <1>0, <1>11 DEF ListTypes, PageUp
  <2> QED
    BY <2>1, <2>3, <2>4, Steering
<1>12. CASE FileSave
  BY <1>12, ListsKept DEF FileSave, Reads, Goes, Rest, ScreenTypes, WorkOK
<1>13. CASE FileLoad
  BY <1>13, ListsKept DEF FileLoad, Reads, Goes, Rest, ScreenTypes, WorkOK
<1>14. CASE FileCancel
  BY <1>14, ListsKept DEF FileCancel, Reads, Goes, Rest, ScreenTypes, WorkOK
<1>15. CASE ConfirmYes
  BY <1>15, ListsKept DEF ConfirmYes, Reads, Goes, Rest, ScreenTypes, WorkOK
<1>16. CASE ConfirmNo
  BY <1>16, ListsKept DEF ConfirmNo, Reads, Goes, Rest, ScreenTypes, WorkOK
<1>17. CASE FormatNo
  BY <1>17, ListsKept DEF FormatNo, Reads, Goes, Rest, ScreenTypes, WorkOK
<1>18. CASE Dismiss
  BY <1>18, ListsKept DEF Dismiss, Rest, ScreenTypes, WorkOK
<1>19. CASE FileGone
  BY <1>19, ListsKept DEF FileGone, Rest, ScreenTypes, WorkOK, bios
<1>20. CASE Scrolled
  <2> DEFINE to == [cur EXCEPT !.top = IF cur.scroll = 1 THEN @ + 1 ELSE @, !.scroll = 0]
  <2>1. Steers(to) /\ (cur.scroll = 0 \/ cur.scroll # 0)
    BY <1>20 DEF Scrolled
  <2>2. to.row \in 0 .. Rows - 1 /\ to.top \in 0 .. Files - Rows /\ to.scroll \in {-1, 0, 1}
    BY <1>0, <1>20 DEF ListTypes, Scrolled
  <2>3. to \in [row : 0 .. Rows - 1, top : 0 .. Files - Rows, scroll : {-1, 0, 1}]
    BY <1>0, <1>20, <2>2 DEF ListTypes, Scrolled
  <2>4. to.scroll = 1 => to.top < Files - Rows
    BY <1>0, <1>20 DEF ListTypes, Scrolled
  <2> QED
    BY <2>1, <2>3, <2>4, Steering
<1>21. CASE CheckDirectory
  <2>1. Readable(sel) => card[port[sel]].dir \in SUBSET File
    BY DEF Readable, BiosTypes, CardState, ListTypes
  <2>2. list' \subseteq File
    BY <1>21, <2>1 DEF CheckDirectory
  <2> QED
    BY <1>21, <2>2, Sizes DEF CheckDirectory, Reads, Rest, ScreenTypes, WorkOK, ListTypes, File
<1>22. CASE CheckFile
  <2>0. next \in 0 .. Files - 1 /\ Files \in Nat
    BY <1>22, Sizes DEF CheckFile, ListTypes, File
  <2>1. next' \in File
    <3>1. next' = IF next = Files - 1 THEN next ELSE next + 1
      BY <1>22 DEF CheckFile
    <3> QED
      BY <2>0, <3>1 DEF File
  <2> QED
    BY <1>22, <2>1 DEF CheckFile, Reads, Rest, ScreenTypes, WorkOK, ListTypes
<1>23. CASE CheckOver
  BY <1>23, ListsKept DEF CheckOver, Reads, Goes, Rest, ScreenTypes, WorkOK
<1> QED
  BY <1>1, <1>2, <1>3, <1>4, <1>5, <1>6, <1>7, <1>8, <1>9, <1>10, <1>11, <1>12, <1>13, <1>14, <1>15, <1>16, <1>17, <1>18, <1>19, <1>20, <1>21, <1>22, <1>23 DEF Browse, Look

----------------------------------------------------------------------------
(***************************************************************************)
(* The inductive invariant is kept                                         *)
(***************************************************************************)
LEMMA Idle == step' = "start" => WorkOK'
  BY DEF WorkOK, SaveSteps, LoadSteps

LEMMA HandKept == InHand /\ UNCHANGED <<buf, saved>> => InHand'
  BY DEF InHand

LEMMA BlocksKept ==
    ASSUME BlocksOK, UNCHANGED <<buf, saved>>, \A k \in Cards : card'[k].block = card[k].block
    PROVE  BlocksOK'
  BY DEF BlocksOK, Kept

LEMMA GameKept == GameOK /\ UNCHANGED <<savemap, screen, over>> => GameOK'
  BY DEF GameOK

\* What is browsed is kept.
LEMMA BrowsingStep ==
    ASSUME IInv, Browse \/ Look
    PROVE  IInv'
<1>1. /\ Rest /\ step = "start" /\ ListTypes' /\ ScreenTypes'
      /\ over' = over \/ over' = "new" \/ (over' = "back" /\ screen = "save")
  BY Browsing DEF IInv, TypeOK
<1>2. BiosTypes' /\ WorkTypes'
  BY <1>1, BiosKept, WorkKept DEF IInv, TypeOK, Rest
<1>3. WorkOK' /\ BlocksOK'
  BY <1>1, Idle, BlocksKept DEF IInv, Rest, io, bios
<1>4. GameOK'
  BY <1>1 DEF IInv, GameOK, Rest
<1> QED
  BY <1>1, <1>2, <1>3, <1>4 DEF IInv, TypeOK


\* What is in hand is a whole file of the last save.
LEMMA HandIsSave ==
    ASSUME InHand, saved \in Seq(Game)
    PROVE  /\ buf \in Block /\ InPlace(buf) /\ buf = FileOf(buf[1].save) /\ SumHolds(buf[1].save)
           /\ buf[1].save.game = saved[Len(saved)] /\ Len(saved) \in DOMAIN saved
<1>1. PICK s \in Save : buf = FileOf(s) /\ SumHolds(s) /\ s.game = saved[Len(saved)]
  BY DEF InHand
<1>2. buf[1].save = s
  BY <1>1, FileOfSave
<1>3. Len(saved) \in DOMAIN saved
  BY DEF InHand
<1> QED
  BY <1>1, <1>2, <1>3, FileOfSave

\* The end of a save or of a load that fails.
LEMMA Closed ==
    ASSUME NEW m \in {"Saved.", "Not saved", "Not loaded", "File is ruined."}, Ends(m),
           UNCHANGED <<screen, over, saved>>, ScreenTypes, WorkTypes,
           savemap' \in Save \cup {Lost}, frozen' \in BOOLEAN
    PROVE  WorkTypes' /\ ScreenTypes'
<1>0. tries' = Retries /\ left' = Chunks /\ buf' = buf /\ step' = "start" /\ fd' = Nothing
  BY DEF Ends, Closes
<1>1. tries' \in Nat
  BY <1>0, Sizes
<1>2. left' \in 0 .. Chunks
  BY <1>0, FullLength
<1>3. buf' \in Block
  BY <1>0 DEF WorkTypes
<1> QED
  BY <1>0, <1>1, <1>2, <1>3 DEF WorkTypes, ScreenTypes, Ends

\* Writing n parts puts parts of the buffer where they go in the file, and
\* leaves everything else on the cards.
LEMMA WrittenParts ==
    ASSUME IInv, step = "write", NEW n \in 0 .. left, card' = Written(n)
    PROVE  LET at == Chunks - left
               old == card[fd].block[Selected]
               new == card'[fd].block[Selected]
           IN  /\ card' \in [Cards -> CardState] /\ \A c \in Cards : card'[c].dir = card[c].dir
               /\ \A c \in Cards, f \in File : c # fd \/ f # Selected => card'[c].block[f] = card[c].block[f]
               /\ new \in Block
               /\ \A k \in 1 .. Chunks : new[k] = IF k \in at + 1 .. at + n THEN buf[k - at] ELSE old[k]
<1> DEFINE at == Chunks - left
           old == card[fd].block[Selected]
           new == [k \in 1 .. Chunks |-> IF k \in at + 1 .. at + n THEN buf[k - at] ELSE old[k]]
<1>1. /\ card \in [Cards -> CardState] /\ fd \in Cards /\ Selected \in File /\ buf \in Block
      /\ left \in 1 .. Chunks /\ Chunks \in Nat
  BY OnAFile, Sizes DEF IInv, TypeOK, BiosTypes, WorkTypes, WorkOK, SaveSteps
<1>2. old \in Block
  BY <1>1 DEF CardState
<1>3. \A k \in 1 .. Chunks : k \in at + 1 .. at + n => k - at \in 1 .. Chunks
  BY <1>1
<1>4. new \in Block
  <2>1. \A k \in 1 .. Chunks : new[k] \in [save : Save, part : 0 .. Chunks]
    BY <1>1, <1>2, <1>3 DEF Block
  <2> QED
    BY <2>1 DEF Block
<1>5. card' = [card EXCEPT ![fd].block[Selected] = new]
  BY DEF Written
<1>6. \A k \in 1 .. Chunks : new[k] = IF k \in at + 1 .. at + n THEN buf[k - at] ELSE old[k]
  OBVIOUS
<1> HIDE DEF new
<1>7. /\ card' \in [Cards -> CardState] /\ card'[fd].block[Selected] = new
      /\ \A c \in Cards : card'[c].dir = card[c].dir
      /\ \A c \in Cards, f \in File : c # fd \/ f # Selected => card'[c].block[f] = card[c].block[f]
  <2> DEFINE there == [card[fd] EXCEPT !.block = [card[fd].block EXCEPT ![Selected] = new]]
  <2>1. card[fd] \in CardState /\ there \in CardState
    BY <1>1, <1>4 DEF CardState
  <2>2. /\ there.dir = card[fd].dir /\ there.block[Selected] = new
        /\ \A f \in File : f # Selected => there.block[f] = card[fd].block[f]
    BY <1>1 DEF CardState
  <2>3. card' = [card EXCEPT ![fd] = there]
    BY <1>5
  <2> HIDE DEF there
  <2>4. card'[fd] = there /\ (\A c \in Cards : c # fd => card'[c] = card[c]) /\ card' \in [Cards -> CardState]
    BY <1>1, <2>1, <2>3
  <2> QED
    BY <2>2, <2>4
<1> QED
  BY <1>4, <1>6, <1>7

LEMMA WrittenKept ==
    ASSUME IInv, step = "write", NEW n \in 0 .. left, card' = Written(n), UNCHANGED <<buf, saved>>
    PROVE  card' \in [Cards -> CardState] /\ BlocksOK' /\ \A c \in Cards : card'[c].dir = card[c].dir
<1> DEFINE at == Chunks - left
           old == card[fd].block[Selected]
           new == card'[fd].block[Selected]
<1>1. /\ card' \in [Cards -> CardState] /\ \A c \in Cards : card'[c].dir = card[c].dir
      /\ \A c \in Cards, f \in File : c # fd \/ f # Selected => card'[c].block[f] = card[c].block[f]
      /\ \A k \in 1 .. Chunks : new[k] = IF k \in at + 1 .. at + n THEN buf[k - at] ELSE old[k]
  BY WrittenParts
<1>2. /\ fd \in Cards /\ Selected \in File /\ PartsOf(old, Kept) /\ PartsOf(buf, Kept)
      /\ left \in 1 .. Chunks /\ Chunks \in Nat
  BY OnAFile, Sizes DEF IInv, TypeOK, BlocksOK, WorkTypes, WorkOK, SaveSteps
<1>3. Kept' = Kept
  BY DEF Kept
<1>4. \A k \in 1 .. Chunks : k \in at + 1 .. at + n => k - at \in 1 .. Chunks
  BY <1>2
<1>5. PartsOf(new, Kept)
  <2> HIDE DEF at, old, new
  <2> QED
    BY <1>1, <1>2, <1>4 DEF PartsOf
<1>6. \A c \in Cards, f \in File : PartsOf(card'[c].block[f], Kept)
  BY <1>1, <1>5 DEF IInv, BlocksOK
<1> QED
  BY <1>1, <1>2, <1>3, <1>6 DEF BlocksOK

LEMMA SavingStep ==
    ASSUME IInv, Saves
    PROVE  IInv'
<1> USE DEF IInv, TypeOK
<1>0. Selected \in File
  BY OnAFile
<1>1. CASE SaveSum
  <2>1. UNCHANGED <<bios, known, lists, screen, mode, msg, over, buf, saved>>
    BY <1>1 DEF SaveSum, Saving, World, bios
  <2>2. savemap \in Save /\ savemap' \in Save /\ SumHolds(savemap')
    BY <1>1 DEF SaveSum, Saving, GameOK, Save, SumHolds
  <2>3. WorkTypes'
    BY <1>1, <2>2 DEF SaveSum, WorkTypes
  <2>4. WorkOK' /\ GameOK'
    BY <1>1, <2>1, <2>2 DEF SaveSum, Saving, WorkOK, GameOK, SaveSteps, LoadSteps, lists
  <2> QED
    BY <2>1, <2>3, <2>4, BiosKept, ListsKept, BlocksKept DEF ScreenTypes, bios
<1>2. CASE SaveCopy
  <2>1. UNCHANGED <<bios, known, lists, screen, mode, msg, over, savemap, fd>>
    BY <1>2 DEF SaveCopy, Saving, World, bios
  <2>2. savemap \in Save /\ SumHolds(savemap)
    BY <1>2 DEF SaveCopy, Saving, GameOK, WorkOK
  <2>3. saved' \in Seq(Game) /\ saved' # << >> /\ saved'[Len(saved')] = savemap.game
        /\ \A n \in DOMAIN saved : n \in DOMAIN saved' /\ saved'[n] = saved[n]
    BY <1>2, <2>2 DEF SaveCopy, WorkTypes, Save
  <2>4. buf' \in Block /\ buf' = FileOf(savemap)
    BY <1>2, <2>2, FileOfSave DEF SaveCopy
  <2>5. WorkTypes'
    <3>1. frozen' = FALSE /\ left' = Chunks /\ step' = "old" /\ tries' = DeleteTries
      BY <1>2 DEF SaveCopy
    <3>2. left' \in 0 .. Chunks /\ tries' \in Nat
      BY <3>1, Sizes
    <3> QED
      BY <2>1, <2>3, <2>4, <3>1, <3>2 DEF WorkTypes
  <2>6. InHand'
    BY <2>2, <2>3, <2>4 DEF InHand
  <2>7. WorkOK'
    <3>1. left' >= 1
      BY <1>2, Sizes DEF SaveCopy
    <3> QED
      BY <1>2, <2>1, <2>6, <3>1 DEF SaveCopy, Saving, WorkOK, SaveSteps, LoadSteps
  <2>8. BlocksOK'
    <3>1. \A g \in Kept : g \in Kept'
      BY <2>3 DEF Kept
    <3>2. savemap.game \in Kept'
      BY <2>3 DEF Kept
    <3>3. PartsOf(buf', Kept')
      BY <2>4, <3>2 DEF PartsOf, FileOf
    <3>4. \A c \in Cards, f \in File : PartsOf(card'[c].block[f], Kept')
      BY <2>1, <3>1 DEF BlocksOK, PartsOf, bios
    <3> QED
      BY <3>3, <3>4 DEF BlocksOK
  <2> QED
    BY <2>1, <2>5, <2>7, <2>8, BiosKept, ListsKept, GameKept DEF ScreenTypes
<1>3. CASE OldDelete
  <2>1. UNCHANGED <<port, fresh, known, lists, screen, mode, msg, over, savemap, frozen, left, fd, buf, saved>>
    BY <1>3 DEF OldDelete, Saving, World
  <2>2. port[sel] \in Cards /\ card[port[sel]].dir \ {Selected} \in SUBSET File
    BY <1>3, <1>0 DEF OldDelete, Has, Readable, BiosTypes, CardState, ListTypes
  <2>3. card' = card \/ card' = [card EXCEPT ![port[sel]].dir = card[port[sel]].dir \ {Selected}]
    BY <1>3 DEF OldDelete
  <2>4. card' \in [Cards -> CardState] /\ \A k \in Cards : card'[k].block = card[k].block
    <3>1. CASE card' = card
      BY <3>1 DEF BiosTypes
    <3>2. CASE card' = [card EXCEPT ![port[sel]].dir = card[port[sel]].dir \ {Selected}]
      BY <2>2, <3>2 DEF BiosTypes, CardState
    <3> QED
      BY <2>3, <3>1, <3>2
  <2>5. WorkTypes'
    BY <1>3, <2>1, Sizes DEF OldDelete, WorkTypes
  <2>6. WorkOK'
    BY <1>3, <2>1, HandKept DEF OldDelete, Saving, WorkOK, SaveSteps, LoadSteps
  <2>7. BiosTypes' /\ BlocksOK'
    BY <2>1, <2>4, BlocksKept DEF BiosTypes
  <2> QED
    BY <2>1, <2>5, <2>6, <2>7, ListsKept, GameKept DEF ScreenTypes
<1>4. CASE OldFails
  <2>1. UNCHANGED <<bios, known, lists, screen, mode, msg, over, savemap, frozen, buf, saved>>
    BY <1>4 DEF OldFails, Saving, World, FailsTo, bios
  <2>2. WorkTypes'
    BY <1>4, <2>1, Sizes DEF OldFails, Saving, World, FailsTo, WorkTypes, BiosTypes, ListTypes
  <2>3. WorkOK'
    BY <1>4, <2>1, <2>2, HandKept DEF OldFails, Saving, World, FailsTo, WorkOK, SaveSteps, LoadSteps, Selected, lists
  <2> QED
    BY <2>1, <2>2, <2>3, BiosKept, ListsKept, BlocksKept, GameKept DEF ScreenTypes, bios
<1>5. CASE Create
  <2>1. UNCHANGED <<port, fresh, known, lists, screen, mode, msg, over, savemap, frozen, left, fd, buf, saved>>
    BY <1>5 DEF Create, Saving, World
  <2>2. port[sel] \in Cards /\ card[port[sel]].dir \cup {Selected} \in SUBSET File
    BY <1>5, <1>0 DEF Create, Has, Readable, BiosTypes, CardState, ListTypes
  <2>3. card' = card \/ card' = [card EXCEPT ![port[sel]].dir = card[port[sel]].dir \cup {Selected}]
    BY <1>5 DEF Create
  <2>4. card' \in [Cards -> CardState] /\ \A k \in Cards : card'[k].block = card[k].block
    <3>1. CASE card' = card
      BY <3>1 DEF BiosTypes
    <3>2. CASE card' = [card EXCEPT ![port[sel]].dir = card[port[sel]].dir \cup {Selected}]
      BY <2>2, <3>2 DEF BiosTypes, CardState
    <3> QED
      BY <2>3, <3>1, <3>2
  <2>5. WorkTypes'
    BY <1>5, <2>1, Sizes DEF Create, WorkTypes
  <2>6. WorkOK'
    BY <1>5, <2>1, HandKept DEF Create, Saving, WorkOK, SaveSteps, LoadSteps
  <2>7. BiosTypes' /\ BlocksOK'
    BY <2>1, <2>4, BlocksKept DEF BiosTypes
  <2> QED
    BY <2>1, <2>5, <2>6, <2>7, ListsKept, GameKept DEF ScreenTypes
<1>6. CASE CreateFails
  <2>1. UNCHANGED <<bios, known, lists, screen, mode, msg, over, savemap, frozen, buf, saved>>
    BY <1>6 DEF CreateFails, Saving, World, FailsTo, bios
  <2>2. WorkTypes'
    BY <1>6, <2>1, Sizes DEF CreateFails, Saving, World, FailsTo, WorkTypes, BiosTypes, ListTypes
  <2>3. WorkOK'
    BY <1>6, <2>1, <2>2, HandKept DEF CreateFails, Saving, World, FailsTo, WorkOK, SaveSteps, LoadSteps, Selected, lists
  <2> QED
    BY <2>1, <2>2, <2>3, BiosKept, ListsKept, BlocksKept, GameKept DEF ScreenTypes, bios
<1>7. CASE Reopen
  <2>1. UNCHANGED <<bios, known, lists, screen, mode, msg, over, savemap, frozen, buf, saved>>
    BY <1>7 DEF Reopen, Saving, World, Has, Readable, bios
  <2>2. WorkTypes'
    BY <1>7, <2>1, Sizes DEF Reopen, Saving, World, Has, Readable, WorkTypes, BiosTypes, ListTypes
  <2>3. WorkOK'
    BY <1>7, <2>1, <2>2, HandKept DEF Reopen, Saving, World, Has, Readable, WorkOK, SaveSteps, LoadSteps, Selected, lists, BiosTypes, ListTypes, bios
  <2> QED
    BY <2>1, <2>2, <2>3, BiosKept, ListsKept, BlocksKept, GameKept DEF ScreenTypes, bios
<1>8. CASE ReopenFails
  <2>1. UNCHANGED <<bios, known, lists, screen, mode, msg, over, savemap, frozen, buf, saved>>
    BY <1>8 DEF ReopenFails, Saving, World, FailsTo, bios
  <2>2. WorkTypes'
    BY <1>8, <2>1, Sizes DEF ReopenFails, Saving, World, FailsTo, WorkTypes, BiosTypes, ListTypes
  <2>3. WorkOK'
    BY <1>8, <2>1, <2>2, HandKept DEF ReopenFails, Saving, World, FailsTo, WorkOK, SaveSteps, LoadSteps, Selected, lists
  <2> QED
    BY <2>1, <2>2, <2>3, BiosKept, ListsKept, BlocksKept, GameKept DEF ScreenTypes, bios
<1>9. CASE Write
  <2>1. UNCHANGED <<port, fresh, known, sel, cur, next, screen, over, savemap, frozen, saved, buf>>
    BY <1>9 DEF Write, Ends
  <2>2. step = "write" /\ card' = Written(left)
    BY <1>9 DEF Write, Saving
  <2>3. left \in 0 .. left
    BY <2>2 DEF WorkOK, SaveSteps, WorkTypes
  <2>4. card' \in [Cards -> CardState] /\ BlocksOK'
    BY <2>1, <2>2, <2>3, WrittenKept
  <2>5. ListTypes'
    BY <1>9, <1>0, <2>1 DEF Write, ListTypes
  <2>6. WorkTypes' /\ ScreenTypes'
    BY <1>9, <2>1, Closed DEF Write, WorkTypes
  <2> QED
    BY <1>9, <2>1, <2>4, <2>5, <2>6, Idle, GameKept DEF Write, Ends, Closes, BiosTypes
<1>10. CASE WriteShort
  <2>1. UNCHANGED <<port, fresh, known, lists, screen, mode, msg, over, savemap, frozen, fd, buf, saved>>
    BY <1>10 DEF WriteShort, World
  <2>2. step = "write" /\ fd \in Cards /\ InHand /\ left \in 1 .. Chunks /\ Chunks \in Nat
    BY <1>10, Sizes DEF WriteShort, Saving, WorkOK, SaveSteps, WorkTypes
  <2>3. PICK n \in 0 .. left - 1 : card' = Written(n) /\ left' = left - n
    BY <1>10 DEF WriteShort
  <2>4. n \in 0 .. left /\ left' \in 1 .. Chunks
    BY <2>2, <2>3
  <2>5. card' \in [Cards -> CardState] /\ BlocksOK' /\ \A k \in Cards : card'[k].dir = card[k].dir
    BY <2>1, <2>2, <2>3, <2>4, WrittenKept
  <2>6. WorkTypes'
    BY <1>10, <2>1, <2>4, Sizes DEF WriteShort, FailsTo, WorkTypes
  <2>7. WorkOK'
    BY <1>10, <2>1, <2>2, <2>4, <2>5, HandKept
       DEF WriteShort, Saving, FailsTo, WorkOK, SaveSteps, LoadSteps, Selected, lists
  <2> QED
    BY <2>1, <2>5, <2>6, <2>7, ListsKept, GameKept DEF ScreenTypes, BiosTypes
<1>11. CASE WriteFails
  <2>1. UNCHANGED <<port, fresh, known, lists, screen, mode, msg, over, savemap, frozen, left, fd, buf, saved>>
    BY <1>11 DEF WriteFails, World
  <2>2. step = "write" /\ fd \in Cards /\ InHand /\ left \in 1 .. Chunks
    BY <1>11, Sizes DEF WriteFails, Saving, WorkOK, SaveSteps, WorkTypes
  <2>3. card' \in [Cards -> CardState] /\ BlocksOK' /\ \A k \in Cards : card'[k].dir = card[k].dir
    <3>1. CASE UNCHANGED card
      BY <2>1, <3>1, BlocksKept DEF BiosTypes
    <3>2. ASSUME NEW n \in 1 .. left, card' = Written(n)
          PROVE  card' \in [Cards -> CardState] /\ BlocksOK' /\ \A k \in Cards : card'[k].dir = card[k].dir
      <4>1. n \in 0 .. left
        BY <2>2
      <4> QED
        BY <2>1, <2>2, <3>2, <4>1, WrittenKept
    <3> QED
      BY <1>11, <3>1, <3>2 DEF WriteFails
  <2>4. WorkTypes'
    BY <1>11, <2>1, Sizes DEF WriteFails, FailsTo, WorkTypes
  <2>5. WorkOK'
    BY <1>11, <2>1, <2>2, <2>3, HandKept DEF WriteFails, Saving, FailsTo, WorkOK, SaveSteps, LoadSteps, Selected, lists
  <2> QED
    BY <2>1, <2>3, <2>4, <2>5, ListsKept, GameKept DEF ScreenTypes, BiosTypes
<1>12. CASE NotSaved
  <2>1. UNCHANGED <<bios, known, lists, screen, over, savemap, frozen, saved>>
    BY <1>12 DEF NotSaved, World, bios
  <2>2. WorkTypes' /\ ScreenTypes'
    BY <1>12, <2>1, Closed DEF NotSaved, WorkTypes
  <2> QED
    BY <1>12, <2>1, <2>2, BiosKept, ListsKept, BlocksKept, GameKept, Idle DEF NotSaved, Ends, Closes, bios
<1> QED
  BY <1>1, <1>2, <1>3, <1>4, <1>5, <1>6, <1>7, <1>8, <1>9, <1>10, <1>11, <1>12 DEF Saves

LEMMA StutterStep == IInv /\ UNCHANGED vars => IInv'
<1> SUFFICES ASSUME IInv, UNCHANGED vars PROVE IInv'
  OBVIOUS
<1>1. UNCHANGED <<bios, known, lists, screen, mode, msg, over, savemap, frozen, io, card, saved, buf, step, fd, left>> /\ Selected' = Selected
  BY DEF vars, bios, lists, io, Selected
<1>2. BiosTypes' /\ ListTypes' /\ WorkTypes' /\ ScreenTypes'
  BY <1>1, BiosKept, ListsKept, WorkKept DEF IInv, TypeOK, ScreenTypes
<1>3. BlocksOK' /\ GameOK'
  BY <1>1, BlocksKept, GameKept DEF IInv
<1>4. InHand => InHand'
  BY <1>1, HandKept
<1>5. WorkOK'
  BY <1>1, <1>4 DEF IInv, WorkOK, IsFile, Kept
<1> QED
  BY <1>2, <1>3, <1>5 DEF IInv, TypeOK

\* The file that is loaded is one of the card's.
LEMMA FileInCard ==
    ASSUME TypeOK, BlocksOK, fd \in Cards
    PROVE  card[fd].block[Selected] \in Block /\ PartsOf(card[fd].block[Selected], Kept)
  BY OnAFile DEF TypeOK, BiosTypes, CardState, BlocksOK

\* Two blocks with the same parts are the same block.
LEMMA SamePartsSameBlock ==
  ASSUME NEW a \in Block, NEW b \in Block, \A k \in 1 .. Chunks : a[k] = b[k]
  PROVE  a = b
<1>1. a = [k \in 1 .. Chunks |-> a[k]] /\ b = [k \in 1 .. Chunks |-> b[k]]
  BY DEF Block
<1>2. [k \in 1 .. Chunks |-> a[k]] = [k \in 1 .. Chunks |-> b[k]]
  OBVIOUS
<1> QED
  BY <1>1, <1>2, Zenon


LEMMA LoadingStep ==
    ASSUME IInv, Loads
    PROVE  IInv'
<1> USE DEF IInv, TypeOK
<1>1. CASE LoadOpen
  <2>1. UNCHANGED <<bios, known, lists, screen, mode, msg, over, savemap, tries, buf, saved>>
    BY <1>1 DEF LoadOpen, World, bios
  <2>2. frozen' = TRUE /\ fd' \in Cards /\ left' = Chunks /\ step' = "read"
    BY <1>1 DEF LoadOpen, Has, Readable, BiosTypes, ListTypes
  <2>3. left' \in 0 .. Chunks /\ left' >= 1
    BY <2>2, Sizes
  <2>4. WorkTypes'
    BY <2>1, <2>2, <2>3 DEF WorkTypes
  <2>5. WorkOK'
    BY <1>1, <2>1, <2>2, <2>3 DEF LoadOpen, Loading, WorkOK, SaveSteps, LoadSteps
  <2> QED
    BY <2>1, <2>4, <2>5, BiosKept, ListsKept, BlocksKept, GameKept DEF ScreenTypes, bios
<1>2. CASE LoadOpenFails
  <2>1. UNCHANGED <<bios, known, lists, screen, over, savemap, frozen, saved>>
    BY <1>2 DEF LoadOpenFails, World, bios
  <2>2. WorkTypes' /\ ScreenTypes'
    BY <1>2, <2>1, Closed DEF LoadOpenFails, WorkTypes
  <2> QED
    BY <1>2, <2>1, <2>2, BiosKept, ListsKept, BlocksKept, GameKept, Idle DEF LoadOpenFails, Ends, Closes, bios
<1>3. CASE LoadRead
  <2>1. UNCHANGED <<bios, known, lists, screen, mode, msg, over, savemap, frozen, tries, fd, saved>>
    BY <1>3 DEF LoadRead, World, bios
  <2>2. fd \in Cards /\ left \in 1 .. Chunks /\ Chunks \in Nat \ {0}
    BY <1>3, Sizes DEF LoadRead, Loading, WorkOK, LoadSteps, WorkTypes
  <2> DEFINE file == card[fd].block[Selected]
  <2>3. file \in Block /\ PartsOf(file, Kept) /\ buf \in Block
    BY <2>2, FileInCard DEF WorkTypes
  <2>4. PICK n \in 0 .. left :
          /\ buf' = Delivered(n)
          /\ IF n = left THEN step' = "fill" /\ UNCHANGED left ELSE left' = left - n /\ UNCHANGED step
    BY <1>3, <2>2 DEF LoadRead
  <2>5. \A k \in 1 .. Chunks : k <= n => Chunks - left + k \in 1 .. Chunks
    BY <2>2, <2>4
  <2>6. buf' \in Block
    BY <2>3, <2>4, <2>5 DEF Delivered, Block
  <2>7. left' \in 1 .. Chunks /\ step' \in {"read", "fill"} /\ step = "read"
    BY <1>3, <2>2, <2>4 DEF LoadRead, Loading
  <2>8. WorkTypes'
    BY <2>1, <2>6, <2>7 DEF WorkTypes
  \* Only a file that came at once is whole: the first part is never the last's.
  <2>9. ASSUME step' = "fill", Whole(buf'), InPlace(file) PROVE buf' = file
    <3>1. n = left /\ n >= 1
      BY <1>3, <2>2, <2>4, <2>9 DEF LoadRead, Loading
    <3>2. CASE left = Chunks
      <4>0. \A k \in 1 .. Chunks : k <= n /\ Chunks - left + k = k
        BY <2>2, <3>1, <3>2
      <4>1. \A k \in 1 .. Chunks : buf'[k] = file[k]
        <5> TAKE k \in 1 .. Chunks
        <5>1. buf'[k] = file[Chunks - left + k]
          BY <2>4, <4>0 DEF Delivered
        <5>2. Chunks - left + k = k
          BY <4>0
        <5> QED
          BY <5>1, <5>2, Zenon
      <4> QED
        BY <2>3, <2>6, <4>1, SamePartsSameBlock
    <3>3. CASE left # Chunks
      <4>1. buf'[1] = file[Chunks - left + 1] /\ Chunks - left + 1 \in 2 .. Chunks
        BY <2>2, <2>4, <3>1, <3>3 DEF Delivered
      <4>2. buf'[1].part # 1
        BY <2>2, <2>9, <4>1 DEF InPlace
      <4>3. buf'[1].part = 1
        BY <2>2, <2>9 DEF Whole, FileOf
      <4> QED
        BY <4>2, <4>3
    <3> QED
      BY <3>2, <3>3
  <2>10. card'[fd'].block[Selected'] = file
    BY <2>1 DEF Selected, lists, bios
  <2>11. WorkOK'
    <3>1. frozen /\ screen = "load" /\ over = "no" /\ mode = "work" /\ msg = "none"
      BY <1>3 DEF LoadRead, Loading, WorkOK, LoadSteps
    <3>2. left' >= 1
      BY <2>7
    <3>3. step' = "fill" /\ Whole(buf)' => IsFile(buf)'
      BY <2>9, <2>10 DEF Whole, IsFile
    <3> HIDE DEF file
    <3> QED
      BY <2>1, <2>2, <2>7, <3>1, <3>2, <3>3 DEF WorkOK, SaveSteps, LoadSteps
  <2>12. BlocksOK'
    <3>1. card' = card /\ Kept' = Kept
      BY <2>1 DEF bios, Kept
    <3>2. \A k \in 1 .. Chunks : buf'[k] = IF k <= n THEN file[Chunks - left + k] ELSE buf[k]
      BY <2>4 DEF Delivered
    <3>3. PartsOf(buf', Kept)
      <4> HIDE DEF file
      <4> QED
        BY <2>3, <2>5, <3>2 DEF PartsOf, BlocksOK
    <3> QED
      BY <3>1, <3>3 DEF BlocksOK
  <2> QED
    BY <2>1, <2>8, <2>11, <2>12, BiosKept, ListsKept, GameKept DEF ScreenTypes, bios
<1>4. CASE LoadReadFails
  <2>1. UNCHANGED vars
    BY <1>4 DEF LoadReadFails
  <2> QED
    BY <2>1, StutterStep
<1>5. CASE LoadCopy
  <2>1. UNCHANGED <<bios, known, lists, screen, mode, msg, over, frozen, tries, left, fd, buf, saved>>
    BY <1>5 DEF LoadCopy, World, bios
  <2>2. fd \in Cards /\ buf \in Block /\ frozen /\ screen = "load" /\ over = "no" /\ mode = "work" /\ msg = "none"
    BY <1>5 DEF LoadCopy, Loading, WorkOK, LoadSteps, WorkTypes
  <2>3. savemap' \in Save \cup {Lost}
    BY <1>5, <2>2, Sizes DEF LoadCopy, Block
  <2>4. SumHolds(savemap') => savemap' \in Save /\ IsFile(FileOf(savemap')) /\ savemap'.game \in Kept
    <3>1. CASE Whole(buf)
      <4>1. savemap' = buf[1].save /\ buf = FileOf(savemap') /\ savemap' \in Save /\ IsFile(buf)
        BY <1>5, <2>2, <3>1, Sizes DEF LoadCopy, Loading, WorkOK, Whole, Block
      <4>2. buf[1].part = 1
        BY <4>1, Sizes DEF FileOf
      <4>3. SumHolds(savemap') => savemap'.game \in Kept
        BY <4>1, <4>2, Sizes DEF BlocksOK, PartsOf, Genuine
      <4> QED
        BY <4>1, <4>3
    <3>2. CASE ~Whole(buf)
      BY <1>5, <3>2 DEF LoadCopy, SumHolds, Lost
    <3> QED
      BY <3>1, <3>2
  <2>5. WorkTypes'
    BY <1>5, <2>1, <2>3 DEF LoadCopy, WorkTypes
  <2>6. WorkOK'
    <3>1. (SumHolds(savemap) => savemap \in Save /\ IsFile(FileOf(savemap)) /\ savemap.game \in Kept)'
      BY <2>1, <2>4 DEF Selected, lists, bios, IsFile, Kept
    <3> QED
      BY <1>5, <2>1, <2>2, <3>1 DEF LoadCopy, WorkOK, SaveSteps, LoadSteps
  <2>7. GameOK'
    BY <2>1, <2>2 DEF GameOK
  <2> QED
    BY <2>1, <2>5, <2>6, <2>7, BiosKept, ListsKept, BlocksKept DEF ScreenTypes, bios
<1>6. CASE Load
  <2>1. UNCHANGED <<bios, known, lists, screen, mode, msg, savemap, buf, saved>>
    BY <1>6 DEF Load
  <2>2. savemap \in Save /\ screen = "load"
    BY <1>6 DEF Load, Loading, WorkOK
  <2>3. tries' = Retries /\ left' = Chunks /\ step' = "start" /\ fd' = Nothing /\ frozen' = FALSE /\ over' = "loaded"
    BY <1>6 DEF Load, Closes
  <2>4. tries' \in Nat /\ left' \in 0 .. Chunks
    <3>1. Retries \in Nat /\ Chunks \in Nat
      BY Sizes
    <3> QED
      BY <2>3, <3>1
  <2>5. WorkTypes'
    BY <2>1, <2>2, <2>3, <2>4 DEF WorkTypes
  <2>6. GameOK' /\ ScreenTypes'
    BY <2>1, <2>2, <2>3 DEF GameOK, ScreenTypes
  <2> QED
    BY <2>1, <2>3, <2>5, <2>6, BiosKept, ListsKept, BlocksKept, Idle DEF bios
<1>7. CASE LoadRuined
  <2>1. UNCHANGED <<bios, known, lists, screen, over, savemap, saved>> /\ frozen' = FALSE
    BY <1>7 DEF LoadRuined, World, bios
  <2>2. WorkTypes' /\ ScreenTypes'
    BY <1>7, <2>1, Closed DEF LoadRuined, WorkTypes
  <2> QED
    BY <1>7, <2>1, <2>2, BiosKept, ListsKept, BlocksKept, GameKept, Idle DEF LoadRuined, Ends, Closes, bios
<1> QED
  BY <1>1, <1>2, <1>3, <1>4, <1>5, <1>6, <1>7 DEF Loads

LEMMA AroundStep ==
    ASSUME IInv, Around
    PROVE  IInv'
<1> USE DEF IInv, TypeOK
<1>1. CASE FormatYes
  <2>1. UNCHANGED <<port, fresh, screen, lists, over, savemap, frozen, io>>
    BY <1>1 DEF FormatYes
  <2>2. card \in [Cards -> CardState] /\ sel \in Ports /\ port[sel] \in Cards \cup {Nothing}
    BY DEF BiosTypes, ListTypes
  <2>3. card' \in [Cards -> CardState] /\ \A k \in Cards : card'[k].block = card[k].block
    <3>1. CASE UNCHANGED card
      BY <2>2, <3>1
    <3>2. CASE port[sel] # Nothing /\ card' = [card EXCEPT ![port[sel]].formatted = TRUE, ![port[sel]].dir = {}]
      BY <2>2, <3>2 DEF CardState
    <3> QED
      BY <1>1, <3>1, <3>2 DEF FormatYes
  <2>4. known' \in [Ports -> [here : BOOLEAN, raw : BOOLEAN]]
    <3>1. known' = known \/ known' = [known EXCEPT ![sel].raw = FALSE]
      BY <1>1 DEF FormatYes
    <3> QED
      BY <2>2, <3>1 DEF BiosTypes
  <2>5. BiosTypes' /\ ScreenTypes' /\ WorkTypes' /\ ListTypes'
    BY <1>1, <2>1, <2>3, <2>4, ListsKept, WorkKept DEF FormatYes, BiosTypes, ScreenTypes
  <2>6. step' = "start"
    BY <1>1, <2>1 DEF FormatYes, Reads, WorkOK, io
  <2> QED
    BY <2>1, <2>3, <2>5, <2>6, Idle, BlocksKept, GameKept DEF io
<1>2. ASSUME NEW s \in {"save", "load"}, NEW m \in {"slot", "title"}, Opens(s, m), savemap' \in Save \cup {Lost},
             s = "save" => savemap' \in Save, buf' \in {buf, Blank}
      PROVE  IInv'
  <2>1. UNCHANGED <<bios, saved>> /\ screen' = s /\ mode' = m /\ over' = "no" /\ msg' = "none"
    BY <1>2 DEF Opens
  <2>2. tries' = Retries /\ left' = Chunks /\ step' = "start" /\ fd' = Nothing /\ frozen' = FALSE
    BY <1>2 DEF Opens, Closes
  <2>3. tries' \in Nat /\ left' \in 0 .. Chunks
    <3>1. Retries \in Nat /\ Chunks \in 0 .. Chunks
      BY Sizes
    <3> QED
      BY <2>2, <3>1
  <2>4. WorkTypes'
    BY <1>2, <2>1, <2>2, <2>3, BlankBlock DEF WorkTypes
  <2>5. ListTypes'
    BY <1>2, FirstFile, Sizes DEF Opens, ListTypes, File
  <2>6. BiosTypes' /\ ScreenTypes'
    BY <1>2, <2>1 DEF Opens, NoCard, BiosTypes, ScreenTypes, bios
  <2>7. GameOK'
    BY <1>2, <2>1 DEF GameOK
  <2>8. BlocksOK'
    <3>1. card' = card /\ Kept' = Kept
      BY <2>1 DEF bios, Kept
    <3>2. PartsOf(buf', Kept)
      BY <1>2, NoPartsInBlank DEF BlocksOK
    <3> QED
      BY <3>1, <3>2 DEF BlocksOK
  <2> QED
    BY <2>1, <2>2, <2>4, <2>5, <2>6, <2>7, <2>8, Idle
<1>3. CASE OpenSave
  <2>1. over # "no" /\ over \in {"no", "back", "new", "loaded"} /\ Opens("save", "slot")
    BY <1>3 DEF OpenSave, ScreenTypes
  <2>2. over # "new" => savemap \in Save
    BY <2>1 DEF GameOK
  <2>3. [game |-> 0, sum |-> 0] \in Save
    BY Sizes DEF Save, Game
  <2>4. savemap' \in Save
    BY <1>3, <2>2, <2>3 DEF OpenSave
  <2>5. buf' \in {buf, Blank}
    BY <1>3 DEF OpenSave
  <2> HIDE DEF IInv
  <2> QED
    BY <1>2, <2>1, <2>4, <2>5
<1>4. CASE PowerOff
  <2>1. Opens("load", "title") /\ savemap' \in Save \cup {Lost} /\ buf' \in {buf, Blank}
    BY <1>4 DEF PowerOff
  <2> HIDE DEF IInv
  <2> QED
    BY <1>2, <2>1
<1>5. CASE Ticks
  <2>1. UNCHANGED <<bios, known, screen, mode, lists, msg, over, frozen, io>> /\ ~frozen
    BY <1>5 DEF Ticks
  <2>2. savemap \in Save /\ savemap' \in Save
    <3>1. savemap \in Save /\ savemap.game \in 0 .. MaxClock - 1
      BY <1>5 DEF Ticks, WorkTypes, Lost
    <3> QED
      BY <1>5, <3>1, Sizes DEF Ticks, Save, Game
  <2>3. step \in {"start", "old", "create", "reopen", "write", "failed"}
    BY <2>1 DEF WorkOK, WorkTypes, LoadSteps
  <2>4. WorkTypes' /\ GameOK'
    BY <2>1, <2>2 DEF WorkTypes, GameOK, io
  <2>5. WorkOK'
    BY <2>1, <2>3, HandKept DEF WorkOK, SaveSteps, LoadSteps, io, bios, lists, Selected
  <2> QED
    BY <2>1, <2>4, <2>5, BiosKept, ListsKept, BlocksKept DEF ScreenTypes, io, bios
\* The cards in the ports, and what is known of them, are no part of the rest.
<1>6. ASSUME UNCHANGED <<card, screen, mode, lists, msg, over, savemap, frozen, io>>, BiosTypes'
      PROVE  IInv'
  <2>1. InHand => InHand'
    BY <1>6, HandKept DEF io
  <2>2. WorkOK'
    BY <1>6, <2>1 DEF WorkOK, IsFile, Kept, io, lists, Selected
  <2> QED
    BY <1>6, <2>2, ListsKept, WorkKept, BlocksKept, GameKept DEF ScreenTypes, io
<1>7. ASSUME NEW p \in Ports, Remove(p) \/ \E c \in Cards : Insert(p, c)
      PROVE  IInv'
  BY <1>6, <1>7 DEF Remove, Insert, BiosTypes
<1>8. ASSUME NEW p \in Ports, Probe(p)
      PROVE  IInv'
  <2>1. card' = card /\ port' \in [Ports -> Cards \cup {Nothing}] /\ fresh' \in [Ports -> BOOLEAN]
    BY <1>8 DEF Probe, ProbeTimeout, ProbeSame, ProbeNew, ProbeLost, bios, BiosTypes
  <2>3. known' \in [Ports -> [here : BOOLEAN, raw : BOOLEAN]]
    <3>1. CASE ProbeTimeout(p)
      BY <3>1 DEF ProbeTimeout, NoCard, BiosTypes
    <3>2. CASE ProbeSame(p)
      <4>1. PICK raw \in BOOLEAN : known' = [known EXCEPT ![p] = IF @.here THEN @ ELSE [here |-> TRUE, raw |-> raw]]
        BY <3>2 DEF ProbeSame
      <4> QED
        BY <4>1 DEF BiosTypes
    <3>3. CASE ProbeNew(p)
      <4>1. PICK raw \in BOOLEAN : known' = [known EXCEPT ![p].raw = raw]
        BY <3>3 DEF ProbeNew
      <4> QED
        BY <4>1 DEF BiosTypes
    <3>4. CASE ProbeLost(p)
      <4>1. known' = [known EXCEPT ![p].here = FALSE]
        BY <3>4 DEF ProbeLost
      <4> QED
        BY <4>1 DEF BiosTypes
    <3> QED
      BY <1>8, <3>1, <3>2, <3>3, <3>4 DEF Probe
  <2>4. BiosTypes'
    BY <2>1, <2>3 DEF BiosTypes
  <2> QED
    BY <1>6, <1>8, <2>1, <2>4 DEF Probe
<1> QED
  BY <1>1, <1>3, <1>4, <1>5, <1>7, <1>8 DEF Around

LEMMA InitOK == Init => IInv
<1> SUFFICES ASSUME Init PROVE IInv
  OBVIOUS
<1>1. BiosTypes
  BY SaveSizes DEF Init, BiosTypes, NoCard
<1>2. ScreenTypes
  BY DEF Init, ScreenTypes
<1>3. ListTypes
  BY FirstFile, Sizes DEF Init, ListTypes, File
<1>4. savemap \in Save
  BY Sizes DEF Init, Save, Game
<1>5. tries \in Nat /\ left \in 0 .. Chunks
  BY FullLength DEF Init
<1>6. WorkTypes
  <2>1. << >> \in Seq(Game)
    OBVIOUS
  <2>2. /\ frozen = FALSE /\ step = "start" /\ fd = Nothing /\ buf = Blank /\ saved = << >>
    BY DEF Init
  <2> QED
    BY <1>4, <1>5, <2>1, <2>2, BlankBlock DEF WorkTypes
<1>7. WorkOK /\ GameOK
  BY <1>4 DEF Init, WorkOK, GameOK, SaveSteps, LoadSteps
<1>8. BlocksOK
  <2>1. \A c \in Cards, f \in File, n \in 1 .. Chunks :
           Genuine(Contents[c].block[f][n]) => Contents[c].block[f][n].save.game \in Held
    BY DEF Held
  <2>2. card = Contents /\ buf = Blank
    BY DEF Init
  <2> QED
    BY <2>1, <2>2, NoPartsInBlank DEF BlocksOK, PartsOf, Kept
<1> QED
  BY <1>1, <1>2, <1>3, <1>6, <1>7, <1>8 DEF IInv, TypeOK

LEMMA Inductive == IInv /\ [Next]_vars => IInv'
  BY BrowsingStep, SavingStep, LoadingStep, AroundStep, StutterStep DEF Next

LEMMA Invariance == Spec => []IInv
  BY InitOK, Inductive, PTL DEF Spec

----------------------------------------------------------------------------
(***************************************************************************)
(* The theorems                                                            *)
(***************************************************************************)
\* Types, and the list stays on its files (func_801D2DA8).
THEOREM SaveTypes == Spec => []TypeOK
<1>1. IInv => TypeOK
  BY DEF IInv
<1> QED
  BY <1>1, Invariance, PTL

LEMMA OnlyWriteSaves ==
    ASSUME IInv, Next, msg' = "Saved.", msg # msg'
    PROVE  Write
<1>1. CASE Browse
  BY <1>1 DEF Browse, TitleContinue, TitleNewGame, SlotNone, SlotRaw, SlotCheck, SlotCancel, SlotMove, RowUp, RowDown,
     PageDown, PageUp, FileSave, FileLoad, FileCancel, ConfirmYes, ConfirmNo, FormatNo, Dismiss, Goes, Steers
<1>2. CASE Look
  BY <1>2 DEF Look, FileGone, Scrolled, CheckDirectory, CheckFile, CheckOver, Goes, Steers
<1>3. CASE Saves
  BY <1>3 DEF Saves, SaveSum, SaveCopy, OldDelete, OldFails, Create, CreateFails, Reopen, ReopenFails, WriteShort, WriteFails, NotSaved, Ends
<1>4. CASE Loads
  BY <1>4 DEF Loads, LoadOpen, LoadOpenFails, LoadRead, LoadReadFails, LoadCopy, Load, LoadRuined, Ends, vars
<1>5. CASE Around
  BY <1>5 DEF Around, FormatYes, OpenSave, PowerOff, Opens, Ticks, Remove, Probe, Insert
<1> QED
  BY <1>1, <1>2, <1>3, <1>4, <1>5 DEF Next

LEMMA OnlyLoadLeaves ==
    ASSUME IInv, Next, over' = "loaded", over # over'
    PROVE  Load
<1>1. CASE Browse \/ Look
  BY <1>1, Browsing DEF IInv, TypeOK
<1>2. CASE Saves
  BY <1>2 DEF Saves, SaveSum, SaveCopy, OldDelete, OldFails, Create, CreateFails, Reopen, ReopenFails, Write, WriteShort, WriteFails, NotSaved, World
<1>3. CASE Loads
  BY <1>3 DEF Loads, LoadOpen, LoadOpenFails, LoadRead, LoadReadFails, LoadCopy, LoadRuined, World, vars
<1>4. CASE Around
  BY <1>4 DEF Around, FormatYes, OpenSave, PowerOff, Opens, Ticks, Remove, Probe, Insert
<1> QED
  BY <1>1, <1>2, <1>3, <1>4 DEF Next

\* What the screen calls saved is on the card, and is a whole file of the game
\* that was saved with a checksum that holds if and only if no write fell short
\* (func_801D2408).
THEOREM SavedWhole == Spec => SavedIsWhole
<1> DEFINE Goal == msg' = "Saved." /\ msg # msg' =>
          LET c == card'[fd]
              s == c.block[Selected][1].save
          IN  /\ Selected \in c.dir
              /\ Whole(c.block[Selected]) <=> left = Chunks
              /\ left = Chunks => SumHolds(s) /\ s.game = saved[Len(saved)]
<1>1. ASSUME IInv, Next, msg' = "Saved.", msg # msg' PROVE Goal
  <2> DEFINE new == card'[fd].block[Selected]
             at == Chunks - left
  <2>1. Write
    BY <1>1, OnlyWriteSaves
  <2>2. /\ step = "write" /\ fd \in Cards /\ InHand /\ Selected \in card[fd].dir
        /\ left \in 1 .. Chunks /\ Chunks \in Nat
    BY <1>1, <2>1, Sizes DEF Write, Saving, IInv, TypeOK, WorkOK, WorkTypes, SaveSteps
  <2>3. /\ buf \in Block /\ buf = FileOf(buf[1].save) /\ SumHolds(buf[1].save)
        /\ buf[1].save.game = saved[Len(saved)]
    BY <1>1, <2>2, HandIsSave DEF IInv, TypeOK, WorkTypes
  <2>4. left \in 0 .. left /\ card' = Written(left)
    BY <2>1, <2>2 DEF Write
  <2>5. /\ card'[fd].dir = card[fd].dir /\ new \in Block
        /\ \A k \in 1 .. Chunks : k \in at + 1 .. at + left => new[k] = buf[k - at]
    BY <1>1, <2>2, <2>4, WrittenParts
  <2> HIDE DEF new
  <2>6. CASE left = Chunks
    <3>1. at = 0
      BY <2>2, <2>6
    <3>2. \A k \in 1 .. Chunks : k \in at + 1 .. at + left /\ k - at = k
      BY <2>2, <2>6, <3>1
    <3>3. \A k \in 1 .. Chunks : new[k] = buf[k]
      BY <2>5, <3>2
    <3>4. new = buf
      BY <2>3, <2>5, <3>3, SamePartsSameBlock
    <3> QED
      BY <2>2, <2>3, <2>5, <2>6, <3>4 DEF Whole, new
  <2>7. CASE left # Chunks
    <3>1. at + 1 \in 2 .. Chunks /\ at + 1 \in at + 1 .. at + left /\ (at + 1) - at = 1
      BY <2>2, <2>7
    <3>2. new[at + 1] = buf[1]
      BY <2>5, <3>1
    <3>3. buf[1].part = 1
      BY <2>2, <2>3 DEF FileOf
    <3>4. ASSUME Whole(new) PROVE FALSE
      <4>1. new[at + 1].part = at + 1
        BY <3>1, <3>4 DEF Whole, FileOf
      <4> QED
        BY <3>1, <3>2, <3>3, <4>1
    <3> QED
      BY <2>2, <2>5, <2>7, <3>4 DEF new
  <2> QED
    BY <2>6, <2>7
<1>2. IInv /\ [Next]_vars => [Goal]_vars
  BY <1>1
<1> QED
  BY <1>2, Invariance, PTL DEF Spec, SavedIsWhole

\* What is loaded is a game that was saved, and the file that was chosen unless
\* writes that fell short have mixed up its parts, after any failure, exchange of
\* cards or loss of power (func_801D1F40, the checksum).
THEOREM LoadedWasSaved == Spec => LoadsWhatWasSaved
<1> DEFINE Goal == over' = "loaded" /\ over # over' =>
          /\ savemap.game \in Held \cup {saved[n] : n \in DOMAIN saved}
          /\ InPlace(card[fd].block[Selected]) => card[fd].block[Selected] = FileOf(savemap)
<1>1. ASSUME IInv, Next, over' = "loaded", over # over' PROVE Goal
  <2>1. SumHolds(savemap) => IsFile(FileOf(savemap)) /\ savemap.game \in Kept
    BY <1>1, OnlyLoadLeaves DEF Load, Loading, IInv, WorkOK
  <2>2. SumHolds(savemap)
    BY <1>1, OnlyLoadLeaves DEF Load
  <2> QED
    BY <2>1, <2>2 DEF Kept, IsFile
<1>2. IInv /\ [Next]_vars => [Goal]_vars
  BY <1>1
<1> QED
  BY <1>2, Invariance, PTL DEF Spec, LoadsWhatWasSaved
=============================================================================
