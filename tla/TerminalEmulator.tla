--------------------------- MODULE TerminalEmulator ---------------------------
(***************************************************************************)
(* The screen of a terminal (TerminalEmulator): cursor, saved cursor,      *)
(* scroll margins, size, and the region of changed cells that TerminalView *)
(* redraws.  One step is one control character, one printed character or   *)
(* one escape sequence; the emulator is used on the main thread only.      *)
(*                                                                         *)
(* What the cells hold is left out: a step says which cells it writes.     *)
(* Coordinates count from 0; a cell is <<x, y>>.                           *)
(***************************************************************************)
EXTENDS Integers

CONSTANTS
  Sizes,     \* the <<columns, rows>> the view may give the terminal
  Arg,       \* the numbers in a control sequence
  MaxInt     \* the largest int

ASSUME ConstantsAssumption ==
  /\ MaxInt \in Nat
  /\ Sizes \subseteq (1 .. MaxInt) \X (1 .. MaxInt)
  /\ Arg \subseteq 0 .. MaxInt

VARIABLES
  columns, rows,
  cursorX, cursorY,
  savedCursorX, savedCursorY,
  scrollTop, scrollBottom,
  dirtyRegion,
  \* History variables: the code has none of these.
  thrown,        \* an access outside the buffer has thrown its exception
  missed,        \* cells written that are neither redrawn nor in dirtyRegion
  marginsSet     \* CSI r has come since the last reset

sizeVars == <<columns, rows>>
cursorVars == <<cursorX, cursorY>>
savedVars == <<savedCursorX, savedCursorY>>
marginVars == <<scrollTop, scrollBottom, marginsSet>>
drawVars == <<dirtyRegion, missed>>
vars == <<sizeVars, cursorVars, savedVars, marginVars, drawVars, thrown>>

Lesser(a, b) == IF a < b THEN a ELSE b
Greater(a, b) == IF a < b THEN b ELSE a

(* The int that a sum or difference of two ints is. *)
Wrap(i) == IF i > MaxInt THEN i - 2 * (MaxInt + 1)
           ELSE IF i < -(MaxInt + 1) THEN i + 2 * (MaxInt + 1) ELSE i

(* A parameter of 0 counts as 1. *)
Count(n) == IF n = 0 THEN 1 ELSE n

Rectangle(left, top, right, bottom) == (left .. right) \X (top .. bottom)
Line(y) == Rectangle(0, y, columns - 1, y)

-----------------------------------------------------------------------------
(* DirtyRegion: the rectangle of the cells changed since it was cleared.   *)

Clean == [dirty |-> FALSE, minX |-> 0, minY |-> 0, maxX |-> 0, maxY |-> 0]

UpdateForgetting(r, left, top, right, bottom) ==
  [dirty |-> TRUE, minX |-> left, minY |-> top, maxX |-> right, maxY |-> bottom]

UpdateRegion(r, left, top, right, bottom) ==
  [dirty |-> TRUE,
   minX |-> IF r.dirty THEN Lesser(r.minX, left) ELSE left,
   minY |-> IF r.dirty THEN Lesser(r.minY, top) ELSE top,
   maxX |-> IF r.dirty THEN Greater(r.maxX, right) ELSE right,
   maxY |-> IF r.dirty THEN Greater(r.maxY, bottom) ELSE bottom]

CellsOf(r) == IF r.dirty THEN Rectangle(r.minX, r.minY, r.maxX, r.maxY) ELSE {}

(* A step has written cells, and r is the region it leaves.  What was       *)
(* marked before has to be marked still.                                   *)
Written(cells, r) ==
  /\ dirtyRegion' = r
  /\ missed' = (missed \cup CellsOf(dirtyRegion) \cup cells) \ CellsOf(r)

Throws == thrown' = TRUE /\ UNCHANGED <<cursorVars, drawVars>>

-----------------------------------------------------------------------------
Region == [dirty : BOOLEAN, minX : Int, minY : Int, maxX : Int, maxY : Int]

SizeOK == <<columns, rows>> \in Sizes
CursorOK == /\ cursorX \in Int /\ cursorY \in Int
            /\ savedCursorX \in Int /\ savedCursorY \in Int
            /\ thrown \in BOOLEAN
MarginsOK == /\ scrollBottom \in 0 .. rows - 1 /\ scrollTop \in 0 .. scrollBottom
             /\ marginsSet \in BOOLEAN
DrawOK == dirtyRegion \in Region /\ missed \subseteq Int \X Int

(* Among others: the margins are lines of the screen, in order.            *)
TypeOK == SizeOK /\ CursorOK /\ MarginsOK /\ DrawOK

Init ==
  /\ \E size \in Sizes : columns = size[1] /\ rows = size[2]
  /\ cursorX = 0 /\ cursorY = 0
  /\ savedCursorX = 0 /\ savedCursorY = 0
  /\ scrollTop = 0 /\ scrollBottom = rows - 1
  /\ dirtyRegion = Clean
  /\ thrown = FALSE /\ marginsSet = FALSE
  /\ missed = {}

-----------------------------------------------------------------------------
(* Scrolling.                                                              *)

(* scrollUpRegion and scrollDownRegion move lines and mark the region; a   *)
(* region of one line is left alone.                                       *)
CanScroll(top, bottom) == top >= 0 /\ bottom < rows /\ top < bottom

ScrollRegion(top, bottom) ==
  IF CanScroll(top, bottom)
  THEN Written(Rectangle(0, top, columns - 1, bottom),
               UpdateRegion(dirtyRegion, 0, top, columns - 1, bottom))
  ELSE UNCHANGED drawVars

LineBelowUnbounded == IF cursorY = scrollBottom THEN cursorY ELSE cursorY + 1
LineBelow ==
  IF cursorY = scrollBottom THEN cursorY ELSE Lesser(cursorY + 1, rows - 1)

(* newLine: \n and ESC D. *)
NewLine ==
  /\ cursorY' = LineBelow
  /\ IF cursorY = scrollBottom THEN ScrollRegion(scrollTop, scrollBottom)
                               ELSE UNCHANGED drawVars
  /\ UNCHANGED <<cursorX, sizeVars, savedVars, marginVars, thrown>>

(* ESC M. *)
ReverseIndex ==
  /\ IF cursorY = scrollTop
     THEN ScrollRegion(scrollTop, scrollBottom) /\ UNCHANGED cursorY
     ELSE cursorY' = (IF cursorY > 0 THEN cursorY - 1 ELSE cursorY) /\ UNCHANGED drawVars
  /\ UNCHANGED <<cursorX, sizeVars, savedVars, marginVars, thrown>>

(* CSI S and CSI T. *)
Scroll ==
  /\ ScrollRegion(scrollTop, scrollBottom)
  /\ UNCHANGED <<cursorVars, sizeVars, savedVars, marginVars, thrown>>

(* CSI L and CSI M, from the cursor's line to the bottom margin.           *)
InsertOrDeleteLines ==
  /\ ScrollRegion(Greater(scrollTop, Lesser(cursorY, scrollBottom)), scrollBottom)
  /\ UNCHANGED <<cursorVars, sizeVars, savedVars, marginVars, thrown>>

-----------------------------------------------------------------------------
(* Printing and moving the cursor.                                         *)

(* printChar: a full line wraps first.  A cursor below or to the right of   *)
(* the screen swallows the character.                                      *)
PrintChar ==
  LET wraps   == cursorX >= columns
      x       == IF wraps THEN 0 ELSE cursorX
      y       == IF wraps THEN LineBelow ELSE cursorY
      scrolls == wraps /\ cursorY = scrollBottom /\ CanScroll(scrollTop, scrollBottom)
      before  == IF scrolls
                 THEN UpdateRegion(dirtyRegion, 0, scrollTop, columns - 1, scrollBottom)
                 ELSE dirtyRegion
      moved   == IF scrolls THEN Rectangle(0, scrollTop, columns - 1, scrollBottom) ELSE {}
      fits    == x \in 0 .. columns - 1 /\ y \in 0 .. rows - 1
  IN /\ cursorX' = IF fits THEN x + 1 ELSE x
     /\ cursorY' = y
     /\ IF fits THEN Written(moved \cup {<<x, y>>}, UpdateRegion(before, x, y, x, y))
                ELSE Written(moved, before)
     /\ thrown' = (~fits /\ y < rows)
     /\ UNCHANGED <<sizeVars, savedVars, marginVars>>

MoveTo(x, y) ==
  /\ cursorX' = x /\ cursorY' = y
  /\ UNCHANGED <<sizeVars, savedVars, marginVars, drawVars, thrown>>

CarriageReturn == MoveTo(0, cursorY)
Eighth(i) == IF i < 0 THEN -((-i) \div 8) ELSE i \div 8
Tab == MoveTo(Lesser(columns - 1, (Eighth(cursorX) + 1) * 8), cursorY)
Backspace == MoveTo(IF cursorX > 0 THEN cursorX - 1 ELSE cursorX, cursorY)
CursorUp(n) == MoveTo(cursorX, Greater(0, Wrap(cursorY - Count(n))))
CursorDown(n) == MoveTo(cursorX, Lesser(rows - 1, Wrap(cursorY + Count(n))))
CursorForward(n) == MoveTo(Lesser(columns - 1, Wrap(cursorX + Count(n))), cursorY)
CursorBackward(n) == MoveTo(Greater(0, Wrap(cursorX - Count(n))), cursorY)

(* CSI H and CSI f, with one argument or two. *)
SetCursorPosition(r, c) ==
  MoveTo(Greater(0, Lesser(columns - 1, Count(c) - 1)),
         Greater(0, Lesser(rows - 1, Count(r) - 1)))

SaveCursor ==
  /\ savedCursorX' = cursorX /\ savedCursorY' = cursorY
  /\ UNCHANGED <<cursorVars, sizeVars, marginVars, drawVars, thrown>>

RestoreCursor == MoveTo(savedCursorX, savedCursorY)

-----------------------------------------------------------------------------
(* Erasing and shifting.  updateAll is updateRegion of the whole screen: the *)
(* two differ only on cells left of it.                                    *)

EraseInDisplay(mode) ==
  /\ IF mode = 2
     THEN /\ Written(Rectangle(0, 0, columns - 1, rows - 1),
                     UpdateRegion(dirtyRegion, 0, 0, columns - 1, rows - 1))
          /\ UNCHANGED <<cursorVars, thrown>>
     ELSE IF mode = 1
     THEN /\ Written(Rectangle(0, 0, columns - 1, Lesser(cursorY, rows) - 1)
                       \cup (IF cursorY \in 0 .. rows - 1
                             THEN Rectangle(0, cursorY, Lesser(cursorX, columns - 1), cursorY)
                             ELSE {}),
                     UpdateRegion(dirtyRegion, 0, 0, cursorX, cursorY))
          /\ UNCHANGED <<cursorVars, thrown>>
     ELSE IF cursorY < 0 \/ (cursorX < 0 /\ cursorY < rows)
     THEN Throws
     ELSE /\ Written(Rectangle(cursorX, cursorY, columns - 1, Lesser(cursorY, rows - 1))
                       \cup Rectangle(0, cursorY + 1, columns - 1, rows - 1),
                     UpdateRegion(dirtyRegion, cursorX, cursorY, columns - 1, rows - 1))
          /\ UNCHANGED <<cursorVars, thrown>>
  /\ UNCHANGED <<sizeVars, savedVars, marginVars>>

(* The cells from left to right of the cursor's line, which is on screen.  *)
WriteInLine(left, right, markLeft, markRight) ==
  Written(Rectangle(left, cursorY, right, cursorY),
          UpdateRegion(dirtyRegion, markLeft, cursorY, markRight, cursorY))

EraseInLine(mode) ==
  /\ IF cursorY \notin 0 .. rows - 1 THEN UNCHANGED <<drawVars, thrown>>
     ELSE IF mode = 2 THEN WriteInLine(0, columns - 1, 0, columns - 1) /\ UNCHANGED thrown
     ELSE IF mode = 1
     THEN WriteInLine(0, Lesser(cursorX, columns - 1), 0, cursorX) /\ UNCHANGED thrown
     ELSE IF cursorX < 0 THEN UNCHANGED drawVars /\ thrown' = TRUE
     ELSE WriteInLine(cursorX, columns - 1, cursorX, columns - 1) /\ UNCHANGED thrown
  /\ UNCHANGED <<cursorVars, sizeVars, savedVars, marginVars>>

(* Only a line with a cell to write is accessed. *)
Outside(left, right) ==
  left <= right /\ (cursorY \notin 0 .. rows - 1 \/ left < 0)

EndOfErased(n) == Lesser(columns, Wrap(cursorX + n))

EraseTo(end) ==
  IF Outside(cursorX, end - 1) THEN Throws
  ELSE WriteInLine(cursorX, end - 1, cursorX, end - 1) /\ UNCHANGED <<cursorVars, thrown>>

EraseChars(n) ==
  /\ EraseTo(EndOfErased(Count(n)))
  /\ UNCHANGED <<sizeVars, savedVars, marginVars>>

(* Neither of these marks what it writes. *)
ShiftLine(right) ==
  IF Outside(cursorX, right) THEN Throws
  ELSE Written(Rectangle(cursorX, cursorY, right, cursorY), dirtyRegion)
       /\ UNCHANGED <<cursorVars, thrown>>

DeleteChars(n) ==
  /\ IF columns - Count(n) >= cursorX THEN ShiftLine(columns - 1)
     ELSE IF Wrap(columns - cursorX) > 0 THEN EraseTo(EndOfErased(columns - cursorX))
     ELSE UNCHANGED <<cursorVars, drawVars, thrown>>
  /\ UNCHANGED <<sizeVars, savedVars, marginVars>>

InsertChars(n) ==
  /\ IF EndOfErased(Count(n)) > cursorX THEN ShiftLine(columns - 1)
     ELSE UNCHANGED <<cursorVars, drawVars, thrown>>
  /\ UNCHANGED <<sizeVars, savedVars, marginVars>>

-----------------------------------------------------------------------------
(* Margins, reset and size.                                                *)

(* CSI r: margins that are not in order give the whole screen.             *)
SetMargins(t, b) ==
  LET top    == Count(t)
      bottom == IF b = 0 THEN rows ELSE b
      first  == Greater(0, Lesser(rows - 1, top - 1))
  IN /\ scrollTop' = IF top < bottom THEN first ELSE 0
     /\ scrollBottom' = IF top < bottom THEN Greater(first, Lesser(rows - 1, bottom - 1))
                        ELSE rows - 1
     /\ cursorX' = 0 /\ cursorY' = scrollTop'
     /\ marginsSet' = TRUE
     /\ UNCHANGED <<sizeVars, savedVars, drawVars, thrown>>

(* ESC c: every cell is blank, and none is marked. *)
ResetTerminal ==
  /\ cursorX' = 0 /\ cursorY' = 0
  /\ savedCursorX' = 0 /\ savedCursorY' = 0
  /\ scrollTop' = 0 /\ scrollBottom' = rows - 1
  /\ marginsSet' = FALSE
  /\ Written(Rectangle(0, 0, columns - 1, rows - 1), dirtyRegion)
  /\ UNCHANGED <<sizeVars, thrown>>

KeptMargin(margin, least, most) == margin
InMargins(margin, least, most) == Greater(least, Lesser(margin, most))
OnScreen(position, size) == IF position >= size THEN size - 1 ELSE position

(* The view has a new size, or a new font; it is redrawn as a whole.       *)
Resize(size) ==
  /\ size # <<columns, rows>>
  /\ columns' = size[1] /\ rows' = size[2]
  /\ scrollTop' = InMargins(scrollTop, 0, size[2] - 1)
  /\ scrollBottom' = InMargins(scrollBottom, scrollTop', size[2] - 1)
  /\ cursorX' = OnScreen(cursorX, size[1])
  /\ cursorY' = OnScreen(cursorY, size[2])
  /\ missed' = {}
  /\ UNCHANGED <<savedVars, marginsSet, dirtyRegion, thrown>>

(* invalidateDirtyRegion, at the end of each piece of output.              *)
ClearDirtyRegion ==
  /\ dirtyRegion.dirty
  /\ dirtyRegion' = Clean
  /\ UNCHANGED <<sizeVars, cursorVars, savedVars, marginVars, missed, thrown>>

-----------------------------------------------------------------------------
Character == PrintChar \/ CarriageReturn \/ NewLine \/ Tab \/ Backspace
Escape == ReverseIndex \/ ResetTerminal \/ SaveCursor \/ RestoreCursor \/ Scroll
          \/ InsertOrDeleteLines
Sequence ==
  \/ \E n \in Arg :
       \/ CursorUp(n) \/ CursorDown(n) \/ CursorForward(n) \/ CursorBackward(n)
       \/ EraseInDisplay(n) \/ EraseInLine(n)
       \/ EraseChars(n) \/ DeleteChars(n) \/ InsertChars(n)
       \/ SetCursorPosition(n, 1) \/ SetMargins(n, rows)
  \/ \E n, k \in Arg : SetCursorPosition(n, k) \/ SetMargins(n, k)

(* Nothing is said of the emulator after an exception has left it.         *)
Next == /\ ~thrown
        /\ Character \/ Escape \/ Sequence \/ ClearDirtyRegion
           \/ \E size \in Sizes : Resize(size)

Spec == Init /\ [][Next]_vars

-----------------------------------------------------------------------------
(* While the saved cursor is on the screen, so is the cursor (one column    *)
(* to the right of it when a line is full), and no sequence accesses a cell *)
(* that does not exist, through every change of size: only a cursor saved  *)
(* on a larger screen can bring it outside.                                *)
SavedOnScreen == savedCursorX <= columns /\ savedCursorY < rows
StaysOnScreen ==
  SavedOnScreen =>
    /\ cursorX \in 0 .. columns /\ cursorY \in 0 .. rows - 1
    /\ ~thrown

(* What a step writes is redrawn: dirtyRegion, however often it has been    *)
(* updated since it was cleared, holds it.  Shifting characters, a reset   *)
(* and a partial erasure of the display do not mark all they write.        *)
Unmarked == \/ ResetTerminal
            \/ \E n \in Arg : DeleteChars(n) \/ InsertChars(n)
            \/ \E n \in Arg \ {2} : EraseInDisplay(n)
ChangesMarked == [][missed' \subseteq missed \/ Unmarked]_vars

(* newLine: the cursor goes down one line, and the screen scrolls only     *)
(* when it is at the bottom.                                               *)
ScrollsAtTheBottom ==
  [][NewLine /\ ~marginsSet /\ cursorY < rows - 1 => cursorY' = cursorY + 1]_vars
=============================================================================
