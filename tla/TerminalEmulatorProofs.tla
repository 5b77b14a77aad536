------------------------ MODULE TerminalEmulatorProofs ------------------------
(***************************************************************************)
(* For every set of sizes and of arguments: the margins are lines of the   *)
(* screen, the cursor stays on it as long as the saved cursor does, and    *)
(* what a sequence writes is marked.                                       *)
(***************************************************************************)
EXTENDS TerminalEmulator, TLAPS

-----------------------------------------------------------------------------
(* Rectangles and regions.                                                 *)

Cell == Int \X Int

(* A rectangle of whole coordinates holds cells.                           *)
LEMMA RectangleType ==
  ASSUME NEW l \in Int, NEW t \in Int, NEW r \in Int, NEW b \in Int
  PROVE  Rectangle(l, t, r, b) \subseteq Cell
BY DEF Rectangle, Cell

(* A region that is updated is a region.                                   *)
LEMMA UpdateType ==
  ASSUME NEW d \in Region, NEW l \in Int, NEW t \in Int, NEW r \in Int, NEW b \in Int
  PROVE  UpdateRegion(d, l, t, r, b) \in Region
BY DEF Region, UpdateRegion, Lesser, Greater

(* It holds every cell it held before ...                                  *)
LEMMA UpdateKeeps ==
  ASSUME NEW d \in Region, NEW l \in Int, NEW t \in Int, NEW r \in Int, NEW b \in Int
  PROVE  CellsOf(d) \subseteq CellsOf(UpdateRegion(d, l, t, r, b))
BY DEF Region, UpdateRegion, CellsOf, Rectangle, Lesser, Greater

(* ... and every cell of the rectangle it is updated with.                 *)
LEMMA UpdateCovers ==
  ASSUME NEW d \in Region, NEW l \in Int, NEW t \in Int, NEW r \in Int, NEW b \in Int
  PROVE  Rectangle(l, t, r, b) \subseteq CellsOf(UpdateRegion(d, l, t, r, b))
BY DEF Region, UpdateRegion, CellsOf, Rectangle, Lesser, Greater

(* A step that writes cells and leaves a region keeps the types.           *)
LEMMA WrittenType ==
  ASSUME DrawOK, NEW cells, cells \subseteq Cell, NEW d \in Region, Written(cells, d)
  PROVE  DrawOK'
BY DEF DrawOK, Written, CellsOf, Rectangle, Region, Cell

(* A size is a pair of positive numbers.                                   *)
LEMMA SizeFacts ==
  ASSUME SizeOK
  PROVE  columns \in 1 .. MaxInt /\ rows \in 1 .. MaxInt /\ MaxInt \in Nat
BY ConstantsAssumption DEF SizeOK

(* The step that scrolls keeps the types.                                  *)
LEMMA ScrollType ==
  ASSUME SizeOK, DrawOK, NEW top \in Int, NEW bottom \in Int, ScrollRegion(top, bottom)
  PROVE  DrawOK'
<1>1. CASE CanScroll(top, bottom)
  <2>1. columns - 1 \in Int
    BY SizeFacts
  <2>2. Rectangle(0, top, columns - 1, bottom) \subseteq Cell
    BY <2>1, RectangleType
  <2>3. UpdateRegion(dirtyRegion, 0, top, columns - 1, bottom) \in Region
    BY <2>1, UpdateType DEF DrawOK
  <2> QED
    BY <1>1, <2>2, <2>3, WrittenType DEF ScrollRegion
<1>2. CASE ~CanScroll(top, bottom)
  BY <1>2 DEF ScrollRegion, DrawOK, drawVars
<1> QED
  BY <1>1, <1>2

(* ... and so does one that writes in the cursor's line.                   *)
LEMMA LineType ==
  ASSUME SizeOK, CursorOK, DrawOK, NEW l \in Int, NEW r \in Int, NEW l2 \in Int, NEW r2 \in Int,
         WriteInLine(l, r, l2, r2)
  PROVE  DrawOK'
<1>1. Rectangle(l, cursorY, r, cursorY) \subseteq Cell
  BY RectangleType DEF CursorOK
<1>2. UpdateRegion(dirtyRegion, l2, cursorY, r2, cursorY) \in Region
  BY UpdateType DEF CursorOK, DrawOK
<1> QED
  BY <1>1, <1>2, WrittenType DEF WriteInLine

-----------------------------------------------------------------------------
(* Type correctness, one lemma per group of steps.                         *)

LEMMA MoveType ==
  ASSUME TypeOK, NEW x \in Int, NEW y \in Int, MoveTo(x, y)
  PROVE  TypeOK'
BY DEF TypeOK, SizeOK, CursorOK, MarginsOK, DrawOK, MoveTo, sizeVars, savedVars, marginVars,
       drawVars

LEMMA InitType == Init => TypeOK
<1> SUFFICES ASSUME Init PROVE TypeOK
  OBVIOUS
<1>1. PICK size \in Sizes : columns = size[1] /\ rows = size[2]
  BY DEF Init
<1>2. size = <<size[1], size[2]>>
  BY ConstantsAssumption
<1>3. SizeOK
  BY <1>1, <1>2 DEF SizeOK
<1>4. CursorOK /\ MarginsOK
  <2>1. rows \in 1 .. MaxInt /\ MaxInt \in Nat
    BY <1>3, SizeFacts
  <2>2. thrown \in BOOLEAN /\ marginsSet \in BOOLEAN
    BY DEF Init
  <2> QED
    BY <2>1, <2>2 DEF Init, CursorOK, MarginsOK
<1>5. DrawOK
  BY DEF Init, DrawOK, Clean, Region
<1> QED
  BY <1>3, <1>4, <1>5 DEF TypeOK

(* Printing a character.                                                   *)
LEMMA PrintType == ASSUME TypeOK, PrintChar PROVE TypeOK'
<1> DEFINE wraps   == cursorX >= columns
           x       == IF wraps THEN 0 ELSE cursorX
           y       == IF wraps THEN LineBelow ELSE cursorY
           scrolls == wraps /\ cursorY = scrollBottom /\ CanScroll(scrollTop, scrollBottom)
           before  == IF scrolls
                      THEN UpdateRegion(dirtyRegion, 0, scrollTop, columns - 1, scrollBottom)
                      ELSE dirtyRegion
           moved   == IF scrolls THEN Rectangle(0, scrollTop, columns - 1, scrollBottom) ELSE {}
           fits    == x \in 0 .. columns - 1 /\ y \in 0 .. rows - 1
<1>0. SizeOK /\ CursorOK /\ MarginsOK /\ DrawOK
  BY DEF TypeOK
<1>1. /\ columns - 1 \in Int /\ rows - 1 \in Int /\ scrollTop \in Int /\ scrollBottom \in Int
      /\ cursorX \in Int /\ cursorY \in Int
  BY <1>0, SizeFacts DEF CursorOK, MarginsOK
<1>2. x \in Int /\ y \in Int
  BY <1>1 DEF LineBelow, Lesser
<1>3. before \in Region
  BY <1>0, <1>1, UpdateType DEF DrawOK
<1>4. moved \subseteq Cell
  BY <1>1, RectangleType
<1>5. UpdateRegion(before, x, y, x, y) \in Region
  BY <1>2, <1>3, UpdateType
<1>6. moved \cup {<<x, y>>} \subseteq Cell
  BY <1>2, <1>4 DEF Cell
<1>7. DrawOK'
  <2>1. CASE fits
    <3>1. Written(moved \cup {<<x, y>>}, UpdateRegion(before, x, y, x, y))
      BY <2>1 DEF PrintChar
    <3> HIDE DEF x, y, before, moved
    <3> QED
      BY <1>0, <1>5, <1>6, <3>1, WrittenType
  <2>2. CASE ~fits
    <3>1. Written(moved, before)
      BY <2>2 DEF PrintChar
    <3> HIDE DEF before, moved
    <3> QED
      BY <1>0, <1>3, <1>4, <3>1, WrittenType
  <2> QED
    BY <2>1, <2>2
<1>8. CursorOK'
  <2>1. cursorX' \in {x, x + 1} /\ cursorY' = y /\ thrown' \in BOOLEAN /\ UNCHANGED savedVars
    BY DEF PrintChar
  <2> HIDE DEF x, y
  <2> QED
    BY <1>0, <1>2, <2>1 DEF CursorOK, savedVars
<1>9. SizeOK' /\ MarginsOK'
  BY <1>0 DEF PrintChar, SizeOK, MarginsOK, sizeVars, marginVars
<1> QED
  BY <1>7, <1>8, <1>9 DEF TypeOK

(* Erasing and shifting in the cursor's line.                              *)
LEMMA EraseToType ==
  ASSUME SizeOK, CursorOK, DrawOK, NEW end \in Int, EraseTo(end)
  PROVE  DrawOK' /\ UNCHANGED cursorVars /\ thrown' \in BOOLEAN
<1>1. CASE Outside(cursorX, end - 1)
  BY <1>1 DEF EraseTo, Throws, DrawOK, drawVars
<1>2. CASE ~Outside(cursorX, end - 1)
  <2>1. DrawOK'
    BY <1>2, LineType DEF EraseTo, CursorOK
  <2> QED
    BY <1>2, <2>1 DEF EraseTo, CursorOK
<1> QED
  BY <1>1, <1>2

LEMMA ShiftType ==
  ASSUME SizeOK, CursorOK, DrawOK, ShiftLine(columns - 1)
  PROVE  DrawOK' /\ UNCHANGED cursorVars /\ thrown' \in BOOLEAN
<1>1. CASE Outside(cursorX, columns - 1)
  BY <1>1 DEF ShiftLine, Throws, DrawOK, drawVars
<1>2. CASE ~Outside(cursorX, columns - 1)
  <2>1. Rectangle(cursorX, cursorY, columns - 1, cursorY) \subseteq Cell
    BY SizeFacts, RectangleType DEF CursorOK
  <2>2. DrawOK'
    BY <1>2, <2>1, WrittenType DEF ShiftLine, DrawOK
  <2> QED
    BY <1>2, <2>2 DEF ShiftLine, CursorOK
<1> QED
  BY <1>1, <1>2

(* Every step. *)
LEMMA NextType == ASSUME TypeOK, [Next]_vars PROVE TypeOK'
<1>0. /\ SizeOK /\ CursorOK /\ MarginsOK /\ DrawOK
      /\ columns \in 1 .. MaxInt /\ rows \in 1 .. MaxInt /\ MaxInt \in Nat
      /\ cursorX \in Int /\ cursorY \in Int /\ savedCursorX \in Int /\ savedCursorY \in Int
      /\ scrollTop \in 0 .. scrollBottom /\ scrollBottom \in 0 .. rows - 1
      /\ dirtyRegion \in Region
  BY SizeFacts DEF TypeOK, CursorOK, MarginsOK, DrawOK
<1>1. ASSUME NEW n \in Arg PROVE n \in 0 .. MaxInt /\ Count(n) \in 1 .. MaxInt + 1
  BY <1>0, <1>1, ConstantsAssumption DEF Count
<1>2. ASSUME NEW i \in Int PROVE Wrap(i) \in Int
  BY <1>0, <1>2 DEF Wrap
<1>3. CASE PrintChar
  BY <1>3, PrintType
<1>4. CASE CarriageReturn
  BY <1>0, <1>4, MoveType DEF CarriageReturn
<1>5. CASE Tab
  <2>1. Lesser(columns - 1, (Eighth(cursorX) + 1) * 8) \in Int
    BY <1>0 DEF Eighth, Lesser
  <2> QED
    BY <1>0, <1>5, <2>1, MoveType DEF Tab
<1>6. CASE Backspace
  <2>1. (IF cursorX > 0 THEN cursorX - 1 ELSE cursorX) \in Int
    BY <1>0
  <2> QED
    BY <1>0, <1>6, <2>1, MoveType DEF Backspace
<1>7. CASE RestoreCursor
  BY <1>0, <1>7, MoveType DEF RestoreCursor
<1>8. ASSUME NEW n \in Arg,
             CursorUp(n) \/ CursorDown(n) \/ CursorForward(n) \/ CursorBackward(n)
      PROVE  TypeOK'
  <2>1. /\ Greater(0, Wrap(cursorY - Count(n))) \in Int
        /\ Lesser(rows - 1, Wrap(cursorY + Count(n))) \in Int
        /\ Lesser(columns - 1, Wrap(cursorX + Count(n))) \in Int
        /\ Greater(0, Wrap(cursorX - Count(n))) \in Int
    BY <1>0, <1>1, <1>2 DEF Greater, Lesser
  <2> QED
    BY <1>0, <1>8, <2>1, MoveType DEF CursorUp, CursorDown, CursorForward, CursorBackward
<1>9. ASSUME NEW r \in Arg, NEW c \in Arg \cup {1}, SetCursorPosition(r, c)
      PROVE  TypeOK'
  <2>1. Count(r) \in Int /\ Count(c) \in Int
    <3>1. r \in Int /\ c \in Int
      BY <1>0, <1>1
    <3> QED
      BY <3>1 DEF Count
  <2>2. /\ Greater(0, Lesser(columns - 1, Count(c) - 1)) \in Int
        /\ Greater(0, Lesser(rows - 1, Count(r) - 1)) \in Int
    BY <1>0, <2>1 DEF Greater, Lesser
  <2> QED
    BY <1>9, <2>2, MoveType DEF SetCursorPosition
<1>10. CASE NewLine
  <2>1. DrawOK'
    BY <1>0, <1>10, ScrollType DEF NewLine, DrawOK, drawVars
  <2> QED
    BY <1>0, <1>10, <2>1
    DEF NewLine, LineBelow, Lesser, TypeOK, SizeOK, CursorOK, MarginsOK, sizeVars, savedVars,
        marginVars
<1>11. CASE ReverseIndex
  <2>1. DrawOK'
    BY <1>0, <1>11, ScrollType DEF ReverseIndex, DrawOK, drawVars
  <2>2. cursorY' \in Int
    BY <1>0, <1>11 DEF ReverseIndex
  <2> QED
    BY <1>0, <1>11, <2>1, <2>2
    DEF ReverseIndex, TypeOK, SizeOK, CursorOK, MarginsOK, sizeVars, savedVars, marginVars
<1>12. CASE Scroll \/ InsertOrDeleteLines
  <2>1. Greater(scrollTop, Lesser(cursorY, scrollBottom)) \in Int
    BY <1>0 DEF Greater, Lesser
  <2>2. DrawOK'
    BY <1>0, <1>12, <2>1, ScrollType DEF Scroll, InsertOrDeleteLines
  <2> QED
    BY <1>0, <1>12, <2>2
    DEF Scroll, InsertOrDeleteLines, TypeOK, SizeOK, CursorOK, MarginsOK, sizeVars, cursorVars,
        savedVars, marginVars
<1>13. CASE SaveCursor
  BY <1>0, <1>13
  DEF SaveCursor, TypeOK, SizeOK, CursorOK, MarginsOK, DrawOK, sizeVars, cursorVars, marginVars,
      drawVars
<1>14. CASE ResetTerminal
  <2>1. Rectangle(0, 0, columns - 1, rows - 1) \subseteq Cell
    BY <1>0, RectangleType
  <2>2. DrawOK'
    BY <1>0, <1>14, <2>1, WrittenType DEF ResetTerminal
  <2>3. marginsSet' \in BOOLEAN
    BY <1>14 DEF ResetTerminal
  <2> QED
    BY <1>0, <1>14, <2>2, <2>3 DEF ResetTerminal, TypeOK, SizeOK, CursorOK, MarginsOK, sizeVars
<1>15. ASSUME NEW n \in Arg, EraseInDisplay(n) PROVE TypeOK'
  <2>1. DrawOK' /\ UNCHANGED cursorVars /\ thrown' \in BOOLEAN
    <3>1. CASE n = 2
      <4>1. Rectangle(0, 0, columns - 1, rows - 1) \subseteq Cell
        BY <1>0, RectangleType
      <4>2. UpdateRegion(dirtyRegion, 0, 0, columns - 1, rows - 1) \in Region
        BY <1>0, UpdateType
      <4> QED
        BY <1>0, <1>15, <3>1, <4>1, <4>2, WrittenType DEF EraseInDisplay, CursorOK
    <3>2. CASE n = 1
      <4> DEFINE above == Rectangle(0, 0, columns - 1, Lesser(cursorY, rows) - 1)
                 line  == IF cursorY \in 0 .. rows - 1
                          THEN Rectangle(0, cursorY, Lesser(cursorX, columns - 1), cursorY)
                          ELSE {}
      <4>1. Lesser(cursorY, rows) - 1 \in Int /\ Lesser(cursorX, columns - 1) \in Int
        BY <1>0 DEF Lesser
      <4>2. above \cup line \subseteq Cell
        BY <1>0, <4>1, RectangleType
      <4>3. UpdateRegion(dirtyRegion, 0, 0, cursorX, cursorY) \in Region
        BY <1>0, UpdateType
      <4>4. Written(above \cup line, UpdateRegion(dirtyRegion, 0, 0, cursorX, cursorY))
            /\ UNCHANGED <<cursorVars, thrown>>
        BY <1>15, <3>2 DEF EraseInDisplay
      <4> HIDE DEF above, line
      <4> QED
        BY <1>0, <4>2, <4>3, <4>4, WrittenType DEF CursorOK
    <3>3. CASE n \notin {1, 2}
      <4> DEFINE line  == Rectangle(cursorX, cursorY, columns - 1, Lesser(cursorY, rows - 1))
                 below == Rectangle(0, cursorY + 1, columns - 1, rows - 1)
      <4>1. CASE cursorY < 0 \/ (cursorX < 0 /\ cursorY < rows)
        BY <1>0, <1>15, <3>3, <4>1 DEF EraseInDisplay, Throws, DrawOK, drawVars
      <4>2. CASE ~(cursorY < 0 \/ (cursorX < 0 /\ cursorY < rows))
        <5>1. Lesser(cursorY, rows - 1) \in Int
          BY <1>0 DEF Lesser
        <5>2. line \cup below \subseteq Cell
          BY <1>0, <5>1, RectangleType
        <5>3. UpdateRegion(dirtyRegion, cursorX, cursorY, columns - 1, rows - 1) \in Region
          BY <1>0, UpdateType
        <5>4. Written(line \cup below,
                      UpdateRegion(dirtyRegion, cursorX, cursorY, columns - 1, rows - 1))
              /\ UNCHANGED <<cursorVars, thrown>>
          BY <1>15, <3>3, <4>2 DEF EraseInDisplay
        <5> HIDE DEF line, below
        <5> QED
          BY <1>0, <5>2, <5>3, <5>4, WrittenType DEF CursorOK
      <4> QED
        BY <4>1, <4>2
    <3> QED
      BY <3>1, <3>2, <3>3
  <2> QED
    BY <1>0, <1>15, <2>1
    DEF EraseInDisplay, TypeOK, SizeOK, CursorOK, MarginsOK, sizeVars, cursorVars, savedVars,
        marginVars
<1>16. ASSUME NEW n \in Arg, EraseInLine(n) PROVE TypeOK'
  <2>1. columns - 1 \in Int /\ Lesser(cursorX, columns - 1) \in Int
    BY <1>0 DEF Lesser
  <2>2. DrawOK'
    BY <1>0, <1>16, <2>1, LineType DEF EraseInLine, DrawOK, drawVars
  <2>3. thrown' \in BOOLEAN
    BY <1>0, <1>16 DEF EraseInLine, CursorOK
  <2> QED
    BY <1>0, <1>16, <2>2, <2>3
    DEF EraseInLine, TypeOK, SizeOK, CursorOK, MarginsOK, sizeVars, cursorVars, savedVars,
        marginVars
<1>17. ASSUME NEW n \in Arg, EraseChars(n) \/ DeleteChars(n) \/ InsertChars(n)
       PROVE  TypeOK'
  <2>1. EndOfErased(Count(n)) \in Int /\ EndOfErased(columns - cursorX) \in Int
    BY <1>0, <1>1, <1>2 DEF EndOfErased, Lesser
  <2>2. DrawOK' /\ UNCHANGED cursorVars /\ thrown' \in BOOLEAN
    <3>1. CASE UNCHANGED <<cursorVars, drawVars, thrown>>
      BY <1>0, <3>1 DEF DrawOK, CursorOK, drawVars
    <3> QED
      BY <1>0, <1>17, <2>1, <3>1, EraseToType, ShiftType DEF EraseChars, DeleteChars, InsertChars
  <2> QED
    BY <1>0, <1>17, <2>2
    DEF EraseChars, DeleteChars, InsertChars, TypeOK, SizeOK, CursorOK, MarginsOK, sizeVars,
        cursorVars, savedVars, marginVars
<1>18. ASSUME NEW t \in Arg, NEW b \in Arg \cup {rows}, SetMargins(t, b)
       PROVE  TypeOK'
  <2>1. t \in Nat /\ b \in Nat
    BY <1>0, <1>1
  <2>2. /\ scrollBottom' \in 0 .. rows - 1 /\ scrollTop' \in 0 .. scrollBottom'
        /\ cursorX' = 0 /\ cursorY' = scrollTop' /\ marginsSet' = TRUE
    BY <1>0, <1>18, <2>1 DEF SetMargins, Count, Greater, Lesser
  <2> QED
    BY <1>0, <1>18, <2>2
    DEF SetMargins, TypeOK, SizeOK, CursorOK, MarginsOK, DrawOK, sizeVars, savedVars, drawVars
<1>19. ASSUME NEW size \in Sizes, Resize(size) PROVE TypeOK'
  <2>1. size = <<size[1], size[2]>> /\ size[1] \in 1 .. MaxInt /\ size[2] \in 1 .. MaxInt
    BY ConstantsAssumption
  <2>2. SizeOK'
    BY <1>19, <2>1 DEF Resize, SizeOK
  <2>3. MarginsOK'
    BY <1>0, <1>19, <2>1 DEF Resize, MarginsOK, InMargins, Greater, Lesser
  <2>4. CursorOK' /\ DrawOK'
    BY <1>0, <1>19, <2>1 DEF Resize, CursorOK, DrawOK, OnScreen, savedVars
  <2> QED
    BY <2>2, <2>3, <2>4 DEF TypeOK
<1>20. CASE ClearDirtyRegion
  BY <1>0, <1>20
  DEF ClearDirtyRegion, Clean, Region, TypeOK, SizeOK, CursorOK, MarginsOK, DrawOK, sizeVars,
      cursorVars, savedVars, marginVars
<1>21. CASE UNCHANGED vars
  BY <1>0, <1>21
  DEF vars, TypeOK, SizeOK, CursorOK, MarginsOK, DrawOK, sizeVars, cursorVars, savedVars,
      marginVars, drawVars
<1> QED
  BY <1>3, <1>4, <1>5, <1>6, <1>7, <1>8, <1>9, <1>10, <1>11, <1>12, <1>13, <1>14, <1>15, <1>16,
     <1>17, <1>18, <1>19, <1>20, <1>21
  DEF Next, Character, Escape, Sequence

(* Whatever comes from the host and however the view is resized, the       *)
(* margins are lines of the screen, in order.                              *)
THEOREM EmulatorTypeCorrect == Spec => []TypeOK
<1>1. Init => TypeOK
  BY InitType
<1>2. TypeOK /\ [Next]_vars => TypeOK'
  BY NextType
<1> QED
  BY <1>1, <1>2, PTL DEF Spec

-----------------------------------------------------------------------------
(* The cursor.                                                             *)

(* The numbers in a sequence are far from the largest int.                 *)
NoOverflow == \A n \in Arg, size \in Sizes :
  size[1] + Count(n) <= MaxInt /\ size[2] + Count(n) <= MaxInt

(* The cursor is on the screen or where the saved cursor is, and neither   *)
(* is beyond the sizes the screen has had.                                 *)
Near ==
  /\ cursorX \in 0 .. Greater(columns, savedCursorX)
  /\ cursorY \in 0 .. Greater(rows - 1, savedCursorY)
  /\ savedCursorX >= 0 /\ savedCursorY >= 0
  /\ \A n \in Arg : /\ cursorX + Count(n) <= MaxInt /\ cursorY + Count(n) <= MaxInt
                    /\ savedCursorX + Count(n) <= MaxInt /\ savedCursorY + Count(n) <= MaxInt
  /\ thrown => ~SavedOnScreen

(* What follows from TypeOK and NoOverflow for the arithmetic of a step.   *)
LEMMA Numbers ==
  ASSUME NoOverflow, TypeOK
  PROVE  /\ columns \in 1 .. MaxInt /\ rows \in 1 .. MaxInt /\ MaxInt \in Nat
         /\ cursorX \in Int /\ cursorY \in Int /\ savedCursorX \in Int /\ savedCursorY \in Int
         /\ scrollTop \in 0 .. scrollBottom /\ scrollBottom \in 0 .. rows - 1
         /\ \A n \in Arg : /\ n \in 0 .. MaxInt /\ Count(n) \in Nat \ {0}
                           /\ columns + Count(n) <= MaxInt /\ rows + Count(n) <= MaxInt
<1>1. columns \in 1 .. MaxInt /\ rows \in 1 .. MaxInt /\ MaxInt \in Nat
  BY SizeFacts DEF TypeOK
<1>2. ASSUME NEW n \in Arg
      PROVE  /\ n \in 0 .. MaxInt /\ Count(n) \in Nat \ {0}
             /\ columns + Count(n) <= MaxInt /\ rows + Count(n) <= MaxInt
  <2>1. n \in 0 .. MaxInt
    BY ConstantsAssumption
  <2>2. Count(n) \in Nat \ {0}
    BY <1>1, <2>1 DEF Count
  <2>3. <<columns, rows>> \in Sizes /\ <<columns, rows>>[1] = columns
        /\ <<columns, rows>>[2] = rows
    BY DEF TypeOK, SizeOK
  <2>4. columns + Count(n) <= MaxInt /\ rows + Count(n) <= MaxInt
    BY <2>3 DEF NoOverflow
  <2> QED
    BY <2>1, <2>2, <2>4
<1> QED
  BY <1>1, <1>2 DEF TypeOK, CursorOK, MarginsOK

(* A position on the screen, or no further than the saved one, is one where *)
(* the cursor may go.                                                      *)
LEMMA MoveNear ==
  ASSUME NoOverflow, TypeOK, Near, ~thrown,
         NEW x \in 0 .. Greater(columns, savedCursorX),
         NEW y \in 0 .. Greater(rows - 1, savedCursorY),
         cursorX' = x, cursorY' = y, UNCHANGED <<columns, rows, savedVars>>,
         thrown' => ~SavedOnScreen
  PROVE  Near'
<1>1. /\ columns \in 1 .. MaxInt /\ rows \in 1 .. MaxInt /\ MaxInt \in Nat
      /\ savedCursorX \in Int /\ savedCursorY \in Int
  BY Numbers
<1>2. ASSUME NEW n \in Arg
      PROVE  x + Count(n) <= MaxInt /\ y + Count(n) <= MaxInt
  <2>1. /\ Count(n) \in Nat
        /\ columns + Count(n) <= MaxInt /\ rows + Count(n) <= MaxInt
        /\ savedCursorX + Count(n) <= MaxInt /\ savedCursorY + Count(n) <= MaxInt
    BY Numbers DEF Near
  <2> QED
    BY <1>1, <2>1 DEF Greater
<1> QED
  BY <1>1, <1>2 DEF Near, SavedOnScreen, savedVars

(* A step that leaves the cursor where it is, and throws only if it is     *)
(* outside.                                                                *)
LEMMA StayNear ==
  ASSUME NoOverflow, TypeOK, Near, ~thrown, UNCHANGED <<columns, rows, cursorVars, savedVars>>,
         thrown' => cursorX < 0 \/ cursorY \notin 0 .. rows - 1
  PROVE  Near'
<1>1. /\ columns \in 1 .. MaxInt /\ rows \in 1 .. MaxInt
      /\ savedCursorX \in Int /\ savedCursorY \in Int
  BY Numbers
<1>2. thrown' => ~SavedOnScreen
  BY <1>1 DEF Near, SavedOnScreen, Greater
<1> QED
  BY <1>2, MoveNear DEF Near, cursorVars

(* Every step. *)
LEMMA NextNear == ASSUME NoOverflow, TypeOK, Near, Next PROVE Near'
<1>0. /\ columns \in 1 .. MaxInt /\ rows \in 1 .. MaxInt /\ MaxInt \in Nat
      /\ cursorX \in Int /\ cursorY \in Int /\ savedCursorX \in Int /\ savedCursorY \in Int
      /\ scrollTop \in 0 .. scrollBottom /\ scrollBottom \in 0 .. rows - 1
      /\ cursorX \in 0 .. Greater(columns, savedCursorX)
      /\ cursorY \in 0 .. Greater(rows - 1, savedCursorY)
      /\ savedCursorX >= 0 /\ savedCursorY >= 0
      /\ ~thrown
  BY Numbers DEF Near, Next
<1>1. ASSUME NEW n \in Arg
      PROVE  /\ n \in 0 .. MaxInt /\ Count(n) \in Nat \ {0}
             /\ columns + Count(n) <= MaxInt /\ rows + Count(n) <= MaxInt
             /\ cursorX + Count(n) <= MaxInt /\ cursorY + Count(n) <= MaxInt
  BY Numbers DEF Near
<1>2. ASSUME NEW x \in 0 .. Greater(columns, savedCursorX),
             NEW y \in 0 .. Greater(rows - 1, savedCursorY), MoveTo(x, y)
      PROVE  Near'
  BY <1>0, <1>2, MoveNear DEF MoveTo, sizeVars
<1>3. LineBelow \in 0 .. Greater(rows - 1, savedCursorY)
  BY <1>0 DEF LineBelow, Lesser, Greater
<1>4. CASE PrintChar
  <2>1. cursorX' \in 0 .. Greater(columns, savedCursorX)
    BY <1>0, <1>4 DEF PrintChar, Greater
  <2>2. cursorY' \in 0 .. Greater(rows - 1, savedCursorY)
    BY <1>0, <1>3, <1>4 DEF PrintChar
  <2>3. ~thrown'
    <3> DEFINE wraps == cursorX >= columns
               x     == IF wraps THEN 0 ELSE cursorX
               y     == IF wraps THEN LineBelow ELSE cursorY
               fits  == x \in 0 .. columns - 1 /\ y \in 0 .. rows - 1
    <3>1. thrown' = (~fits /\ y < rows)
      BY <1>4 DEF PrintChar
    <3>2. x \in 0 .. columns - 1
      BY <1>0
    <3>3. y \in Int /\ y >= 0
      BY <1>0, <1>3 DEF Greater
    <3>4. ~(~fits /\ y < rows)
      <4> HIDE DEF x, y
      <4> QED
        BY <1>0, <3>2, <3>3
    <3> QED
      BY <3>1, <3>4
  <2> QED
    BY <1>0, <1>4, <2>1, <2>2, <2>3, MoveNear DEF PrintChar, sizeVars
<1>5. CASE CarriageReturn
  <2>1. 0 \in 0 .. Greater(columns, savedCursorX)
    BY <1>0 DEF Greater
  <2> QED
    BY <1>0, <1>2, <1>5, <2>1 DEF CarriageReturn
<1>6. CASE Tab
  <2>1. Lesser(columns - 1, (Eighth(cursorX) + 1) * 8) \in 0 .. Greater(columns, savedCursorX)
    BY <1>0 DEF Eighth, Lesser, Greater
  <2> QED
    BY <1>0, <1>2, <1>6, <2>1 DEF Tab
<1>7. CASE Backspace
  <2>1. (IF cursorX > 0 THEN cursorX - 1 ELSE cursorX) \in 0 .. Greater(columns, savedCursorX)
    BY <1>0 DEF Greater
  <2> QED
    BY <1>0, <1>2, <1>7, <2>1 DEF Backspace
<1>8. CASE RestoreCursor
  <2>1. /\ savedCursorX \in 0 .. Greater(columns, savedCursorX)
        /\ savedCursorY \in 0 .. Greater(rows - 1, savedCursorY)
    BY <1>0 DEF Greater
  <2> QED
    BY <1>2, <1>8, <2>1 DEF RestoreCursor
<1>9. ASSUME NEW n \in Arg,
             CursorUp(n) \/ CursorDown(n) \/ CursorForward(n) \/ CursorBackward(n)
      PROVE  Near'
  <2>1. /\ Wrap(cursorX + Count(n)) = cursorX + Count(n)
        /\ Wrap(cursorY + Count(n)) = cursorY + Count(n)
        /\ Wrap(cursorX - Count(n)) = cursorX - Count(n)
        /\ Wrap(cursorY - Count(n)) = cursorY - Count(n)
    BY <1>0, <1>1 DEF Wrap
  <2>2. /\ Greater(0, cursorY - Count(n)) \in 0 .. Greater(rows - 1, savedCursorY)
        /\ Lesser(rows - 1, cursorY + Count(n)) \in 0 .. Greater(rows - 1, savedCursorY)
        /\ Lesser(columns - 1, cursorX + Count(n)) \in 0 .. Greater(columns, savedCursorX)
        /\ Greater(0, cursorX - Count(n)) \in 0 .. Greater(columns, savedCursorX)
    BY <1>0, <1>1 DEF Greater, Lesser
  <2> QED
    BY <1>0, <1>2, <1>9, <2>1, <2>2 DEF CursorUp, CursorDown, CursorForward, CursorBackward
<1>10. ASSUME NEW r \in Arg, NEW c \in Arg \cup {1}, SetCursorPosition(r, c)
       PROVE  Near'
  <2>1. Count(r) \in Nat \ {0} /\ Count(c) \in Nat \ {0}
    <3>1. Count(1) = 1
      BY DEF Count
    <3> QED
      BY <1>1, <3>1
  <2>2. /\ Greater(0, Lesser(columns - 1, Count(c) - 1)) \in 0 .. Greater(columns, savedCursorX)
        /\ Greater(0, Lesser(rows - 1, Count(r) - 1)) \in 0 .. Greater(rows - 1, savedCursorY)
    BY <1>0, <2>1 DEF Greater, Lesser
  <2> QED
    BY <1>2, <1>10, <2>2 DEF SetCursorPosition
<1>11. CASE NewLine
  BY <1>0, <1>3, <1>11, MoveNear DEF NewLine, sizeVars
<1>12. CASE ReverseIndex
  <2>1. cursorY' \in 0 .. Greater(rows - 1, savedCursorY)
    BY <1>0, <1>12 DEF ReverseIndex, Greater
  <2> QED
    BY <1>0, <1>12, <2>1, MoveNear DEF ReverseIndex, sizeVars
<1>13. CASE Scroll \/ InsertOrDeleteLines
  BY <1>0, <1>13, StayNear DEF Scroll, InsertOrDeleteLines, sizeVars
<1>14. CASE SaveCursor
  <2>1. \A n \in Arg : cursorX + Count(n) <= MaxInt /\ cursorY + Count(n) <= MaxInt
    BY DEF Near
  <2>2. /\ UNCHANGED <<columns, rows, cursorX, cursorY, thrown>>
        /\ savedCursorX' = cursorX /\ savedCursorY' = cursorY
    BY <1>14 DEF SaveCursor, cursorVars, sizeVars
  <2>3. /\ cursorX \in 0 .. Greater(columns, cursorX)
        /\ cursorY \in 0 .. Greater(rows - 1, cursorY)
    BY <1>0 DEF Greater
  <2> QED
    BY <1>0, <2>1, <2>2, <2>3 DEF Near
<1>15. CASE ResetTerminal
  <2>1. \A n \in Arg : Count(n) <= MaxInt
    BY <1>0, <1>1
  <2> QED
    BY <1>0, <1>1, <1>15, <2>1 DEF ResetTerminal, Near, Greater, sizeVars
<1>16. ASSUME NEW n \in Arg, EraseInDisplay(n) PROVE Near'
  <2>1. UNCHANGED cursorVars /\ (thrown' => cursorX < 0 \/ cursorY \notin 0 .. rows - 1)
    BY <1>0, <1>16 DEF EraseInDisplay, Throws
  <2> QED
    BY <1>0, <1>16, <2>1, StayNear DEF EraseInDisplay, sizeVars
<1>17. ASSUME NEW n \in Arg, EraseInLine(n) PROVE Near'
  BY <1>0, <1>17, StayNear DEF EraseInLine, sizeVars
<1>18. ASSUME NEW n \in Arg, EraseChars(n) \/ DeleteChars(n) \/ InsertChars(n)
       PROVE  Near'
  <2>1. UNCHANGED cursorVars /\ (thrown' => cursorX < 0 \/ cursorY \notin 0 .. rows - 1)
    BY <1>0, <1>18
    DEF EraseChars, DeleteChars, InsertChars, EraseTo, ShiftLine, Throws, Outside
  <2> QED
    BY <1>0, <1>18, <2>1, StayNear DEF EraseChars, DeleteChars, InsertChars, sizeVars
<1>19. ASSUME NEW t \in Arg, NEW b \in Arg \cup {rows}, SetMargins(t, b)
       PROVE  Near'
  <2>1. Count(t) \in Nat \ {0} /\ b \in Nat
    BY <1>0, <1>1
  <2>2. scrollTop' \in 0 .. rows - 1 /\ cursorX' = 0 /\ cursorY' = scrollTop'
    BY <1>0, <1>19, <2>1 DEF SetMargins, Greater, Lesser
  <2>3. cursorX' \in 0 .. Greater(columns, savedCursorX)
        /\ cursorY' \in 0 .. Greater(rows - 1, savedCursorY)
    BY <1>0, <2>2 DEF Greater
  <2> QED
    BY <1>0, <1>19, <2>3, MoveNear DEF SetMargins, sizeVars
<1>20. ASSUME NEW size \in Sizes, Resize(size) PROVE Near'
  <2>1. size[1] \in 1 .. MaxInt /\ size[2] \in 1 .. MaxInt
    BY ConstantsAssumption
  <2>2. /\ cursorX' \in 0 .. Greater(size[1], savedCursorX) /\ cursorX' <= cursorX
        /\ cursorY' \in 0 .. Greater(size[2] - 1, savedCursorY) /\ cursorY' <= cursorY
    BY <1>0, <1>20, <2>1 DEF Resize, OnScreen, Greater
  <2>3. \A n \in Arg : /\ cursorX' + Count(n) <= MaxInt /\ cursorY' + Count(n) <= MaxInt
                      /\ savedCursorX + Count(n) <= MaxInt /\ savedCursorY + Count(n) <= MaxInt
    BY <1>0, <1>1, <2>1, <2>2 DEF Near
  <2> QED
    BY <1>0, <1>20, <2>2, <2>3 DEF Resize, Near, savedVars
<1>21. CASE ClearDirtyRegion
  BY <1>0, <1>21, StayNear DEF ClearDirtyRegion, sizeVars
<1> QED
  BY <1>4, <1>5, <1>6, <1>7, <1>8, <1>9, <1>10, <1>11, <1>12, <1>13, <1>14, <1>15, <1>16, <1>17,
     <1>18, <1>19, <1>20, <1>21
  DEF Next, Character, Escape, Sequence

(* resize, RestoreCursor and every sequence: the cursor leaves the screen, *)
(* and an access its buffer, only after a cursor saved on a larger screen  *)
(* has been restored.                                                      *)
THEOREM StaysOnScreenHolds ==
  ASSUME NoOverflow
  PROVE  Spec => []StaysOnScreen
<1>1. Init => TypeOK /\ Near
  <2> SUFFICES ASSUME Init PROVE TypeOK /\ Near
    OBVIOUS
  <2>1. TypeOK
    BY InitType
  <2>2. /\ columns \in 1 .. MaxInt /\ rows \in 1 .. MaxInt /\ MaxInt \in Nat
        /\ \A n \in Arg : Count(n) \in Nat /\ columns + Count(n) <= MaxInt
    BY <2>1, Numbers
  <2>3. \A n \in Arg : 0 + Count(n) <= MaxInt
    BY <2>2
  <2> QED
    BY <2>1, <2>2, <2>3 DEF Init, Near, Greater
<1>2. TypeOK /\ Near /\ [Next]_vars => (TypeOK /\ Near)'
  <2> SUFFICES ASSUME TypeOK, Near, [Next]_vars PROVE TypeOK' /\ Near'
    OBVIOUS
  <2>1. CASE UNCHANGED vars
    BY <2>1, NextType
    DEF vars, Near, SavedOnScreen, sizeVars, cursorVars, savedVars
  <2> QED
    BY <2>1, NextType, NextNear
<1>3. TypeOK /\ Near => StaysOnScreen
  BY Numbers DEF Near, StaysOnScreen, SavedOnScreen, Greater
<1> QED
  BY <1>1, <1>2, <1>3, PTL DEF Spec

-----------------------------------------------------------------------------
(* What is written is marked.                                              *)

(* A region that holds the cells written, and those marked before.         *)
LEMMA WrittenMarked ==
  ASSUME NEW cells, NEW r, Written(cells, r),
         cells \subseteq CellsOf(r), CellsOf(dirtyRegion) \subseteq CellsOf(r)
  PROVE  missed' \subseteq missed
BY DEF Written

(* Cells within the rectangle the region is updated with.                  *)
LEMMA UpdateMarked ==
  ASSUME DrawOK, NEW cells,
         NEW l \in Int, NEW t \in Int, NEW r \in Int, NEW b \in Int,
         cells \subseteq Rectangle(l, t, r, b),
         Written(cells, UpdateRegion(dirtyRegion, l, t, r, b))
  PROVE  missed' \subseteq missed
BY UpdateKeeps, UpdateCovers, WrittenMarked DEF DrawOK

(* The step that scrolls. *)
LEMMA ScrollMarked ==
  ASSUME SizeOK, DrawOK, NEW top \in Int, NEW bottom \in Int, ScrollRegion(top, bottom)
  PROVE  missed' \subseteq missed
<1>1. columns - 1 \in Int
  BY SizeFacts
<1> QED
  BY <1>1, UpdateMarked DEF ScrollRegion, drawVars

(* One that writes in the cursor's line, within what it marks.             *)
LEMMA LineMarked ==
  ASSUME CursorOK, DrawOK, NEW l \in Int, NEW r \in Int, NEW r2 \in Int, r <= r2,
         WriteInLine(l, r, l, r2)
  PROVE  missed' \subseteq missed
<1>1. cursorY \in Int
  BY DEF CursorOK
<1>2. Rectangle(l, cursorY, r, cursorY) \subseteq Rectangle(l, cursorY, r2, cursorY)
  BY <1>1 DEF Rectangle
<1> QED
  BY <1>1, <1>2, UpdateMarked DEF WriteInLine

(* Printing marks the lines it scrolls and then the cell of the character.  *)
LEMMA PrintMarked == ASSUME TypeOK, PrintChar PROVE missed' \subseteq missed
<1> DEFINE wraps   == cursorX >= columns
           x       == IF wraps THEN 0 ELSE cursorX
           y       == IF wraps THEN LineBelow ELSE cursorY
           scrolls == wraps /\ cursorY = scrollBottom /\ CanScroll(scrollTop, scrollBottom)
           before  == IF scrolls
                      THEN UpdateRegion(dirtyRegion, 0, scrollTop, columns - 1, scrollBottom)
                      ELSE dirtyRegion
           moved   == IF scrolls THEN Rectangle(0, scrollTop, columns - 1, scrollBottom) ELSE {}
           fits    == x \in 0 .. columns - 1 /\ y \in 0 .. rows - 1
           after   == IF fits THEN UpdateRegion(before, x, y, x, y) ELSE before
           cells   == IF fits THEN moved \cup {<<x, y>>} ELSE moved
<1>1. Written(cells, after)
  BY DEF PrintChar
<1>2. /\ columns - 1 \in Int /\ scrollTop \in Int /\ scrollBottom \in Int
      /\ x \in Int /\ y \in Int /\ dirtyRegion \in Region
  BY SizeFacts DEF TypeOK, CursorOK, MarginsOK, DrawOK, LineBelow, Lesser
<1>3. /\ before \in Region
      /\ CellsOf(dirtyRegion) \subseteq CellsOf(before) /\ moved \subseteq CellsOf(before)
  <2> HIDE DEF x, y, fits
  <2> QED
    BY <1>2, UpdateType, UpdateKeeps, UpdateCovers
<1>4. CellsOf(before) \subseteq CellsOf(after) /\ (fits => <<x, y>> \in CellsOf(after))
  <2> HIDE DEF x, y, before, fits
  <2>1. <<x, y>> \in Rectangle(x, y, x, y)
    BY <1>2 DEF Rectangle
  <2> QED
    BY <1>2, <1>3, <2>1, UpdateKeeps, UpdateCovers
<1>5. cells \subseteq CellsOf(after) /\ CellsOf(dirtyRegion) \subseteq CellsOf(after)
  <2> HIDE DEF x, y, before, moved, fits, after
  <2> QED
    BY <1>3, <1>4
<1> HIDE DEF cells, after
<1> QED
  BY <1>1, <1>5, WrittenMarked

(* UpdateRegion and every sequence but those of Unmarked: what a sequence  *)
(* writes is in the region that TerminalView redraws.                      *)
THEOREM ChangesMarkedHolds == Spec => ChangesMarked
<1>1. Spec => []TypeOK
  BY EmulatorTypeCorrect
<1>2. TypeOK /\ [Next]_vars => [missed' \subseteq missed \/ Unmarked]_vars
  <2> SUFFICES ASSUME TypeOK, Next, ~Unmarked
               PROVE  missed' \subseteq missed
    OBVIOUS
  <2>0. /\ columns \in Int /\ rows \in Int /\ cursorX \in Int /\ cursorY \in Int
        /\ scrollTop \in Int /\ scrollBottom \in Int
        /\ SizeOK /\ CursorOK /\ DrawOK
    BY SizeFacts DEF TypeOK, CursorOK, MarginsOK
  <2>1. CASE PrintChar
    BY <2>1, PrintMarked
  <2>2. CASE CarriageReturn \/ Tab \/ Backspace \/ RestoreCursor
    BY <2>2 DEF CarriageReturn, Tab, Backspace, RestoreCursor, MoveTo, drawVars
  <2>3. CASE NewLine \/ ReverseIndex \/ Scroll
    BY <2>0, <2>3, ScrollMarked DEF NewLine, ReverseIndex, Scroll, drawVars
  <2>4. CASE InsertOrDeleteLines
    <3>1. Greater(scrollTop, Lesser(cursorY, scrollBottom)) \in Int
      BY <2>0 DEF Greater, Lesser
    <3> QED
      BY <2>0, <2>4, <3>1, ScrollMarked DEF InsertOrDeleteLines
  <2>5. CASE SaveCursor
    BY <2>5 DEF SaveCursor, drawVars
  <2>6. ASSUME NEW n \in Arg,
               CursorUp(n) \/ CursorDown(n) \/ CursorForward(n) \/ CursorBackward(n)
        PROVE  missed' \subseteq missed
    BY <2>6 DEF CursorUp, CursorDown, CursorForward, CursorBackward, MoveTo, drawVars
  <2>7. ASSUME NEW r, NEW c, SetCursorPosition(r, c) \/ SetMargins(r, c)
        PROVE  missed' \subseteq missed
    BY <2>7 DEF SetCursorPosition, SetMargins, MoveTo, drawVars
  <2>8. ASSUME EraseInDisplay(2) PROVE missed' \subseteq missed
    <3>1. Written(Rectangle(0, 0, columns - 1, rows - 1),
                  UpdateRegion(dirtyRegion, 0, 0, columns - 1, rows - 1))
      BY <2>8 DEF EraseInDisplay
    <3>2. columns - 1 \in Int /\ rows - 1 \in Int
      BY <2>0
    <3> QED
      BY <2>0, <3>1, <3>2, UpdateMarked
  <2>9. ASSUME NEW n \in Arg, EraseInLine(n) PROVE missed' \subseteq missed
    <3>1. /\ columns - 1 \in Int /\ Lesser(cursorX, columns - 1) \in Int
          /\ Lesser(cursorX, columns - 1) <= cursorX /\ columns - 1 <= columns - 1
      BY <2>0 DEF Lesser
    <3> QED
      BY <2>0, <2>9, <3>1, LineMarked DEF EraseInLine, drawVars
  <2>10. ASSUME NEW n \in Arg, EraseChars(n) PROVE missed' \subseteq missed
    <3>1. MaxInt \in Int /\ Count(n) \in Int
      BY ConstantsAssumption DEF Count
    <3>2. EndOfErased(Count(n)) - 1 \in Int
      BY <2>0, <3>1 DEF EndOfErased, Wrap, Lesser
    <3>3. EndOfErased(Count(n)) - 1 <= EndOfErased(Count(n)) - 1
      BY <3>2
    <3> QED
      BY <2>0, <2>10, <3>2, <3>3, LineMarked DEF EraseChars, EraseTo, Throws, drawVars
  <2>11. ASSUME NEW size \in Sizes, Resize(size) PROVE missed' \subseteq missed
    BY <2>11 DEF Resize
  <2>12. CASE ClearDirtyRegion
    BY <2>12 DEF ClearDirtyRegion
  <2> QED
    BY <2>1, <2>2, <2>3, <2>4, <2>5, <2>6, <2>7, <2>8, <2>9, <2>10, <2>11, <2>12
    DEF Next, Character, Escape, Sequence, Unmarked
<1> QED
  BY <1>1, <1>2, PTL DEF Spec, ChangesMarked
=============================================================================
