---------------------------- MODULE ConsoleProofs ----------------------------
(***************************************************************************)
(* The console, for screens and formats of any size: the cursor stays      *)
(* where it should, and the screen shows what was printed.  CInv says that *)
(* a scroll is pending exactly when the cursor is behind the screen, so    *)
(* that a turn begins at most at End; TextInv, which rests on it, that the *)
(* text behind the screen is noted before a scroll brings it into view.    *)
(***************************************************************************)
EXTENDS Console, SequenceTheorems, TLAPS

\* The invariant of kprintf: its two properties, one carrying the other.
CInv == ConsoleTypeOK /\ CursorStaysNearScreen

\* The end of the screen is a whole number of lines, one at least, and the memory
\* mapped reaches a line further.
LEMMA ScreenFacts ==
  /\ Columns \in Nat \ {0}
  /\ Mapped \in Nat
  /\ End \in Nat
  /\ Columns <= End
  /\ End + Columns <= Mapped
<1>1. Columns \in Nat \ {0} /\ Rows \in Nat \ {0} /\ Mapped \in Nat
  BY ScreenAssumption
<1>2. End \in Nat
  BY <1>1 DEF End
<1>3. Columns <= End /\ (Rows + 1) * Columns = End + Columns
  BY <1>1, SMT DEF End
<1> QED
  BY <1>1, <1>2, <1>3, ScreenAssumption

\* A line feed moves forward by at most a line, whichever base it counts from.
LEMMA LineFeedBounds ==
  ASSUME NEW v \in Int, NEW position \in Int
  PROVE  LineFeed(v, position) \in v + 1 .. v + Columns
<1>1. Columns \in Nat \ {0}
  BY ScreenFacts
<1>2. v % Columns \in 0 .. Columns - 1 /\ (v - position) % Columns \in 0 .. Columns - 1
  BY <1>1, SMT
<1> QED
  BY <1>1, <1>2 DEF LineFeed

\* The items of a format move the cursor forward or not at all.
LEMMA ItemFacts ==
  ASSUME fmt \in Seq(Items), fmt # <<>>
  PROVE  /\ Item \in Items
         /\ Item.moves \in Nat
         /\ Len(Item.text) \in Nat
         /\ DOMAIN Item.text = 1 .. Len(Item.text)
         /\ Tail(fmt) \in Seq(Items)
<1>1. Item \in Items /\ Tail(fmt) \in Seq(Items)
  BY DEF Item
<1>2. Item.text \in Seq(STRING) /\ Item.moves \in Nat
  BY <1>1, FormatsAssumption
<1>3. Len(Item.text) \in Nat /\ DOMAIN Item.text = 1 .. Len(Item.text)
  BY <1>2, LenProperties
<1> QED
  BY <1>1, <1>2, <1>3

\* A turn of the loop keeps the invariant.
LEMMA TurnKeepsCInv == ASSUME CInv, Turn PROVE CInv'
<1> DEFINE v == IF scrollForNextCall THEN video - Columns ELSE video
           position == IF scrollForNextCall THEN videoCardPosition - Columns
                                            ELSE videoCardPosition
<1>1. /\ calling /\ ~faulted /\ calling'
      /\ scrollForNextCall \in BOOLEAN
      /\ video \in Nat /\ videoCardPosition \in Int
      /\ fmt \in Seq(Items) /\ fmt # <<>>
      /\ scrollForNextCall <=> video >= End
      /\ "long" \notin printed => video <= End + Columns
  BY DEF CInv, ConsoleTypeOK, CursorStaysNearScreen, Cursor, Turn
<1>2. /\ Item.moves \in Nat
      /\ Len(Item.text) \in Nat
      /\ Tail(fmt) \in Seq(Items)
  BY <1>1, ItemFacts
<1>3. /\ videoCardPosition' = position
      /\ video' = IF Item.kind = "newline" THEN LineFeed(v, position) ELSE v + Item.moves
      /\ scrollForNextCall' = Outside(video')
      /\ faulted' = (v + Len(Item.text) > Mapped)
      /\ fmt' = Tail(fmt)
      /\ printed' = printed \union {Item.kind} \union (IF Long(Item) THEN {"long"} ELSE {})
  BY DEF Turn, Follow, Cursors
<1>4. v \in Nat /\ position \in Int
  BY <1>1, ScreenFacts
<1>5. "long" \notin printed => v <= End
  BY <1>1, ScreenFacts
<1> HIDE DEF v, position
<1>6. LineFeed(v, position) \in v + 1 .. v + Columns
  <2>1. v \in Int
    BY <1>4
  <2> QED
    BY <2>1, <1>4, LineFeedBounds
<1>7. video' \in Nat
  BY <1>2, <1>3, <1>4, <1>6, ScreenFacts
<1>8. scrollForNextCall' \in BOOLEAN /\ (scrollForNextCall' <=> video' >= End)
  <2>1. scrollForNextCall' = (video' >= End)
    BY <1>3, Zenon DEF Outside
  <2>2. (video' >= End) \in BOOLEAN
    BY <1>7, ScreenFacts
  <2> QED
    BY <2>1, <2>2, Zenon
<1>9. ConsoleTypeOK'
  BY <1>1, <1>2, <1>3, <1>4, <1>7, <1>8 DEF ConsoleTypeOK, Cursor
<1>10. ASSUME "long" \notin printed'
      PROVE  video' <= End + Columns /\ ~faulted'
  <2>1. "long" \notin printed /\ ~Long(Item)
    BY <1>3, <1>10
  <2>2. Item.moves <= Columns /\ Len(Item.text) <= Columns
    BY <2>1, <1>2, ScreenFacts DEF Long
  <2>3. v <= End
    BY <2>1, <1>5
  <2>4. v + Item.moves <= End + Columns /\ v + Len(Item.text) <= Mapped
    BY <2>2, <2>3, <1>2, <1>4, ScreenFacts
  <2>5. LineFeed(v, position) <= End + Columns
    BY <2>3, <1>4, <1>6, ScreenFacts
  <2>6. video' <= End + Columns
    BY <2>4, <2>5, <1>3
  <2>7. ~(v + Len(Item.text) > Mapped)
    BY <2>4, <1>2, <1>4, ScreenFacts
  <2>8. ~faulted'
    BY <2>7, <1>3, Zenon
  <2> QED
    BY <2>6, <2>8
<1>11. CursorStaysNearScreen'
  BY <1>1, <1>10 DEF CursorStaysNearScreen, Cursor
<1> QED
  BY <1>9, <1>11 DEF CInv

\* Every step keeps it: calls and returns only hand the cursor over.
LEMMA StepKeepsCInv == ASSUME CInv, [ConsoleNext]_vars PROVE CInv'
<1> USE DEF CInv, ConsoleTypeOK, CursorStaysNearScreen, Cursor
<1>1. ASSUME NEW format \in Formats, Call(format) PROVE CInv'
  <2>1. format \in Seq(Items)
    BY FormatsAssumption
  <2> QED
    BY <1>1, <2>1 DEF Call, history
<1>2. CASE Turn
  BY <1>2, TurnKeepsCInv
<1>3. CASE Return
  <2>1. scrollForNextCall <=> video >= End
    BY <1>3 DEF Return
  <2>2. scrollForNextCall' <=> video >= End
    BY <2>1, <1>3 DEF Return, Outside
  <2> QED
    BY <2>2, <1>3 DEF Return, history
<1>4. CASE UNCHANGED vars
  BY <1>4 DEF vars, history
<1> QED
  BY <1>1, <1>2, <1>3, <1>4 DEF ConsoleNext, kprintf

\* The console begins with the cursor at the start of an empty screen.
LEMMA InitCInv == ConsoleInit => CInv
<1> SUFFICES ASSUME ConsoleInit PROVE CInv
  OBVIOUS
<1>1. fmt \in Seq(Items) /\ Cursor = 0 /\ video = 0 /\ videoCardPosition = 0 /\ printed = {}
  BY DEF ConsoleInit, Cursor
<1>2. calling \in BOOLEAN /\ scrollForNextCall = FALSE /\ faulted = FALSE
  BY Zenon DEF ConsoleInit
<1>3. ~(Cursor >= End) /\ Cursor <= End + Columns
  BY <1>1, ScreenFacts
<1>4. video \in Int /\ videoCardPosition \in Int /\ Cursor \in Nat
  BY <1>1
<1>5. scrollForNextCall \in BOOLEAN /\ (scrollForNextCall <=> Cursor >= End)
  BY <1>2, <1>3, Zenon
<1>6. ConsoleTypeOK
  BY <1>1, <1>2, <1>4, <1>5, Zenon DEF ConsoleTypeOK
<1>7. CursorStaysNearScreen
  BY <1>2, <1>3, Zenon DEF CursorStaysNearScreen
<1> QED
  BY <1>6, <1>7 DEF CInv

\* The invariant of kprintf holds in every reachable state.
THEOREM ConsoleInvariant == ConsoleSpec => []CInv
  BY InitCInv, StepKeepsCInv, PTL DEF ConsoleSpec

\* A scroll is pending exactly when the cursor is behind the screen, and no scroll
\* takes the cursor above it.
THEOREM ConsoleTypeCorrect == ConsoleSpec => []ConsoleTypeOK
<1>1. CInv => ConsoleTypeOK
  BY DEF CInv
<1> QED
  BY <1>1, ConsoleInvariant, PTL

\* Whatever is printed, in calls of any length, as long as no single item is longer
\* than a line kprintf stays within a line of the screen and on mapped memory.
THEOREM ConsoleCursorStaysNear == ConsoleSpec => []CursorStaysNearScreen
<1>1. CInv => CursorStaysNearScreen
  BY DEF CInv
<1> QED
  BY <1>1, ConsoleInvariant, PTL
-----------------------------------------------------------------------------
(* What the screen shows *)

\* What is printed behind the screen is noted in spilled, so that what a scroll
\* brings into view is a blank or was noted.
HiddenTextIsSpilled ==
  \A place \in DOMAIN text : place >= End + top * Columns => place \in spilled

Shown(cell) ==
  LET place == cell + top * Columns
  IN  \/ place \in spilled
      \/ screen[cell] = IF place \in DOMAIN text THEN text[place] ELSE Blank

Plain == {"newline", "character"}

\* The invariant of the text: the screen shows it, and plain text, which leaves the
\* cursor at most right behind the screen, spills nowhere.
TextInv ==
  /\ DOMAIN screen = Cells
  /\ DOMAIN text \subseteq Nat
  /\ top \in Nat
  /\ at \in Nat
  /\ at = Cursor + top * Columns
  /\ \A cell \in 0 .. End - 1 : Shown(cell)
  /\ HiddenTextIsSpilled
  /\ printed \subseteq Plain => spilled = {} /\ Cursor <= End

\* Division is what it should be: a number between two multiples of n has the
\* lower one's quotient.
LEMMA QuotientIsUnique ==
  ASSUME NEW n \in Nat \ {0}, NEW a \in Int, NEW q \in Int, q * n <= a, a < (q + 1) * n
  PROVE  a \div n = q
<1> DEFINE d == a \div n
           r == a % n
<1>1. d \in Int /\ r \in 0 .. n - 1 /\ a = n * d + r
  BY SMT
<1> HIDE DEF d, r
<1>2. d * n <= a /\ a < (d + 1) * n
  BY <1>1, SMT
<1>3. d < q + 1
  <2>1. SUFFICES ASSUME d >= q + 1 PROVE FALSE
    BY <1>1
  <2>2. d * n >= (q + 1) * n
    BY <1>1, <2>1, SMT
  <2> QED
    BY <1>1, <1>2, <2>2, SMT
<1>4. q < d + 1
  <2>1. SUFFICES ASSUME q >= d + 1 PROVE FALSE
    BY <1>1
  <2>2. q * n >= (d + 1) * n
    BY <1>1, <2>1, SMT
  <2> QED
    BY <1>1, <1>2, <2>2, SMT
<1>5. d = q
  BY <1>1, <1>3, <1>4
<1> QED
  BY <1>5 DEF d

\* A shift by whole lines moves the line and keeps the column.
LEMMA ShiftByLines ==
  ASSUME NEW v \in Int, NEW k \in Int
  PROVE  /\ (v + k * Columns) \div Columns = v \div Columns + k
         /\ (v + k * Columns) % Columns = v % Columns
<1> DEFINE d == v \div Columns
           r == v % Columns
           w == v + k * Columns
<1>1. Columns \in Nat \ {0}
  BY ScreenFacts
<1>2. d \in Int /\ r \in 0 .. Columns - 1 /\ v = Columns * d + r
  BY <1>1, SMT
<1> HIDE DEF d, r
<1>3. w = (d + k) * Columns + r /\ w \in Int
  BY <1>1, <1>2, SMT
<1>4. (d + k) * Columns <= w /\ w < (d + k + 1) * Columns
  BY <1>1, <1>2, <1>3, SMT
<1> HIDE DEF w
<1>5. w \div Columns = d + k
  BY <1>1, <1>2, <1>3, <1>4, QuotientIsUnique
<1>6. w % Columns = r
  <2>1. w = Columns * (w \div Columns) + (w % Columns)
    BY <1>1, <1>3, SMT
  <2>2. w % Columns \in Int
    BY <1>1, <1>3, SMT
  <2> QED
    BY <1>1, <1>2, <1>3, <1>5, <2>1, <2>2, SMT
<1> QED
  BY <1>5, <1>6 DEF d, r, w

\* Whichever base it counts from, a line feed goes to the start of the next line.
LEMMA LineFeedGoesToTheNextLine ==
  ASSUME NEW v \in Int, NEW position \in Int
  PROVE  LineFeed(v, position) = (v \div Columns + 1) * Columns
<1> DEFINE d == v \div Columns
           r == v % Columns
           b == position \div Columns
<1>1. Columns \in Nat \ {0}
  BY ScreenFacts
<1>2. d \in Int /\ r \in 0 .. Columns - 1 /\ v = Columns * d + r
  BY <1>1, SMT
<1>3. v + (Columns - r) = (d + 1) * Columns
  <2> HIDE DEF d, r
  <2> QED
    BY <1>1, <1>2, SMT
<1>4. CASE position % Columns # 0
  BY <1>3, <1>4 DEF LineFeed
<1>5. CASE position % Columns = 0
  <2>1. b \in Int /\ position = b * Columns
    BY <1>1, <1>5, SMT
  <2> HIDE DEF b
  <2>2. v - position = v + (-b) * Columns /\ -b \in Int
    BY <1>1, <2>1, SMT
  <2>3. (v - position) % Columns = r
    BY <2>2, ShiftByLines
  <2> QED
    BY <1>3, <1>5, <2>3 DEF LineFeed
<1> QED
  BY <1>4, <1>5

\* A format's items are what the functions that print them make.
LEMMA ItemShapes ==
  ASSUME fmt \in Seq(Items), fmt # <<>>
  PROVE  /\ Item.kind \in Kinds
         /\ Item.kind = "newline" => Len(Item.text) = 0
         /\ Item.kind = "character" => Len(Item.text) = 1 /\ Item.moves = 1
<1>1. Item \in Items
  BY ItemFacts
<1> QED
  BY <1>1, FormatsAssumption

\* The cursor and the end of the text move together: a line of the screen is a line
\* of the text, shifted by the lines that have left.
LEMMA CursorFollowsText ==
  ASSUME NEW v \in Int, NEW position \in Int, NEW lines \in Int
  PROVE  ((v + lines * Columns) \div Columns + 1) * Columns
           = LineFeed(v, position) + lines * Columns
<1> DEFINE d == v \div Columns
<1>1. Columns \in Nat \ {0} /\ d \in Int
  BY ScreenFacts, SMT
<1>2. (v + lines * Columns) \div Columns = d + lines
  BY ShiftByLines
<1>3. LineFeed(v, position) = (d + 1) * Columns
  BY LineFeedGoesToTheNextLine
<1> HIDE DEF d
<1>4. (d + lines + 1) * Columns = (d + 1) * Columns + lines * Columns
  BY <1>1, <1>2, SMT
<1> QED
  BY <1>2, <1>3, <1>4

\* From a place on the screen a line feed goes to the end of the screen at most.
LEMMA LineFeedStaysOnScreen ==
  ASSUME NEW v \in Nat, NEW position \in Int, v < End
  PROVE  LineFeed(v, position) <= End
<1> DEFINE d == v \div Columns
<1>1. Columns \in Nat \ {0} /\ Rows \in Nat
  BY ScreenAssumption
<1>2. d \in Int /\ d * Columns <= v
  <2>1. v % Columns \in 0 .. Columns - 1 /\ v = Columns * d + (v % Columns) /\ d \in Int
    BY <1>1, SMT
  <2> HIDE DEF d
  <2> QED
    BY <1>1, <2>1, SMT
<1>3. LineFeed(v, position) = (d + 1) * Columns
  BY LineFeedGoesToTheNextLine
<1> HIDE DEF d
<1>4. d < Rows
  <2>1. SUFFICES ASSUME d >= Rows PROVE FALSE
    BY <1>1, <1>2
  <2>2. d * Columns >= Rows * Columns
    BY <1>1, <1>2, <2>1, SMT
  <2> QED
    BY <1>1, <1>2, <2>2, SMT DEF End
<1>5. (d + 1) * Columns <= Rows * Columns
  BY <1>1, <1>2, <1>4, SMT
<1> QED
  BY <1>3, <1>5 DEF End

\* The lines on the screen and those that have left are counted in whole columns.
LEMMA OneMoreLine ==
  ASSUME NEW lines \in Nat
  PROVE  lines * Columns \in Nat /\ (lines + 1) * Columns = lines * Columns + Columns
<1>1. Columns \in Nat
  BY ScreenFacts
<1> QED
  BY <1>1, SMT

\* A scroll, if one is pending, before the turn writes: the shifted screen shows the
\* text from one line further on.
LEMMA ScrollShowsText ==
  ASSUME CInv, TextInv, calling,
         NEW cells, cells = (IF scrollForNextCall THEN scroll ELSE screen),
         NEW lines, lines = (IF scrollForNextCall THEN top + 1 ELSE top),
         NEW v, v = (IF scrollForNextCall THEN video - Columns ELSE video)
  PROVE  /\ DOMAIN cells = Cells
         /\ lines \in Nat
         /\ v \in Nat
         /\ at = v + lines * Columns
         /\ \A cell \in 0 .. End - 1 :
              LET place == cell + lines * Columns
              IN  \/ place \in spilled
                  \/ cells[cell] = IF place \in DOMAIN text THEN text[place] ELSE Blank
         /\ \A place \in DOMAIN text : place >= End + lines * Columns => place \in spilled
         /\ printed \subseteq Plain => v < End
<1>1. /\ scrollForNextCall \in BOOLEAN /\ video \in Nat /\ top \in Nat /\ at \in Nat
      /\ scrollForNextCall <=> video >= End
      /\ at = video + top * Columns
      /\ printed \subseteq Plain => video <= End
      /\ DOMAIN screen = Cells /\ DOMAIN text \subseteq Nat
  BY DEF CInv, ConsoleTypeOK, Cursor, TextInv
<1>2. /\ top * Columns \in Nat
      /\ (top + 1) * Columns = top * Columns + Columns
  BY <1>1, OneMoreLine
<1> DEFINE shift == top * Columns
<1>3. CASE ~scrollForNextCall
  <2>1. cells = screen /\ lines = top /\ v = video
    BY <1>3
  <2>2. v < End
    BY <1>1, <1>3, <2>1, ScreenFacts
  <2> QED
    BY <1>1, <1>3, <2>1, <2>2 DEF TextInv, Shown, HiddenTextIsSpilled
<1>4. CASE scrollForNextCall
  <2>1. cells = scroll /\ lines = top + 1 /\ v = video - Columns
    BY <1>4
  <2>2. DOMAIN cells = Cells /\ lines \in Nat /\ v \in Nat
    BY <1>1, <1>4, <2>1, ScreenFacts DEF scroll
  <2>3. lines * Columns = shift + Columns /\ shift \in Nat
    BY <1>2, <2>1
  <2>4. at = v + lines * Columns
    <3> HIDE DEF shift
    <3>1. at = video + shift
      BY <1>1 DEF shift
    <3> QED
      BY <1>1, <2>1, <2>3, <3>1, ScreenFacts
  <2>5. ASSUME NEW cell \in 0 .. End - 1
        PROVE  LET place == cell + lines * Columns
               IN  \/ place \in spilled
                   \/ cells[cell] = IF place \in DOMAIN text THEN text[place] ELSE Blank
    <3> DEFINE place == cell + lines * Columns
    <3>1. cell \in Int /\ cell + Columns \in Int /\ place = cell + Columns + shift
      BY <2>3, ScreenFacts
    <3>2. cell \in Cells
      BY ScreenFacts DEF Cells
    <3>3. CASE cell < End - Columns
      <4>1. cell + Columns \in 0 .. End - 1
        BY <3>1, <3>3, ScreenFacts
      <4>2. cells[cell] = screen[cell + Columns]
        BY <2>1, <3>2, <3>3 DEF scroll
      <4>3. Shown(cell + Columns)
        BY <4>1 DEF TextInv
      <4> HIDE DEF place
      <4> QED
        BY <3>1, <4>2, <4>3 DEF Shown, shift, place
    <3>4. CASE ~(cell < End - Columns)
      <4>1. cells[cell] = Blank
        BY <2>1, <3>1, <3>2, <3>4, ScreenFacts DEF scroll
      <4>2. place >= End + shift
        <5> HIDE DEF shift
        <5> QED
          BY <2>3, <3>1, <3>4, ScreenFacts
      <4>3. place \in DOMAIN text => place \in spilled
        BY <4>2 DEF TextInv, HiddenTextIsSpilled, shift
      <4> QED
        BY <4>1, <4>3
    <3> QED
      BY <3>3, <3>4
  <2>6. ASSUME NEW place \in DOMAIN text, place >= End + lines * Columns
        PROVE  place \in spilled
    <3> HIDE DEF shift
    <3>1. place \in Nat
      BY <1>1
    <3>2. place >= End + shift
      BY <2>3, <2>6, <3>1, ScreenFacts
    <3> QED
      BY <3>2 DEF TextInv, HiddenTextIsSpilled, shift
  <2>7. printed \subseteq Plain => v < End
    BY <1>1, <2>1, ScreenFacts
  <2> QED
    BY <2>2, <2>4, <2>5, <2>6, <2>7
<1> QED
  BY <1>1, <1>3, <1>4

\* A turn writes the same text at the cursor and at the end of the page, and notes
\* what of it lies behind the screen.
LEMMA TurnKeepsTextInv == ASSUME CInv, TextInv, Turn PROVE TextInv'
<1> DEFINE cells == IF scrollForNextCall THEN scroll ELSE screen
           lines == IF scrollForNextCall THEN top + 1 ELSE top
           v == IF scrollForNextCall THEN video - Columns ELSE video
           position == IF scrollForNextCall THEN videoCardPosition - Columns
                                            ELSE videoCardPosition
           n == Len(Item.text)
           shift == lines * Columns
           added == {at + k - 1 : k \in {j \in DOMAIN Item.text : v + j - 1 >= End}}
<1>1. /\ calling /\ calling' /\ fmt # <<>> /\ fmt \in Seq(Items)
      /\ videoCardPosition \in Int /\ position \in Int
  BY ScreenFacts DEF CInv, ConsoleTypeOK, Turn
<1>2. /\ DOMAIN cells = Cells
      /\ lines \in Nat
      /\ v \in Nat
      /\ at = v + shift
      /\ \A cell \in 0 .. End - 1 :
           LET place == cell + shift
           IN  \/ place \in spilled
               \/ cells[cell] = IF place \in DOMAIN text THEN text[place] ELSE Blank
      /\ \A place \in DOMAIN text : place >= End + shift => place \in spilled
      /\ printed \subseteq Plain => v < End
  <2> HIDE DEF cells, lines, v
  <2>1. /\ cells = (IF scrollForNextCall THEN scroll ELSE screen)
        /\ lines = (IF scrollForNextCall THEN top + 1 ELSE top)
        /\ v = (IF scrollForNextCall THEN video - Columns ELSE video)
    BY DEF cells, lines, v
  <2> QED
    BY <1>1, <2>1, ScrollShowsText
<1>3. /\ Item.moves \in Nat /\ n \in Nat
      /\ Item.kind \in Kinds
      /\ Item.kind = "newline" => n = 0
      /\ Item.kind = "character" => n = 1 /\ Item.moves = 1
      /\ DOMAIN Item.text = 1 .. n
  BY <1>1, ItemFacts, ItemShapes
<1>4. /\ screen' = Write(cells, v)
      /\ video' = IF Item.kind = "newline" THEN LineFeed(v, position) ELSE v + Item.moves
      /\ top' = lines
      /\ spilled' = spilled \union added
      /\ at' = IF Item.kind = "newline" THEN (at \div Columns + 1) * Columns ELSE at + Item.moves
      /\ text' = [cell \in DOMAIN text \union (at .. at + n - 1) |->
                    IF cell >= at /\ cell < at + n THEN Item.text[cell - at + 1] ELSE text[cell]]
      /\ printed \subseteq printed' /\ Item.kind \in printed'
  BY DEF Turn, Follow, Cursors
<1>5. shift \in Nat
  BY <1>2, OneMoreLine
<1>6. \A k \in Int : k \in added <=> k \in at .. at + n - 1 /\ k >= End + shift
  <2> HIDE DEF v, shift, n
  <2>1. ASSUME NEW k \in Int, k \in added
        PROVE  k \in at .. at + n - 1 /\ k >= End + shift
    <3>1. PICK j \in 1 .. n : v + j - 1 >= End /\ k = at + j - 1
      BY <1>3, <2>1
    <3> QED
      BY <1>2, <1>3, <1>5, <3>1, ScreenFacts
  <2>2. ASSUME NEW k \in at .. at + n - 1, k >= End + shift
        PROVE  k \in added
    <3>1. /\ k - at + 1 \in 1 .. n
          /\ v + (k - at + 1) - 1 >= End
          /\ k = at + (k - at + 1) - 1
      BY <1>2, <1>3, <1>5, <2>2, ScreenFacts
    <3> QED
      BY <1>3, <3>1
  <2> QED
    BY <2>1, <2>2
<1> HIDE DEF cells, lines, v, position, n, shift, added
<1>7. /\ at \in Nat
      /\ DOMAIN text \subseteq Nat
      /\ DOMAIN text' = DOMAIN text \union (at .. at + n - 1)
      /\ \A place \in at .. at + n - 1 : text'[place] = Item.text[place - at + 1]
      /\ \A place \in DOMAIN text : place \notin at .. at + n - 1 => text'[place] = text[place]
  <2>1. at \in Nat /\ DOMAIN text \subseteq Nat
    BY DEF TextInv
  <2>2. \A place \in at .. at + n - 1 : place >= at /\ place < at + n
    BY <1>3, <2>1
  <2>3. \A place \in DOMAIN text :
          place \notin at .. at + n - 1 => ~(place >= at /\ place < at + n)
    BY <1>3, <2>1
  <2> QED
    BY <1>4, <2>1, <2>2, <2>3
<1>8. /\ DOMAIN screen' = Cells
      /\ \A cell \in Cells :
           screen'[cell] = IF cell \in v .. v + n - 1 THEN Item.text[cell - v + 1] ELSE cells[cell]
  BY <1>2, <1>4 DEF Write, n
<1>9. ASSUME NEW cell \in 0 .. End - 1 PROVE Shown(cell)'
  <2> DEFINE place == cell + shift
  <2>1. place \in Nat /\ cell \in Nat /\ cell \in Cells
    BY <1>5, ScreenFacts DEF Cells
  <2>2. cell + (top * Columns)' = place
    BY <1>4 DEF shift
  <2> HIDE DEF place
  <2>3. CASE cell \in v .. v + n - 1
    <3>1. place \in at .. at + n - 1 /\ place - at + 1 = cell - v + 1
      BY <1>2, <1>3, <1>5, <2>1, <2>3 DEF place
    <3>2. screen'[cell] = Item.text[cell - v + 1]
      BY <1>8, <2>1, <2>3
    <3>3. place \in DOMAIN text' /\ text'[place] = Item.text[cell - v + 1]
      BY <1>7, <3>1
    <3> QED
      BY <2>2, <3>2, <3>3 DEF Shown
  <2>4. CASE cell \notin v .. v + n - 1
    <3>1. place \notin at .. at + n - 1
      BY <1>2, <1>3, <1>5, <2>1, <2>4 DEF place
    <3>2. screen'[cell] = cells[cell]
      BY <1>8, <2>1, <2>4
    <3>3. \/ place \in spilled
          \/ cells[cell] = IF place \in DOMAIN text THEN text[place] ELSE Blank
      BY <1>2 DEF place
    <3>4. (place \in DOMAIN text' <=> place \in DOMAIN text)
          /\ (place \in DOMAIN text => text'[place] = text[place])
      BY <1>7, <3>1
    <3> QED
      BY <1>4, <2>2, <3>2, <3>3, <3>4 DEF Shown
  <2> QED
    BY <2>3, <2>4
<1>10. HiddenTextIsSpilled'
  <2>1. End' = End /\ (top * Columns)' = shift
    BY <1>4 DEF End, shift
  <2> SUFFICES ASSUME NEW place \in DOMAIN text', place >= End + shift
               PROVE  place \in spilled'
    BY <2>1 DEF HiddenTextIsSpilled
  <2>2. place \in Int
    BY <1>3, <1>7
  <2>3. CASE place \in DOMAIN text
    BY <1>2, <1>4, <2>3
  <2>4. CASE place \in at .. at + n - 1
    BY <1>4, <1>6, <2>2, <2>4
  <2> QED
    BY <1>7, <2>3, <2>4
<1>11. at' = Cursor' + (top * Columns)'
  <2>1. Cursor' = video' /\ (top * Columns)' = shift
    BY <1>1, <1>4 DEF Cursor, shift
  <2>2. CASE Item.kind = "newline"
    <3>1. at = v + lines * Columns
      BY <1>2 DEF shift
    <3>2. at' = ((v + lines * Columns) \div Columns + 1) * Columns
      BY <1>4, <2>2, <3>1
    <3>3. ((v + lines * Columns) \div Columns + 1) * Columns
            = LineFeed(v, position) + lines * Columns
      BY <1>1, <1>2, CursorFollowsText
    <3> QED
      BY <1>4, <2>1, <2>2, <3>2, <3>3 DEF shift
  <2>3. CASE Item.kind # "newline"
    BY <1>2, <1>3, <1>4, <1>5, <2>1, <2>3
  <2> QED
    BY <2>2, <2>3
<1>12. video' \in Nat
  <2>1. CInv'
    BY TurnKeepsCInv
  <2> QED
    BY <1>1, <2>1 DEF CInv, ConsoleTypeOK, Cursor
<1>13. at' \in Nat /\ top' \in Nat
  <2>1. at' = video' + shift
    BY <1>1, <1>4, <1>11 DEF Cursor, shift
  <2> QED
    BY <1>2, <1>4, <1>5, <1>12, <2>1
<1>14. DOMAIN text' \subseteq Nat
  BY <1>3, <1>7
<1>15. ASSUME printed' \subseteq Plain PROVE spilled' = {} /\ Cursor' <= End
  <2>1. printed \subseteq Plain /\ Item.kind \in Plain
    BY <1>4, <1>15
  <2>2. v < End /\ spilled = {}
    BY <1>2, <2>1 DEF TextInv
  <2>3. CASE Item.kind = "newline"
    <3>1. \A k \in Int : k \notin added
      BY <1>3, <1>6, <1>7, <2>3
    <3>2. added \subseteq Int
      BY <1>3, <1>7 DEF added
    <3>3. LineFeed(v, position) <= End
      BY <1>1, <1>2, <2>2, LineFeedStaysOnScreen
    <3> QED
      BY <1>1, <1>4, <2>2, <2>3, <3>1, <3>2, <3>3 DEF Cursor
  <2>4. CASE Item.kind = "character"
    <3>1. n = 1 /\ video' = v + 1
      BY <1>3, <1>4, <2>4
    <3>2. \A k \in Int : k \notin added
      BY <1>2, <1>5, <1>6, <1>7, <2>2, <3>1, ScreenFacts
    <3>3. added \subseteq Int
      BY <1>3, <1>7 DEF added
    <3>4. video' <= End
      BY <1>2, <2>2, <3>1, ScreenFacts
    <3> QED
      BY <1>1, <1>4, <2>2, <3>2, <3>3, <3>4 DEF Cursor
  <2> QED
    BY <2>1, <2>3, <2>4 DEF Plain
<1>16. End' = End
  BY DEF End
<1> QED
  BY <1>8, <1>9, <1>10, <1>11, <1>13, <1>14, <1>15, <1>16 DEF TextInv, Cells

\* Calls and returns leave the screen and the page alone, and hand over the cursor.
LEMMA StepKeepsTextInv ==
  ASSUME CInv, TextInv, [ConsoleNext]_vars
  PROVE  TextInv'
<1>1. CASE Turn
  BY <1>1, TurnKeepsTextInv
<1>2. ASSUME UNCHANGED <<screen, top, history>>, Cursor' = Cursor
      PROVE  TextInv'
  <2> USE DEF history
  <2>1. (\A cell \in 0 .. End - 1 : Shown(cell)) => (\A cell \in 0 .. End - 1 : Shown(cell))'
    BY <1>2 DEF Shown, End
  <2>2. HiddenTextIsSpilled => HiddenTextIsSpilled'
    BY <1>2 DEF HiddenTextIsSpilled, End
  <2> QED
    BY <1>2, <2>1, <2>2 DEF TextInv, End, Cells
<1>3. CASE \E format \in Formats : Call(format)
  <2>1. UNCHANGED <<screen, top, history>> /\ Cursor' = Cursor
    BY <1>3 DEF Call, Cursor
  <2> QED
    BY <1>2, <2>1
<1>4. CASE Return
  <2>1. UNCHANGED <<screen, top, history>> /\ Cursor' = Cursor
    BY <1>4 DEF Return, Cursor
  <2> QED
    BY <1>2, <2>1
<1>5. CASE UNCHANGED vars
  <2>1. UNCHANGED <<screen, top, history>> /\ Cursor' = Cursor
    BY <1>5 DEF vars, Cursor
  <2> QED
    BY <1>2, <2>1
<1> QED
  BY <1>1, <1>3, <1>4, <1>5 DEF ConsoleNext, kprintf

\* An empty screen shows an empty page.
LEMMA InitTextInv == ConsoleInit => TextInv
<1> SUFFICES ASSUME ConsoleInit PROVE TextInv
  OBVIOUS
<1>1. /\ Cursor = 0 /\ top = 0 /\ at = 0 /\ spilled = {}
      /\ DOMAIN text = {}
      /\ screen = [cell \in Cells |-> Blank]
  BY DEF ConsoleInit, initScreen, Cursor
<1>2. at = Cursor + top * Columns /\ Cursor <= End
  BY <1>1, ScreenFacts
<1>3. ASSUME NEW cell \in 0 .. End - 1 PROVE Shown(cell)
  <2>1. cell \in Cells
    BY ScreenFacts DEF Cells
  <2> QED
    BY <1>1, <2>1 DEF Shown
<1> QED
  BY <1>1, <1>2, <1>3 DEF TextInv, HiddenTextIsSpilled

\* The invariant of the text holds in every reachable state.
THEOREM ConsoleTextInvariant == ConsoleSpec => []TextInv
<1>1. ConsoleInit => CInv /\ TextInv
  BY InitCInv, InitTextInv
<1>2. CInv /\ TextInv /\ [ConsoleNext]_vars => CInv' /\ TextInv'
  BY StepKeepsCInv, StepKeepsTextInv
<1> QED
  BY <1>1, <1>2, PTL DEF ConsoleSpec

\* However calls, line ends and scrolls follow each other, the cursor stands where
\* the text ends and each cell of the screen shows what was printed there.
THEOREM ConsoleScreenShowsText == ConsoleSpec => []ScreenShowsText
<1>1. TextInv => ScreenShowsText
  BY DEF TextInv, Shown, ScreenShowsText
<1> QED
  BY <1>1, ConsoleTextInvariant, PTL

\* Characters and line ends by themselves never run over the end of the screen.
THEOREM ConsoleKeepsPlainText == ConsoleSpec => []PlainTextIsKept
<1>1. TextInv => PlainTextIsKept
  BY DEF TextInv, Plain, PlainTextIsKept
<1> QED
  BY <1>1, ConsoleTextInvariant, PTL
=============================================================================
