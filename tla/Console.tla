------------------------------- MODULE Console -------------------------------
(***************************************************************************)
(* The text console of SBUnix (sys/kprintf.c).  kprintf writes at a local  *)
(* copy of the cursor, video, one conversion or character in each turn of  *)
(* its loop, and puts the copy back at its end.  A turn that leaves the    *)
(* cursor behind the screen asks the next turn, perhaps of the next call,  *)
(* to scroll.                                                              *)
(*                                                                         *)
(* Positions count cells, of two bytes, from videoCardStart.  The model is *)
(* of kprintf with interrupts off, as in system calls and in the keyboard  *)
(* interrupt: calls do not overlap.                                        *)
(***************************************************************************)
EXTENDS Integers, Sequences

CONSTANTS
  Columns, Rows,  \* 80 and 25
  Mapped,         \* the cells that are mapped, 4096: two pages
  Formats,        \* the formats kprintf is called with, their arguments in place
  MaxCalls        \* bound on the calls

ASSUME ScreenAssumption ==
  /\ Columns \in Nat \ {0}
  /\ Rows \in Nat \ {0}
  /\ Mapped \in Nat
  /\ (Rows + 1) * Columns <= Mapped
  /\ MaxCalls \in Nat

End == Rows * Columns     \* videoCardEnd
Blank == " "

-----------------------------------------------------------------------------
(* Formats *)

\* An item is what one turn of the loop prints: the text it writes and how many
\* cells it says it wrote.
NewLine == [kind |-> "newline", text |-> <<>>, moves |-> 0]
Character(c) == [kind |-> "character", text |-> <<c>>, moves |-> 1]   \* also %c
String(text) == [kind |-> "conversion", text |-> text, moves |-> Len(text)]

Digit == <<"0", "1", "2", "3", "4", "5", "6", "7", "8", "9", "a", "b", "c", "d", "e", "f">>
Digits[n \in Nat] == IF n = 0 THEN <<>> ELSE Append(Digits[n \div 10], Digit[(n % 10) + 1])
HexDigits[n \in Nat] ==
  IF n = 0 THEN <<>> ELSE Append(HexDigits[n \div 16], Digit[(n % 16) + 1])

\* What printInt writes and how far it says it got: not past a lone 0, and one
\* cell short after a sign.
printInt(num) ==
  LET digits == Digits[IF num < 0 THEN -num ELSE num]
  IN  [kind |-> "conversion", moves |-> Len(digits),
       text |-> IF num = 0 THEN <<"0">> ELSE IF num < 0 THEN <<"-">> \o digits ELSE digits]

printHex(num) == String(HexDigits[num])           \* nothing at all for 0
printPointer(num) == String(<<"0", "x">> \o HexDigits[num])

Items == UNION {{format[k] : k \in DOMAIN format} : format \in Formats}
Kinds == {"newline", "character", "conversion"}
ASSUME FormatsAssumption ==
  /\ \A format \in Formats : format \in Seq(Items)
  /\ \A item \in Items :
       /\ item.kind \in Kinds /\ item.text \in Seq(STRING) /\ item.moves \in Nat
       /\ item.kind = "newline" => Len(item.text) = 0
       /\ item.kind = "character" => Len(item.text) = 1 /\ item.moves = 1

-----------------------------------------------------------------------------
VARIABLES
  screen,             \* the mapped cells
  videoCardPosition,
  scrollForNextCall,
  calling,            \* a kprintf is under way
  video, fmt,         \* its locals
  calls,
  faulted,            \* kprintf has written behind the mapped cells
  top,                \* history: the lines that have left the screen
  at, text,           \* history: an endless page, and where its text ends
  spilled,            \* history: the cells of it written behind the screen
  printed             \* history: the kinds of items printed so far

history == <<at, text, spilled, printed>>
vars == <<screen, videoCardPosition, scrollForNextCall, calling, video, fmt, calls, faulted, top,
          history>>

Cells == 0 .. Mapped - 1

\* initScreen blanks more than the screen.
initScreen == screen = [cell \in Cells |-> Blank]

ConsoleInit ==
  /\ initScreen
  /\ videoCardPosition = 0
  /\ scrollForNextCall = FALSE
  /\ calling = FALSE
  /\ video = 0
  /\ fmt = <<>>
  /\ calls = 0
  /\ faulted = FALSE
  /\ top = 0
  /\ at = 0
  /\ text = [cell \in {} |-> Blank]
  /\ spilled = {}
  /\ printed = {}

Call(format) ==
  /\ ~calling
  /\ ~faulted
  /\ calls < MaxCalls
  /\ calls' = calls + 1
  /\ calling' = TRUE
  /\ video' = videoCardPosition
  /\ fmt' = format
  /\ UNCHANGED <<screen, videoCardPosition, scrollForNextCall, faulted, top, history>>

-----------------------------------------------------------------------------
(* One turn of the loop *)

\* Mutant: one line too few is copied.
Mutant_scroll ==
  [cell \in Cells |->
     IF cell < End - 2 * Columns THEN screen[cell + Columns]
     ELSE IF cell <= End /\ cell >= End - Columns THEN Blank
     ELSE screen[cell]]

\* The last loop of scroll blanks the last line and the cell behind it.
scroll ==
  [cell \in Cells |->
     IF cell < End - Columns THEN screen[cell + Columns]
     ELSE IF cell <= End THEN Blank
     ELSE screen[cell]]

\* Mutant: the cursor of the call under way stays behind.
Mutant_Cursors == <<video, videoCardPosition - Columns>>

\* The two cursors after a scroll.
Cursors == <<video - Columns, videoCardPosition - Columns>>

\* A line ends at a multiple of the columns; counting from the start of the call
\* is as good when that is one.
LineFeed(v, position) ==
  IF position % Columns # 0
  THEN v + (Columns - (v % Columns))
  ELSE v + (Columns - ((v - position) % Columns))

\* Mutant: a cursor right behind the last cell is not yet outside.
Mutant_Outside(v) == v > End

Outside(v) == v >= End

Item == Head(fmt)

\* Writes the text into cells from v on.
Write(cells, v) ==
  [cell \in DOMAIN cells |->
     IF cell \in v .. v + Len(Item.text) - 1 THEN Item.text[cell - v + 1] ELSE cells[cell]]

Long(item) == Len(item.text) > Columns \/ item.moves > Columns

\* Where the text belongs: it follows what was printed before.
Follow ==
  /\ at' = IF Item.kind = "newline" THEN (at \div Columns + 1) * Columns ELSE at + Item.moves
  /\ text' = [cell \in DOMAIN text \union (at .. at + Len(Item.text) - 1) |->
                IF cell >= at /\ cell < at + Len(Item.text) THEN Item.text[cell - at + 1] ELSE text[cell]]
  /\ printed' = printed \union {Item.kind} \union (IF Long(Item) THEN {"long"} ELSE {})

\* A write behind the mapped cells is a page fault in the kernel: no behaviour is
\* followed beyond it.
Turn ==
  /\ calling
  /\ ~faulted
  /\ fmt # <<>>
  /\ LET cursors == IF scrollForNextCall THEN Cursors ELSE <<video, videoCardPosition>>
         cells == IF scrollForNextCall THEN scroll ELSE screen
         v == cursors[1]
     IN  /\ screen' = Write(cells, v)
         /\ faulted' = (v + Len(Item.text) > Mapped)
         /\ videoCardPosition' = cursors[2]
         /\ video' = IF Item.kind = "newline" THEN LineFeed(v, cursors[2]) ELSE v + Item.moves
         /\ scrollForNextCall' = Outside(video')
         /\ top' = IF scrollForNextCall THEN top + 1 ELSE top
         /\ spilled' = spilled \union {at + k - 1 : k \in {j \in DOMAIN Item.text : v + j - 1 >= End}}
  /\ Follow
  /\ fmt' = Tail(fmt)
  /\ UNCHANGED <<calling, calls>>

Return ==
  /\ calling
  /\ ~faulted
  /\ fmt = <<>>
  /\ videoCardPosition' = video
  /\ scrollForNextCall' = (scrollForNextCall \/ Outside(video))
  /\ calling' = FALSE
  /\ UNCHANGED <<screen, video, fmt, calls, faulted, top, history>>

kprintf == Turn \/ Return

ConsoleNext == (\E format \in Formats : Call(format)) \/ kprintf

ConsoleSpec == ConsoleInit /\ [][ConsoleNext]_vars

-----------------------------------------------------------------------------
(* Properties *)

Cursor == IF calling THEN video ELSE videoCardPosition

\* A scroll is pending exactly when the cursor is behind the screen, within a call
\* and between calls, so a scroll never takes the cursor off the screen's start.
ConsoleTypeOK ==
  /\ calling \in BOOLEAN
  /\ scrollForNextCall \in BOOLEAN
  /\ video \in Int
  /\ videoCardPosition \in Int
  /\ fmt \in Seq(Items)
  /\ Cursor \in Nat
  /\ scrollForNextCall <=> Cursor >= End

\* The screen is a window of the text printed.  However calls, scrolls and line
\* ends follow each other, the cursor stands where that text ends, counted in the
\* lines that have left the screen, and each cell shows what was printed there or
\* a blank, unless a conversion had run over the end.
ScreenShowsText ==
  /\ at = Cursor + top * Columns
  /\ \A cell \in 0 .. End - 1 :
       LET place == cell + top * Columns
       IN  \/ place \in spilled
           \/ screen[cell] = IF place \in DOMAIN text THEN text[place] ELSE Blank

\* Characters and line ends by themselves never run over the end of the screen:
\* the scroll comes before the character that needs it.  Only conversions, which
\* are written in one turn, can lose text.
PlainTextIsKept == printed \subseteq {"newline", "character"} => spilled = {}

\* As long as no item is longer than a line, the cursor is never further behind
\* the screen than that line, and kprintf never leaves the memory mapped for it.
\* (A call scrolls once for an item: longer ones, printed again and again, drive
\* the cursor off.)
CursorStaysNearScreen ==
  "long" \notin printed => Cursor <= End + Columns /\ ~faulted
=============================================================================
