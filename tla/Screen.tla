------------------------------- MODULE Screen -------------------------------
(***************************************************************************)
(* The terminal on the screen (freestanding/peripheral/screen): a ring of  *)
(* characters, a ring of the places where logical lines begin, the window  *)
(* of screen lines that is displayed, and flushToScreen, rewind and        *)
(* prowind, which move it.  A glyph is one cell of the display; pixels,    *)
(* colours and the copy from the backing buffer to the screen are left     *)
(* out.  toTail, rewind and prowind run to completion: there is one        *)
(* thread.                                                                 *)
(***************************************************************************)
EXTENDS Integers, Sequences, FiniteSets, FiniteSetsExt, SequencesExt, Folds

CONSTANTS
  glyphsPerLine, glyphsPerColumn,
  ringGlyphsPerColumn,    \* a power of two larger than glyphsPerColumn
  FILE_BUF_LEN, MAX_SCROLLBACK_LINES,
  TAB_SIZE_IN_GLYPHS,
  Flushes,                \* what is written: sequences of glyphs and controls
  Garbage,                \* what the memory of buf may hold before it is used
  MaxCalls                \* bound on the calls

NL == "newline"
HT == "tab"
NUL == "nul"
BLANK == "blank"

maxCharsToProcess == 2 * glyphsPerLine * glyphsPerColumn

ASSUME ScreenAssumption ==
  /\ ringGlyphsPerColumn > glyphsPerColumn /\ TAB_SIZE_IN_GLYPHS <= glyphsPerLine
  /\ maxCharsToProcess <= FILE_BUF_LEN

VARIABLES
  buf, nextCharInBuf, charCount,
  logicalLines, logicalLineToWrite, logicalNewline,
  screenLines, oldestScreenLineIndex, lastScreenlineOpen,
  isTailing,
  rows,       \* the cells of the display; -1 and glyphsPerColumn are the margins
  text,       \* everything that was written, for the properties
  calls

vars == <<buf, nextCharInBuf, charCount, logicalLines, logicalLineToWrite,
          logicalNewline, screenLines, oldestScreenLineIndex,
          lastScreenlineOpen, isTailing, rows, text, calls>>
logical == <<logicalLines, logicalLineToWrite, logicalNewline>>
given == <<buf, nextCharInBuf, charCount, logical, text>>

Columns == 0 .. glyphsPerLine - 1
BlankRow == [c \in Columns |-> BLANK]

RingPlus(a, b, n) == (a + b) % n
RingMinus(a, b, n) == (a - b) % n

Ring(a, b) == RingPlus(a, b, ringGlyphsPerColumn)
Back(a, b) == RingMinus(a, b, ringGlyphsPerColumn)
Previous(line) == RingMinus(line, 1, MAX_SCROLLBACK_LINES)
Following(line) == RingPlus(line, 1, MAX_SCROLLBACK_LINES)

\* The character with number i, as long as it has not been overwritten.
At(b, i) == b[i % FILE_BUF_LEN]
TabSpace(len) == TAB_SIZE_IN_GLYPHS - (len % TAB_SIZE_IN_GLYPHS)

\* The numbers from a up to, but not, b.
Span(a, b) == [k \in 1 .. b - a |-> a + k - 1]

-----------------------------------------------------------------------------
(* fillScreenLines: where the screen lines of a part of the text begin *)

\* A screen line begins at i; the last of them ends the arrays.
Mark(s, i, start, len) ==
  LET line == Ring(s.line, 1)
  IN [s EXCEPT !.line = line, !.copy[line] = i, !.lens[line] = len,
               !.window = @ + (IF i >= start THEN 1 ELSE 0)]

\* Whether the line is full, and is not ended by a newline that follows.
Full(b, glyphs, i) == glyphs >= glyphsPerLine /\ At(b, i + 1) # NL

Parse(b, s, i, start, max) ==
  LET ch == At(b, i)
      space == TabSpace(s.len)
      final == s.glyphs + space
      extra == glyphsPerLine - s.glyphs
  IN CASE ch = NUL -> s
       [] ch = NL -> [s EXCEPT !.toNext = TRUE, !.len = 0]
       [] ch = HT /\ final <= glyphsPerLine ->
            [s EXCEPT !.glyphs = final, !.toNext = Full(b, final, i), !.len = @ + space]
       [] ch = HT /\ final > glyphsPerLine ->
            \* the tab goes on in the next line; no more than max lines, but
            \* then the text after the tab is still parsed
            IF max # 0 /\ s.window >= max THEN s
            ELSE [Mark(s, i, start, s.len + extra)
                    EXCEPT !.glyphs = space - extra, !.len = s.len + space]
       [] OTHER -> [s EXCEPT !.glyphs = @ + 1, !.len = @ + 1,
                             !.toNext = Full(b, s.glyphs + 1, i)]

FillStep(b, s, i, start, max) ==
  IF s.done THEN s
  ELSE IF s.toNext /\ max # 0 /\ s.window >= max
       THEN [s EXCEPT !.done = TRUE, !.end = i]
       ELSE Parse(b, IF s.toNext THEN [Mark(s, i, start, s.len) EXCEPT !.glyphs = 0, !.toNext = FALSE]
                     ELSE s,
                  i, start, max)

fillScreenLines(b, dry, start, end, max) ==
  LET zero == [k \in 0 .. ringGlyphsPerColumn - 1 |-> 0]
      first == [line |-> 0, window |-> IF dry >= start THEN 1 ELSE 0,
                glyphs |-> 0, len |-> 0, toNext |-> FALSE, done |-> FALSE,
                copy |-> [zero EXCEPT ![0] = dry], lens |-> zero, end |-> end]
      s == FoldLeft(LAMBDA t, i : FillStep(b, t, i, start, max), first, Span(dry, end))
      last == Ring(s.line, 1)
  IN [copy |-> [s.copy EXCEPT ![last] = s.end], lens |-> s.lens,
      written |-> IF s.window < glyphsPerColumn THEN s.window ELSE glyphsPerColumn,
      index |-> last, lastLineDone |-> s.toNext]

-----------------------------------------------------------------------------
(* drawLines: the same walk, drawing a number of lines from a row on *)

\* Cells of a row from a column on; what is beyond the line is the margin.
Cells(d, row, col, n, cell) ==
  [d EXCEPT ![row] = [c \in Columns |-> IF c \in col .. col + n - 1 THEN cell ELSE @[c]]]

\* zeroOutGlyphs and drawGlyph at the place the walk is at.
Zero(s, n) == [s EXCEPT !.rows = Cells(@, s.row, s.col, n, BLANK)]
Glyph(s, ch) == [s EXCEPT !.rows = Cells(@, s.row, s.col, 1, ch)]

Draw(b, s, i, number, row) ==
  LET ch == At(b, i)
      space == TabSpace(s.len)
      final == s.glyphs + space
      extra == glyphsPerLine - s.glyphs
      below == [Zero(s, extra) EXCEPT !.lines = @ + 1, !.len = @ + space]
  IN CASE ch = NUL -> s
       [] ch = NL -> [s EXCEPT !.toNext = TRUE, !.len = 0]
       [] ch = HT /\ final <= glyphsPerLine ->
            [Zero(s, space) EXCEPT !.col = @ + space, !.glyphs = final,
                                   !.toNext = Full(b, final, i), !.len = @ + space]
       [] ch = HT /\ final > glyphsPerLine ->
            \* after the last line, the text after the tab is still drawn
            IF s.lines + 1 >= number THEN below
            ELSE [Zero([below EXCEPT !.row = row + s.lines + 1, !.col = 0], space - extra)
                    EXCEPT !.glyphs = space - extra, !.col = space - extra]
       [] OTHER -> [Glyph(s, ch) EXCEPT !.col = @ + 1, !.glyphs = @ + 1, !.len = @ + 1,
                                        !.toNext = Full(b, s.glyphs + 1, i)]

DrawStep(b, s, i, number, row) ==
  IF s.done THEN s
  ELSE IF s.toNext /\ s.lines + 1 >= number THEN [s EXCEPT !.done = TRUE]
  ELSE IF s.toNext
       THEN Draw(b, [Zero(s, glyphsPerLine - s.glyphs)
                       EXCEPT !.lines = @ + 1, !.row = row + s.lines + 1, !.col = 0,
                              !.glyphs = 0, !.toNext = FALSE],
                 i, number, row)
       ELSE Draw(b, s, i, number, row)

drawLines(d, b, from, count, number, len, row) ==
  LET first == [rows |-> d, row |-> row, col |-> 0, lines |-> 0, glyphs |-> 0,
                len |-> len, toNext |-> FALSE, done |-> FALSE]
      s == FoldLeft(LAMBDA t, i : DrawStep(b, t, i, number, row), first, Span(from, count))
  IN Zero(s, glyphsPerLine - s.glyphs).rows

\* Variant with a defect: one row too few is moved.
MoveRowsShort(d, from, to, n) ==
  [r \in DOMAIN d |-> IF r \in to .. to + n - 2 THEN d[r - to + from] ELSE d[r]]

\* memmove of n rows of the display.
MoveRows(d, from, to, n) ==
  [r \in DOMAIN d |-> IF r \in to .. to + n - 1 THEN d[r - to + from] ELSE d[r]]

-----------------------------------------------------------------------------
(* Which logical line a character is in, and where to begin parsing *)

toScreenLines(number) ==
  IF number = 0 THEN 1 ELSE (number + glyphsPerLine - 1) \div glyphsPerLine

RECURSIVE Bisect(_, _, _, _)
Bisect(lines, left, right, index) ==
  LET size == RingMinus(right, left, MAX_SCROLLBACK_LINES)
      mid == RingPlus(left, size \div 2, MAX_SCROLLBACK_LINES)
  IN IF size <= 1 THEN left
     ELSE IF lines[mid] > index THEN Bisect(lines, left, mid, index)
          ELSE Bisect(lines, mid, right, index)

\* Variant with a defect: the first character of a line is looked for before it.
I8IndexToLogicalLineBefore(lines, write, index) ==
  IF index >= lines[write] THEN write
  ELSE Bisect(lines, Following(write), write, index - 1)

I8IndexToLogicalLine(lines, write, index) ==
  IF index >= lines[write] THEN write
  ELSE Bisect(lines, Following(write), write, index)

RECURSIVE Older(_, _, _, _, _)
Older(lines, oldest, line, processed, number) ==
  IF processed >= number \/ line = oldest THEN lines[line]
  ELSE Older(lines, oldest, Previous(line),
             processed + toScreenLines(lines[line] - lines[Previous(line)]), number)

oldestCharToParseGivenScreenLines(lines, write, end, number) ==
  LET oldest == Following(write)
      found == I8IndexToLogicalLine(lines, write, end)
      line == IF lines[found] = end THEN Previous(found) ELSE found
      char == Older(lines, oldest, line, toScreenLines(end - lines[line]), number)
  IN IF found = oldest /\ lines[found] >= end THEN end
     ELSE IF end - char > maxCharsToProcess THEN end - maxCharsToProcess ELSE char

-----------------------------------------------------------------------------
(* toTail: the window is moved to the end of the text *)

\* The entry that ends the window, or the first entry of its last line when
\* that line is still open; before the display is full, the last one used.
RECURSIVE FinalEntry(_)
FinalEntry(entry) ==
  IF /\ screenLines[entry] <= screenLines[oldestScreenLineIndex]
     /\ entry # oldestScreenLineIndex
  THEN FinalEntry(Back(entry, 1)) ELSE entry

\* The entries of screenLines that a fill wrote, put at an index.
Entries(fill, number, at) ==
  [k \in DOMAIN screenLines |->
     IF Back(k, at) < number
     THEN fill.copy[Ring(Back(fill.index, fill.written), Back(k, at))] ELSE screenLines[k]]

\* Variant with a defect: the last line of the window is taken for a whole one.
OpenNever == 0

Open == IF lastScreenlineOpen THEN 1 ELSE 0

\* b, count, lines and write are the text with the flush in it.
toTail(b, count, lines, write) ==
  LET final == FinalEntry(Ring(oldestScreenLineIndex, glyphsPerColumn - Open))
      outside == screenLines[final]
      parse == oldestCharToParseGivenScreenLines(lines, write, count, glyphsPerColumn)
      start == lines[I8IndexToLogicalLine(lines, write, outside)]
      fill == fillScreenLines(b, IF parse > start THEN parse ELSE start, outside, count, 0)
      old == glyphsPerColumn - fill.written
      total == fill.written + Back(final, oldestScreenLineIndex)
      oldest == IF total > glyphsPerColumn
                THEN Ring(oldestScreenLineIndex, total - glyphsPerColumn)
                ELSE oldestScreenLineIndex
      entries == Entries(fill, fill.written + 1, Ring(oldest, old))
      moved == IF fill.written < glyphsPerColumn
               THEN MoveRows(rows, fill.written - Open, 0, old) ELSE rows
  IN /\ oldestScreenLineIndex' = oldest
     /\ screenLines' = entries
     /\ rows' = drawLines(moved, b, entries[Ring(oldest, old)], count, fill.written,
                          fill.lens[Back(fill.index, fill.written)], old)
     /\ lastScreenlineOpen' = ~fill.lastLineDone

\* Variant with a defect: the head of what is flushed is kept.
KeptHead(data) == IF Len(data) > FILE_BUF_LEN THEN SubSeq(data, 1, FILE_BUF_LEN) ELSE data

\* flushToScreen of more than the ring holds keeps its tail.
Kept(data) == IF Len(data) > FILE_BUF_LEN
              THEN SubSeq(data, Len(data) - FILE_BUF_LEN + 1, Len(data)) ELSE data

\* Variant with a defect: the place in the ring does not wrap.
Append1Unwrapped(s, ch) ==
  LET write == IF s.newline THEN Following(s.write) ELSE s.write
  IN [buf |-> [s.buf EXCEPT ![s.next] = ch], next |-> s.next + 1,
      count |-> s.count + 1,
      lines |-> IF s.newline THEN [s.lines EXCEPT ![write] = s.count] ELSE s.lines,
      write |-> write, newline |-> ch = NL]

Append1(s, ch) ==
  LET write == IF s.newline THEN Following(s.write) ELSE s.write
  IN [buf |-> [s.buf EXCEPT ![s.next] = ch],
      next |-> RingPlus(s.next, 1, FILE_BUF_LEN),
      count |-> s.count + 1,
      lines |-> IF s.newline THEN [s.lines EXCEPT ![write] = s.count] ELSE s.lines,
      write |-> write,
      newline |-> ch = NL]

flushToScreen(data) ==
  LET first == [buf |-> buf, next |-> nextCharInBuf, count |-> charCount,
                lines |-> logicalLines, write |-> logicalLineToWrite,
                newline |-> logicalNewline]
      s == FoldLeft(Append1, first, Kept(data))
  IN /\ calls < MaxCalls /\ calls' = calls + 1
     /\ buf' = s.buf /\ nextCharInBuf' = s.next /\ charCount' = s.count
     /\ logicalLines' = s.lines /\ logicalLineToWrite' = s.write
     /\ logicalNewline' = s.newline
     /\ text' = text \o data
     /\ IF isTailing THEN toTail(s.buf, s.count, s.lines, s.write)
        ELSE UNCHANGED <<screenLines, oldestScreenLineIndex, lastScreenlineOpen, rows>>
     /\ UNCHANGED isTailing

-----------------------------------------------------------------------------
(* rewind and prowind: the window is moved up and down *)

End == screenLines[Ring(oldestScreenLineIndex, glyphsPerColumn)]
isWindowSmallerThanScreen == screenLines[oldestScreenLineIndex] >= End

rewind(number) ==
  LET top == screenLines[oldestScreenLineIndex]
      parse == oldestCharToParseGivenScreenLines(logicalLines, logicalLineToWrite, top, number)
      fill == fillScreenLines(buf, parse, parse, top, 0)
      new == IF fill.written < number THEN fill.written ELSE number
      start == Back(fill.index, new)
      oldest == Back(oldestScreenLineIndex, new)
      entries == [k \in DOMAIN screenLines |->
                    IF Back(k, oldest) < new THEN fill.copy[Ring(start, Back(k, oldest))]
                    ELSE screenLines[k]]
  IN /\ calls < MaxCalls /\ calls' = calls + 1
     /\ ~isWindowSmallerThanScreen /\ parse # top
     /\ oldestScreenLineIndex' = oldest /\ screenLines' = entries
     /\ rows' = drawLines(MoveRows(rows, 0, new, glyphsPerColumn - new), buf,
                          entries[oldest], charCount, new, fill.lens[start], 0)
     /\ isTailing' = FALSE /\ lastScreenlineOpen' = FALSE
     /\ UNCHANGED given

prowind(number) ==
  LET parse == oldestCharToParseGivenScreenLines(logicalLines, logicalLineToWrite, End, 0)
      fill == fillScreenLines(buf, parse, End, charCount, number)
      old == glyphsPerColumn - fill.written
      oldest == Ring(oldestScreenLineIndex, fill.written)
      entries == Entries(fill, fill.written + 1, Ring(oldest, old))
  IN /\ calls < MaxCalls /\ calls' = calls + 1
     /\ ~isWindowSmallerThanScreen /\ charCount # End
     /\ oldestScreenLineIndex' = oldest /\ screenLines' = entries
     /\ rows' = drawLines(MoveRows(rows, fill.written, 0, old), buf, entries[Ring(oldest, old)],
                          charCount, fill.written,
                          fill.lens[Back(fill.index, fill.written)], old)
     /\ isTailing' = (entries[Ring(oldest, glyphsPerColumn)] = charCount)
     /\ lastScreenlineOpen' = ~fill.lastLineDone
     /\ UNCHANGED given

-----------------------------------------------------------------------------
Init ==
  /\ \E g \in Garbage : buf = [i \in 0 .. FILE_BUF_LEN - 1 |-> g]
  /\ nextCharInBuf = 0 /\ charCount = 0
  /\ logicalLines = [l \in 0 .. MAX_SCROLLBACK_LINES - 1 |-> 0]
  /\ logicalLineToWrite = 0 /\ logicalNewline = FALSE
  /\ screenLines = [k \in 0 .. ringGlyphsPerColumn - 1 |-> 0]
  /\ oldestScreenLineIndex = 0 /\ lastScreenlineOpen = FALSE /\ isTailing = TRUE
  /\ rows = [r \in -1 .. glyphsPerColumn |-> BlankRow]
  /\ text = <<>> /\ calls = 0

Next ==
  \/ \E data \in Flushes : flushToScreen(data)
  \/ \E n \in 1 .. glyphsPerColumn : rewind(n) \/ prowind(n)

Spec == Init /\ [][Next]_vars

-----------------------------------------------------------------------------
(* Properties *)

\* The cells of a text, wrapped: each line of it, with its tabs filled up, in
\* pieces of the width of the display; a line of no cells is a blank piece.
Reference(t) ==
  LET put(s, cell) == IF s.col = glyphsPerLine
                      THEN [s EXCEPT !.lines = Append(@, [BlankRow EXCEPT ![0] = cell]), !.col = 1]
                      ELSE [s EXCEPT !.lines[Len(s.lines)][s.col] = cell, !.col = @ + 1]
      open(s) == IF s.new THEN [s EXCEPT !.lines = Append(@, BlankRow), !.col = 0,
                                         !.len = 0, !.new = FALSE]
                 ELSE s
      step(s0, ch) == LET s == open(s0)
                      IN CASE ch = NL -> [s EXCEPT !.new = TRUE]
                           [] ch = NUL -> s
                           [] ch = HT -> [FoldLeft(LAMBDA u, k : put(u, BLANK), s,
                                                   Span(0, TabSpace(s.len)))
                                            EXCEPT !.len = s.len + TabSpace(s.len)]
                           [] OTHER -> [put(s, ch) EXCEPT !.len = @ + 1]
  IN FoldLeft(step, [lines |-> <<>>, col |-> 0, len |-> 0, new |-> TRUE], t).lines

\* The last rows of the wrapped text at the bottom of the display.
Bottom(t) ==
  LET ref == Reference(t)
      blank == glyphsPerColumn - Len(ref)
  IN [r \in 0 .. glyphsPerColumn - 1 |->
        IF r < blank THEN BlankRow ELSE ref[r + 1 - blank]]

Displayed == [r \in 0 .. glyphsPerColumn - 1 |-> rows[r]]

\* The logical lines of a text, from after one newline to the next.
LineEnds(t) == {0, Len(t)} \cup {i \in DOMAIN t : t[i] = NL}
Lines(t) == {<<i, j>> \in LineEnds(t) \X LineEnds(t) :
               i < j /\ \A k \in i + 1 .. j - 1 : k \notin LineEnds(t)}

\* Lines that fit on the display and that a newline does not end exactly at
\* its edge: toScreenLines counts such a newline as one more cell.
PlainLines(t) ==
  \A l \in Lines(t) :
    /\ l[2] - l[1] <= glyphsPerLine * glyphsPerColumn
    /\ t[l[2]] = NL => l[2] - l[1] = 1 \/ (l[2] - l[1] - 1) % glyphsPerLine # 0

\* The types of the rings, their cursors and the cells of the display.
TypeOK ==
  /\ nextCharInBuf \in 0 .. FILE_BUF_LEN - 1 /\ charCount \in Nat
  /\ logicalLineToWrite \in 0 .. MAX_SCROLLBACK_LINES - 1
  /\ DOMAIN screenLines = 0 .. ringGlyphsPerColumn - 1
  /\ oldestScreenLineIndex \in DOMAIN screenLines
  /\ DOMAIN rows = -1 .. glyphsPerColumn
  /\ \A r \in DOMAIN rows : DOMAIN rows[r] = Columns
  /\ {logicalNewline, lastScreenlineOpen, isTailing} \subseteq BOOLEAN

\* After every flush, in whatever pieces the text came, the display shows the
\* end of it: parsing from an older line, moving the rows that stay and
\* drawing the new ones add up to the whole text wrapped.
TailShown == isTailing /\ PlainLines(text) => Displayed = Bottom(text)

\* While the window is moved up and down it shows lines that follow each
\* other in the text; a tab that is split over two lines is left out.
WindowShown ==
  LET ref == Reference(text)
  IN ~isTailing /\ PlainLines(text) /\ Len(text) <= FILE_BUF_LEN /\ HT \notin Range(text) =>
       \E k \in 0 .. Len(ref) - glyphsPerColumn :
         \A r \in 0 .. glyphsPerColumn - 1 : rows[r] = ref[k + r + 1]

\* The ring holds the end of the text, a flush of more than fits included.
RingHoldsTail ==
  \A k \in 1 .. FILE_BUF_LEN :
    k <= charCount => At(buf, charCount - k) = text[Len(text) - k + 1]

\* The search finds the line of every character still in the scrollback, and
\* the oldest line for the ones before.
FindsLine ==
  Len(text) = charCount =>
    \A i \in 0 .. charCount :
      LET starts == {0} \cup {p \in LineEnds(text) : p < charCount}
          found == logicalLines[I8IndexToLogicalLine(logicalLines, logicalLineToWrite, i)]
          own == Max({p \in starts : p <= i})
      IN IF Cardinality({p \in starts : p > own}) < MAX_SCROLLBACK_LINES
         THEN found = own
         ELSE found = logicalLines[Following(logicalLineToWrite)]

\* The display shows consecutive lines of the text, the last ones when it tails.
ShowsText == TailShown /\ WindowShown

\* The rings of characters and lines hold the end of the text and find each other.
RingsSound == TypeOK /\ RingHoldsTail /\ FindsLine
=============================================================================
