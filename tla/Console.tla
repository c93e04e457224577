------------------------------ MODULE Console ------------------------------
(***************************************************************************)
(* The text screen (src/src/framebuffer.c) and the place the kernel writes *)
(* at, which puts and the keyboard handler share (src/src/keyboard.c).     *)
(* The screen is memory: row and column arrive as bytes, a column past the *)
(* width is a cell of the next row, and a cell past the last row is memory *)
(* nobody reads.  Nothing scrolls.  No step reads the screen, so what is   *)
(* true of one cell at a time is true of the screen: an instance follows   *)
(* one, any one, of the sets of cells in Views.                            *)
(***************************************************************************)
EXTENDS Integers, Sequences, SequencesExt

CONSTANTS
  ROWS, COLUMNS,   \* 25 and 80 in the code
  BYTE,            \* values of a uint8_t: 256
  Glyphs,          \* characters with a shape
  Space, NewLine,
  Views            \* sets of cells: the screen is followed through one of them

ASSUME ScreenAssumption ==
  /\ ROWS \in Nat \ {0} /\ COLUMNS \in Nat \ {0} /\ BYTE \in Nat \ {0}
  /\ Views \subseteq SUBSET (0 .. ROWS * COLUMNS - 1)
  /\ Space \notin Glyphs /\ NewLine \notin Glyphs \cup {Space}

VARIABLES
  screen, cursor,                  \* the cells in view, and the hardware cursor
  row, col, col_recent, col_bound  \* where the kernel writes

console == <<screen, cursor, row, col, col_recent, col_bound>>

Cell == Glyphs \cup {Space}
Text == Seq(Glyphs \cup {Space, NewLine})

(* The arguments are uint8_t. *)
Position(r, c) == ((r % BYTE) * COLUMNS) + (c % BYTE)

InView(r, c) == Position(r, c) \in DOMAIN screen

(* framebuffer_write *)
Write(s, r, c, ch) == [p \in DOMAIN s |-> IF p = Position(r, c) THEN ch ELSE s[p]]

(* framebuffer_clear, by what it shows *)
BlankScreen == [p \in DOMAIN screen |-> Space]

-----------------------------------------------------------------------------
(* puts, for a text of less than BYTE bytes; with more its counter, a byte, *)
(* never reaches the length.                                                *)

(* One turn of the loop, the i-th of text. *)
PutChar(text, at, i) ==
  LET ahead == Write(at.screen, at.row, at.col + i, Space)
  IN IF text[i] = NewLine
     THEN [at EXCEPT !.screen = ahead, !.row = @ + 1, !.col = 0, !.bound = 0,
                     !.cursor = Position(at.row + 1, 0)]
     ELSE LET next == IF i = Len(text) THEN at.col + Len(text) ELSE at.col
          IN [at EXCEPT !.screen = Write(ahead, at.row, at.col + i - 1, text[i]),
                        !.col = next, !.bound = next,
                        !.cursor = Position(at.row, at.col + i)]

AfterPuts(text) ==
  FoldLeftDomain(LAMBDA at, i : PutChar(text, at, i),
                 [screen |-> screen, cursor |-> cursor, row |-> row, col |-> col,
                  bound |-> col_bound],
                 text)

Puts(text) ==
  LET at == AfterPuts(text)
  IN /\ Len(text) < BYTE
     /\ screen' = at.screen /\ cursor' = at.cursor
     /\ row' = at.row /\ col' = at.col /\ col_bound' = at.bound
     /\ UNCHANGED col_recent

SetCursorCLS == row' = 0 /\ col' = col_bound

(* The console after power-on. *)
ConsoleInit == /\ \E view \in Views : screen = [p \in view |-> Space]
               /\ cursor = 0
               /\ row = 0 /\ col = 0 /\ col_recent = 0 /\ col_bound = 0
=============================================================================
