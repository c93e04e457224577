------------------------- MODULE KeyboardProperties -------------------------
(* What the keyboard handler and the call that reads a line promise. *)
EXTENDS Keyboard

TypeOK ==
  /\ port \in Key /\ full \in BOOLEAN
  /\ irq \in BOOLEAN /\ in_service \in BOOLEAN /\ isr \in BOOLEAN /\ scancode \in Key
  /\ is_capslock \in BOOLEAN /\ keyboard_input_on \in BOOLEAN
  /\ keyboard_buffer \in [Index -> Glyphs \cup {NUL}]
  /\ buffer_index \in Nat
  /\ buffer_index > KEYBOARD_BUFFER_SIZE => wild
  /\ mode \in {"start", "splash", "run", "prompted", "reading", "copying"}
  /\ user_buf \in [Index -> Glyphs \cup {NUL, Garbage}]
  /\ wild \in BOOLEAN
  /\ screen \in [DOMAIN screen -> Cell] /\ DOMAIN screen \in Views /\ cursor \in Nat
  /\ row \in Nat /\ col \in Nat /\ col_recent \in Nat /\ col_bound \in Nat

(* The characters before the first NUL. *)
CString(f) ==
  LET ends == {j \in Index : f[j] = NUL}
      length == IF ends = {} THEN KEYBOARD_BUFFER_SIZE ELSE CHOOSE j \in ends : \A x \in ends : j <= x
  IN [j \in 1 .. length |-> f[j - 1]]

Reading == mode = "reading" /\ keyboard_input_on
LineDone == mode = "copying" \/ (mode = "reading" /\ ~keyboard_input_on)

-----------------------------------------------------------------------------
(* What is typed is what is given.  The buffer keeps the bytes of what was  *)
(* erased, the handler runs between Enter and the copy, and what was typed  *)
(* before the call is thrown away; the shell gets the line nevertheless.    *)
Line == CASE Reading -> [j \in 1 .. buffer_index |-> keyboard_buffer[j - 1]]
          [] LineDone -> CString(keyboard_buffer)
          [] OTHER -> <<>>

Lines == INSTANCE LineReader
  WITH Chars <- Glyphs, Limit <- COPIED,
       state <- CASE Reading -> "reading"
                  [] LineDone -> "done"
                  [] OTHER -> "idle",
       line <- IF wild THEN <<>> ELSE Line,
       given <- IF user_buf[0] = Garbage THEN <<>> ELSE CString(user_buf),
       damaged <- wild

ImplementsLineReader == Lines!Spec

(* The line begins where the prompt ends or after it.  It does not when the *)
(* first one is ended, since syscall 7 lets it, between the prompt and the  *)
(* call that reads: then the next begins at column 0, over the prompt.      *)
AfterPrompt == col >= buffer_index + col_bound

(* The column is passed to the screen as a byte: the blank written behind   *)
(* the 256th character of a line falls on its first.                        *)
Unwrapped == BYTE - 1 \in Index => keyboard_buffer[BYTE - 1] = NUL

(* The line on the screen is the line in the buffer, and ends at the cursor *)
(* whatever was printed, typed ahead or erased before.                      *)
ScreenShowsLine ==
  Reading /\ AfterPrompt /\ Unwrapped /\ ~wild =>
    /\ cursor = Position(row, col)
    /\ \A j \in 0 .. buffer_index - 1 :
         LET c == col - buffer_index + j
         IN InView(row, c) => screen[Position(row, c)] = keyboard_buffer[j]

(* Keys typed while a line is read change nothing before it: the prompt     *)
(* cannot be erased, as long as the column fits the byte it is passed in.   *)
PromptKept ==
  [][Reading /\ AfterPrompt /\ mode' = mode /\ col' < BYTE =>
       \A p \in DOMAIN screen : p < Position(row, col_bound) => screen'[p] = screen[p]]_vars

(* Every byte that comes to the port is read: no path through the handler   *)
(* leaves the interrupt unacknowledged.                                     *)
KeyTaken == full ~> ~full

-----------------------------------------------------------------------------
(* The handler "process[es] scancodes into ASCII" (keyboard.h:61): the byte *)
(* an interrupt has read is the one it processes.                           *)
ProcessesTheKeyRead == isr => port = scancode
=============================================================================
