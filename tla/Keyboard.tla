------------------------------ MODULE Keyboard ------------------------------
(***************************************************************************)
(* The keyboard handler (src/src/keyboard.c), the system calls that read a *)
(* line with it and print (src/src/interrupt.c), and the shell that makes  *)
(* them (src/src/user-shell.c), over the console they share.               *)
(*                                                                         *)
(* A system call runs with interrupts off and is one action, but the one   *)
(* that reads a line turns them on and spins.  The handler reads the data  *)
(* port twice, and the controller may put the next byte there in between.  *)
(***************************************************************************)
EXTENDS Console

CONSTANTS
  Letters,               \* keys that print
  CapsLock, Enter, Backspace,
  Other,                 \* key releases, prefixes, keys without a character
  Glyph(_, _),           \* the character of a letter, without or with caps lock
  KEYBOARD_BUFFER_SIZE,  \* 256 in the code
  COPIED,                \* bytes get_keyboard_buffer copies (120 in the code)
  NUL, Garbage,          \* the zero byte, and an uninitialised one
  Texts,                 \* what the shell prints
  Prompt,                \* what it prints last before it reads
  MaxRow, MaxCol         \* bounds: past them Enter is not typed and nothing printed

Key == Letters \cup {CapsLock, Enter, Backspace, Other}
Index == 0 .. KEYBOARD_BUFFER_SIZE - 1

ASSUME KeyboardAssumption ==
  /\ KEYBOARD_BUFFER_SIZE \in Nat /\ COPIED \in 1 .. KEYBOARD_BUFFER_SIZE
  /\ \A k \in Letters, c \in BOOLEAN : Glyph(k, c) \in Glyphs
  /\ {CapsLock, Enter, Backspace, Other} \cap Letters = {}
  /\ CapsLock # Enter /\ CapsLock # Backspace /\ Enter # Backspace
  /\ Other \notin {CapsLock, Enter, Backspace}
  /\ NUL \notin Glyphs /\ Garbage \notin Glyphs \cup {NUL}
  /\ MaxRow \in Nat /\ MaxCol \in Nat
  /\ Texts \subseteq Text /\ Prompt \in Text /\ Prompt # <<>> /\ Prompt[Len(Prompt)] # NewLine

VARIABLES
  port, full,          \* the data port, whether its byte is unread
  irq, in_service,     \* IRQ 1 in the interrupt controller: requested, not yet acknowledged
  isr,                 \* the handler is between its two reads
  scancode,            \* the byte of the first one
  is_capslock, keyboard_input_on, keyboard_buffer, buffer_index,
  mode,                \* where the shell is
  user_buf,            \* the shell's line
  wild                 \* bookkeeping: a character was stored past the buffer

controller == <<port, full, irq, in_service>>
handler == <<isr, scancode>>
keyboard_state == <<keyboard_input_on, keyboard_buffer, buffer_index>>
shell == <<mode, user_buf>>
vars == <<controller, handler, is_capslock, keyboard_state, shell, wild, console>>

-----------------------------------------------------------------------------
(* The keyboard and its controller *)

(* A byte comes to the port once the last was read, whenever the user or    *)
(* the keyboard's own queue has one, and requests an interrupt.             *)
Deliver(k) ==
  /\ ~full
  /\ k = Enter => row < MaxRow
  /\ port' = k /\ full' = TRUE /\ irq' = TRUE
  /\ UNCHANGED <<in_service, handler, is_capslock, keyboard_state, shell, wild, console>>

-----------------------------------------------------------------------------
(* keyboard_isr *)

(* The port keeps the byte just read; no handler sees it again unless its   *)
(* interrupt is requested already, and then only is it kept.                *)
LastRead == port' = IF irq' THEN port ELSE Other

(* The interrupt is taken and the port read. *)
Interrupted == /\ irq /\ ~in_service
               /\ irq' = FALSE /\ full' = FALSE
               /\ UNCHANGED <<keyboard_input_on, keyboard_buffer, shell, wild, console>>

(* Mutant: caps lock returns without the acknowledgement. *)
IsrCapsLockUnacked ==
  /\ Interrupted /\ port = CapsLock
  /\ is_capslock' = ~is_capslock
  /\ in_service' = TRUE /\ LastRead
  /\ UNCHANGED <<handler, buffer_index>>

IsrCapsLock ==
  /\ Interrupted /\ port = CapsLock
  /\ is_capslock' = ~is_capslock /\ LastRead
  /\ UNCHANGED <<in_service, handler, buffer_index>>

(* While nobody reads, the byte is dropped. *)
IsrOff ==
  /\ Interrupted /\ port # CapsLock /\ ~keyboard_input_on
  /\ buffer_index' = 0 /\ LastRead
  /\ UNCHANGED <<in_service, handler, is_capslock>>

(* Otherwise the port is about to be read again, the interrupt not yet      *)
(* acknowledged.                                                            *)
IsrOn ==
  /\ Interrupted /\ port # CapsLock /\ keyboard_input_on
  /\ isr' = TRUE /\ scancode' = port /\ in_service' = TRUE
  /\ UNCHANGED <<port, is_capslock, buffer_index>>

(* The second read, after which only its byte counts: the next one, if it   *)
(* has come, or the same one again.                                         *)
ReadAgain == /\ isr /\ isr' = FALSE /\ scancode' = Other /\ in_service' = FALSE
             /\ irq' = irq /\ full' = FALSE /\ LastRead
             /\ UNCHANGED <<is_capslock, shell>>

IsrNoChar ==
  /\ ReadAgain /\ port \in {Other, CapsLock}
  /\ UNCHANGED <<keyboard_state, wild, console>>

(* Mutant: a backspace at the start of the line erases the prompt. *)
MayEraseAny == col > 0

(* Mutant: the index may become negative. *)
IndexBeforeUnguarded == buffer_index - 1

IndexBefore == IF buffer_index > 0 THEN buffer_index - 1 ELSE buffer_index

MayErase == col > col_bound /\ buffer_index # 0

IsrBackspace ==
  /\ ReadAgain /\ port = Backspace
  /\ \/ /\ col > 0 /\ MayErase
        /\ col' = col - 1 /\ row' = row
        /\ screen' = Write(screen, row, col', Space)
        /\ cursor' = Position(row, col')
     \/ /\ col = 0 /\ row > 0
        /\ row' = row - 1 /\ col' = col_recent
        /\ screen' = Write(screen, row', col', Space)
        /\ cursor' = Position(row', col')
     \/ /\ IF col > 0 THEN ~MayErase ELSE row = 0
        /\ UNCHANGED <<screen, cursor, row, col>>
  /\ buffer_index' = IndexBefore
  /\ UNCHANGED <<keyboard_input_on, keyboard_buffer, wild, col_recent, col_bound>>

(* keyboard_buffer[buffer_index] = ch.  Past the buffer lies buffer_index.  *)
Store(ch) ==
  keyboard_buffer' = IF buffer_index \in Index
                     THEN [keyboard_buffer EXCEPT ![buffer_index] = ch] ELSE keyboard_buffer

(* Mutant: the line is not ended. *)
StoreNothing == UNCHANGED keyboard_buffer

StoreEnd == Store(NUL)

IsrEnter ==
  /\ ReadAgain /\ port = Enter
  /\ row' = row + 1 /\ col_recent' = col /\ col' = 0
  /\ StoreEnd
  /\ buffer_index' = 0
  /\ cursor' = Position(row', col_bound)
  /\ keyboard_input_on' = FALSE
  /\ UNCHANGED <<wild, screen, col_bound>>

IsrChar ==
  /\ ReadAgain /\ port \in Letters
  /\ LET ch == Glyph(port, is_capslock)
     IN /\ Store(ch)
        /\ screen' = Write(Write(screen, row, col, ch), row, col + 1, Space)
  /\ buffer_index' = buffer_index + 1
  /\ col' = col + 1
  /\ cursor' = Position(row, col')
  /\ wild' = (wild \/ buffer_index \notin Index)
  /\ UNCHANGED <<keyboard_input_on, row, col_recent, col_bound>>

Isr == \/ IsrCapsLock \/ IsrOff \/ IsrOn
       \/ IsrNoChar \/ IsrBackspace \/ IsrEnter \/ IsrChar

-----------------------------------------------------------------------------
(* The system calls, in the order the shell makes them *)

(* Mutant: the index of a line that was left is kept. *)
ActivateKeepingIndex ==
  /\ keyboard_input_on' = TRUE /\ UNCHANGED buffer_index
  /\ keyboard_buffer' = [j \in Index |-> NUL]

(* keyboard_state_activate *)
Activate ==
  /\ keyboard_input_on' = TRUE /\ buffer_index' = 0
  /\ keyboard_buffer' = [j \in Index |-> NUL]

(* syscall 7, once, before the splash screen: what is typed is shown. *)
Syscall7 ==
  /\ mode = "start" /\ mode' = "splash"
  /\ Activate
  /\ UNCHANGED <<controller, handler, is_capslock, user_buf, wild, console>>

Syscall5 ==
  /\ mode = "splash"
  /\ SetCursorCLS
  /\ UNCHANGED <<controller, handler, is_capslock, keyboard_state, shell, wild,
                 screen, cursor, col_recent, col_bound>>

(* puts.  The shell's line is declared in its loop, anew before the prompt. *)
Syscall6 ==
  /\ row < MaxRow /\ col < MaxCol
  /\ \/ /\ mode \in {"splash", "run"}
        /\ \E text \in Texts : Puts(text)
        /\ UNCHANGED shell
     \/ /\ mode = "run" /\ mode' = "prompted"
        /\ Puts(Prompt)
        /\ user_buf' = [j \in Index |-> Garbage]
  /\ UNCHANGED <<controller, handler, is_capslock, keyboard_state, wild>>

(* framebuffer_clear and setCursorCLS; it ends the splash screen. *)
Syscall8 ==
  /\ mode \in {"splash", "run"} /\ mode' = "run"
  /\ screen' = BlankScreen /\ SetCursorCLS
  /\ UNCHANGED <<controller, handler, is_capslock, keyboard_state, user_buf, wild,
                 cursor, col_recent, col_bound>>

(* The call that reads a line: it spins, with interrupts on, ... *)
Syscall4 ==
  /\ mode = "prompted" /\ mode' = "reading"
  /\ Activate
  /\ UNCHANGED <<controller, handler, is_capslock, user_buf, wild, console>>

(* ... until the handler has seen Enter, ... *)
is_keyboard_blocking == keyboard_input_on

SeeEnter ==
  /\ mode = "reading" /\ ~is_keyboard_blocking
  /\ mode' = "copying"
  /\ UNCHANGED <<controller, handler, is_capslock, keyboard_state, user_buf, wild, console>>

(* ... and copies the buffer, interrupts still on, through one on the stack *)
(* that nobody has initialised.                                             *)
CopyLine ==
  /\ mode = "copying" /\ mode' = "run"
  /\ user_buf' = [j \in Index |-> IF j < COPIED THEN keyboard_buffer[j] ELSE Garbage]
  /\ UNCHANGED <<controller, handler, is_capslock, keyboard_state, wild, console>>

-----------------------------------------------------------------------------
Init ==
  /\ port = Other /\ full = FALSE /\ irq = FALSE /\ in_service = FALSE
  /\ isr = FALSE /\ scancode = Other
  /\ is_capslock = FALSE /\ keyboard_input_on = FALSE
  /\ keyboard_buffer = [j \in Index |-> NUL] /\ buffer_index = 0
  /\ mode = "start" /\ user_buf = [j \in Index |-> Garbage] /\ wild = FALSE
  /\ ConsoleInit

(* A handler that has begun ends before the shell goes on. *)
Shell == ~isr /\ (\/ Syscall7 \/ Syscall5 \/ Syscall6 \/ Syscall8
                  \/ Syscall4 \/ SeeEnter \/ CopyLine)

Next == (\E k \in Key : Deliver(k)) \/ Isr \/ Shell

(* Interrupts are on but during the calls, which end: a requested one is    *)
(* taken and its handler goes on.  The call that reads goes on, too; of the *)
(* user nothing is assumed.                                                 *)
Fairness == WF_vars(Isr) /\ SF_vars(~isr /\ (SeeEnter \/ CopyLine))

Spec == Init /\ [][Next]_vars /\ Fairness
=============================================================================
