--------------------------- MODULE KeyboardProofs ---------------------------
(***************************************************************************)
(* Theorems about Keyboard, for every screen, buffer and keyboard layout   *)
(* and whatever texts are printed: the shape of its variables, that the    *)
(* line on the screen is the line in the buffer, that the prompt stays,    *)
(* and that every step is one of LineReader or none.                       *)
(***************************************************************************)
EXTENDS KeyboardProperties, TLAPS, WellFoundedInduction, SequenceTheorems

-----------------------------------------------------------------------------
(* Counting *)

(* Every set of numbers has a least one. *)
LEMMA Least ==
  ASSUME NEW T, T \subseteq Nat, T # {}
  PROVE  \E m \in T : \A n \in T : m <= n
<1> DEFINE R == {ss \in Nat \X Nat : ss[1] < ss[2]}
<1>1. IsWellFoundedOn(R, Nat)
  BY NatLessThanWellFounded DEF OpToRel
<1>2. ASSUME NEW m \in Nat, NEW n \in Nat PROVE <<n, m>> \in R <=> n < m
  OBVIOUS
<1> HIDE DEF R
<1>3. PICK m \in T : \A n \in T : ~(<<n, m>> \in R)
  BY <1>1, WFMin
<1>4. ASSUME NEW n \in T PROVE m <= n
  <2>1. m \in Nat /\ n \in Nat
    OBVIOUS
  <2>2. ~(n < m)
    BY <1>2, <1>3, <2>1
  <2> QED BY <2>1, <2>2
<1> QED BY <1>3, <1>4

(* What holds at 0 and is passed on holds up to N. *)
LEMMA UpTo ==
  ASSUME NEW N \in Nat, NEW T, 0 \in T, \A j \in 0 .. N : j \in T /\ j < N => j + 1 \in T
  PROVE  \A j \in 0 .. N : j \in T
<1> DEFINE Bad == {j \in 0 .. N : j \notin T}
<1> SUFFICES ASSUME Bad # {} PROVE FALSE
  OBVIOUS
<1>1. Bad \subseteq Nat
  OBVIOUS
<1>2. PICK m \in Bad : \A n \in Bad : m <= n
  BY <1>1, Least
<1>3. m \in 0 .. N /\ m \notin T /\ m # 0
  OBVIOUS
<1>4. m - 1 \in 0 .. N /\ m - 1 < N /\ m - 1 + 1 = m
  BY <1>3
<1>5. m - 1 \in T
  <2>1. ~(m <= m - 1)
    BY <1>3
  <2> QED BY <1>2, <1>4, <2>1
<1> QED BY <1>3, <1>4, <1>5

(* A set that reaches to n has n for its greatest member. *)
LEMMA Greatest ==
  ASSUME NEW n \in Nat, NEW s \in SUBSET (1 .. n), s # {}
  PROVE  Max(s) \in s /\ \A y \in s : Max(s) >= y
<1> DEFINE T == {n - y : y \in s}
           Top(x) == x \in s /\ \A y \in s : x >= y
<1>1. T \subseteq Nat /\ T # {}
  <2>1. \A y \in s : n - y \in Nat
    OBVIOUS
  <2> QED BY <2>1
<1>2. PICK m \in T : \A k \in T : m <= k
  BY <1>1, Least
<1>3. PICK x \in s : m = n - x
  OBVIOUS
<1>4. ASSUME NEW y \in s PROVE x >= y
  <2>1. n - y \in T
    OBVIOUS
  <2>2. m <= n - y
    BY <1>2, <2>1
  <2> QED BY <1>3, <2>2
<1>5. \E z \in s : \A y \in s : z >= y
  BY <1>4
<1>6. Max(s) = CHOOSE z \in s : \A y \in s : z >= y
  BY DEF Max
<1> QED BY <1>5, <1>6
-----------------------------------------------------------------------------
(* puts *)

Begun == [screen |-> screen, cursor |-> cursor, row |-> row, col |-> col, bound |-> col_bound]

(* The fold over a text goes through as many places as it has characters,   *)
(* each from the one before by one turn of the loop.                        *)
LEMMA PutsSteps ==
  ASSUME NEW text \in Text
  PROVE  \E f : /\ f[0] = Begun /\ f[Len(text)] = AfterPuts(text)
                /\ \A i \in 1 .. Len(text) : f[i] = PutChar(text, f[i - 1], i)
<1> DEFINE N == Len(text)
           ids == [i \in DOMAIN text |-> i]
           Fold(f, s) == IF s = {} THEN Begun ELSE PutChar(text, f[s \ {Max(s)}], ids[Max(s)])
           Is(m, f) == f = [s \in SUBSET (1 .. m) |-> Fold(f, s)]
           T == {m \in 0 .. N : \E f : Is(m, f)}
<1>1. N \in Nat /\ DOMAIN text = 1 .. N /\ DOMAIN ids = 1 .. N
  BY DEF Text
<1>2. 0 \in T
  <2> DEFINE g == [s \in SUBSET (1 .. 0) |-> Begun]
  <2>1. \A s \in SUBSET (1 .. 0) : s = {}
    OBVIOUS
  <2>2. Is(0, g)
    BY <2>1
  <2> QED BY <1>1, <2>2
<1>3. ASSUME NEW m \in 0 .. N, m < N, m \in T PROVE m + 1 \in T
  <2>1. PICK f : Is(m, f)
    BY <1>3
  <2> DEFINE g == [s \in SUBSET (1 .. m + 1) |->
                     IF m + 1 \in s THEN PutChar(text, f[s \ {m + 1}], ids[m + 1]) ELSE f[s]]
  <2>2. m \in Nat
    BY <1>1
  <2>3. ASSUME NEW s \in SUBSET (1 .. m) PROVE s \in SUBSET (1 .. m + 1) /\ g[s] = f[s]
    BY <2>2
  <2>4. ASSUME NEW s \in SUBSET (1 .. m + 1) PROVE g[s] = Fold(g, s)
    <3>1. CASE m + 1 \in s
      <4>1. Max(s) = m + 1
        <5>1. m + 1 \in Nat /\ s # {}
          BY <2>2, <3>1
        <5>2. Max(s) \in s /\ \A y \in s : Max(s) >= y
          BY <5>1, Greatest
        <5>3. Max(s) \in 1 .. m + 1 /\ Max(s) >= m + 1
          BY <3>1, <5>2
        <5> QED BY <2>2, <5>3
      <4>2. s \ {m + 1} \in SUBSET (1 .. m)
        BY <2>2
      <4>3. g[s \ {m + 1}] = f[s \ {m + 1}]
        BY <2>3, <4>2
      <4> QED BY <3>1, <4>1, <4>3
    <3>2. CASE m + 1 \notin s
      <4>1. s \in SUBSET (1 .. m)
        BY <2>2, <3>2
      <4>2. g[s] = Fold(f, s)
        BY <2>1, <2>3, <4>1
      <4>3. s # {} => s \ {Max(s)} \in SUBSET (1 .. m)
        BY <4>1
      <4>4. Fold(f, s) = Fold(g, s)
        BY <2>3, <4>3
      <4> QED BY <4>2, <4>4
    <3> QED BY <3>1, <3>2
  <2>5. Is(m + 1, g)
    <3>1. g = [s \in SUBSET (1 .. m + 1) |-> g[s]]
      OBVIOUS
    <3> HIDE DEF g, Fold
    <3> QED BY <2>4, <3>1
  <2>6. m + 1 \in 0 .. N
    BY <1>1, <1>3
  <2> QED BY <2>5, <2>6
<1>4. N \in T
  <2> HIDE DEF T, N
  <2>1. N \in 0 .. N
    BY <1>1
  <2> QED BY <1>1, <1>2, <1>3, <2>1, UpTo
<1> DEFINE it == CHOOSE f : Is(N, f)
<1>5. Is(N, it)
  <2> HIDE DEF Is
  <2>1. \E f : Is(N, f)
    BY <1>4
  <2> QED BY <2>1, Zenon
<1>6. AfterPuts(text) = it[1 .. N]
  BY <1>1 DEF AfterPuts, FoldLeftDomain, FoldLeft, MapThenFoldSet, Begun
<1> DEFINE f == [i \in 0 .. N |-> it[1 .. i]]
<1>7. \A s \in SUBSET (1 .. N) : it[s] = Fold(it, s)
  <2> HIDE DEF it, Fold
  <2> QED BY <1>5
<1>8. f[0] = Begun
  <2>1. 1 .. 0 = {} /\ {} \in SUBSET (1 .. N) /\ 0 \in 0 .. N
    BY <1>1
  <2> QED BY <1>7, <2>1
<1>9. f[N] = AfterPuts(text)
  BY <1>1, <1>6
<1>10. ASSUME NEW i \in 1 .. N PROVE f[i] = PutChar(text, f[i - 1], i)
  <2>1. i \in 0 .. N /\ i - 1 \in 0 .. N /\ ids[i] = i
    BY <1>1
  <2>2. 1 .. i \in SUBSET (1 .. N) /\ i \in 1 .. i
    BY <1>1
  <2>3. Max(1 .. i) = i
    <3>1. Max(1 .. i) \in 1 .. i /\ Max(1 .. i) >= i
      BY <1>1, <2>2, Greatest
    <3> QED BY <2>1, <3>1
  <2>4. (1 .. i) \ {i} = 1 .. (i - 1)
    BY <1>1
  <2>5. it[1 .. i] = Fold(it, 1 .. i)
    BY <1>7, <2>2
  <2> HIDE DEF it
  <2> QED BY <2>1, <2>2, <2>3, <2>4, <2>5
<1> HIDE DEF f
<1> QED BY <1>8, <1>9, <1>10

(* A place on the screen is a number, for any row and column. *)
LEMMA PlaceIsNumber == ASSUME NEW r \in Nat, NEW c \in Nat PROVE Position(r, c) \in Nat
<1>1. r % BYTE \in Nat /\ c % BYTE \in Nat /\ COLUMNS \in Nat
  BY ScreenAssumption
<1>2. (r % BYTE) * COLUMNS \in Nat
  BY <1>1
<1> QED BY <1>1, <1>2 DEF Position

(* A character written, the screen is a screen. *)
LEMMA WriteTyped ==
  ASSUME NEW V, NEW s \in [V -> Cell], NEW ch \in Cell, NEW r, NEW c
  PROVE  Write(s, r, c, ch) \in [V -> Cell]
BY DEF Write

(* Where puts may be. *)
At(V) == [screen : [V -> Cell], cursor : Nat, row : Nat, col : Nat, bound : Nat]

(* One turn of the loop of puts keeps it so, ... *)
LEMMA PutCharTyped ==
  ASSUME NEW text \in Text, NEW i \in 1 .. Len(text), NEW V, NEW at \in At(V)
  PROVE  PutChar(text, at, i) \in At(V)
<1>1. /\ at.screen \in [V -> Cell] /\ at.row \in Nat /\ at.col \in Nat
      /\ i \in Nat \ {0} /\ Len(text) \in Nat
      /\ Space \in Cell /\ (text[i] = NewLine \/ text[i] \in Cell)
  BY DEF At, Text, Cell
<1> DEFINE ahead == Write(at.screen, at.row, at.col + i, Space)
           next == IF i = Len(text) THEN at.col + Len(text) ELSE at.col
<1>2. ahead \in [V -> Cell]
  BY <1>1, WriteTyped
<1>3. CASE text[i] = NewLine
  <2>1. Position(at.row + 1, 0) \in Nat
    <3>1. at.row + 1 \in Nat /\ 0 \in Nat
      BY <1>1
    <3> QED BY <3>1, PlaceIsNumber
  <2>2. PutChar(text, at, i) = [at EXCEPT !.screen = ahead, !.row = @ + 1, !.col = 0, !.bound = 0,
                                          !.cursor = Position(at.row + 1, 0)]
    BY <1>3 DEF PutChar
  <2>3. at.row + 1 \in Nat /\ 0 \in Nat
    BY <1>1
  <2>4. PICK p : p = Position(at.row + 1, 0)
    OBVIOUS
  <2>5. PutChar(text, at, i) = [at EXCEPT !.screen = ahead, !.row = at.row + 1, !.col = 0, !.bound = 0,
                                          !.cursor = p]
    BY <2>2, <2>4
  <2> HIDE DEF ahead
  <2> QED BY <1>2, <2>1, <2>3, <2>4, <2>5 DEF At
<1>4. CASE text[i] # NewLine
  <2>1. Position(at.row, at.col + i) \in Nat
    <3>1. at.row \in Nat /\ at.col + i \in Nat
      BY <1>1
    <3> QED BY <3>1, PlaceIsNumber
  <2>2. Write(ahead, at.row, at.col + i - 1, text[i]) \in [V -> Cell]
    <3> HIDE DEF ahead
    <3> QED BY <1>1, <1>2, <1>4, WriteTyped
  <2>3. PutChar(text, at, i) =
          [at EXCEPT !.screen = Write(ahead, at.row, at.col + i - 1, text[i]),
                     !.col = next, !.bound = next, !.cursor = Position(at.row, at.col + i)]
    BY <1>4 DEF PutChar
  <2>4. next \in Nat
    BY <1>1
  <2> HIDE DEF ahead, next
  <2> QED BY <1>1, <2>1, <2>2, <2>3, <2>4 DEF At
<1> QED BY <1>3, <1>4

(* ... and so puts as a whole; a text that does not end in a new line ends  *)
(* with the cursor behind its last character, where the next line begins.   *)
LEMMA PutsEffect ==
  ASSUME NEW text \in Text, Begun \in At(DOMAIN screen)
  PROVE  /\ AfterPuts(text) \in At(DOMAIN screen)
         /\ text # <<>> /\ text[Len(text)] # NewLine
            => LET at == AfterPuts(text)
               IN at.col > 0 /\ at.bound = at.col /\ at.cursor = Position(at.row, at.col)
<1> DEFINE N == Len(text)
<1>1. PICK f : /\ f[0] = Begun /\ f[N] = AfterPuts(text)
               /\ \A i \in 1 .. N : f[i] = PutChar(text, f[i - 1], i)
  BY PutsSteps
<1>2. N \in Nat
  BY DEF Text
<1> DEFINE T == {i \in 0 .. N : f[i] \in At(DOMAIN screen)}
<1>3. 0 \in T
  BY <1>1, <1>2
<1>4. ASSUME NEW i \in 0 .. N, i \in T, i < N PROVE i + 1 \in T
  <2>1. i + 1 \in 1 .. N /\ i + 1 - 1 = i /\ i + 1 \in 0 .. N
    BY <1>2, <1>4
  <2>2. f[i + 1] = PutChar(text, f[i], i + 1)
    BY <1>1, <2>1
  <2>3. f[i] \in At(DOMAIN screen)
    BY <1>4
  <2>4. f[i + 1] \in At(DOMAIN screen)
    BY <2>1, <2>2, <2>3, PutCharTyped
  <2> QED BY <2>1, <2>4
<1>5. \A i \in 0 .. N : f[i] \in At(DOMAIN screen)
  <2>1. \A i \in 0 .. N : i \in T
    <3> HIDE DEF T, N
    <3> QED BY <1>2, <1>3, <1>4, UpTo
  <2> QED BY <2>1
<1>6. ASSUME text # <<>>, text[N] # NewLine
      PROVE  LET at == AfterPuts(text)
             IN at.col > 0 /\ at.bound = at.col /\ at.cursor = Position(at.row, at.col)
  <2>1. N \in 1 .. N /\ N - 1 \in 0 .. N /\ N > 0
    BY <1>2, <1>6 DEF Text
  <2>2. PICK before : before = f[N - 1]
    OBVIOUS
  <2>3. before \in At(DOMAIN screen)
    BY <1>5, <2>1, <2>2
  <2>4. before.col \in Nat /\ before.row \in Nat
    BY <2>3 DEF At
  <2>5. AfterPuts(text) = PutChar(text, before, N)
    BY <1>1, <2>1, <2>2
  <2>6. /\ AfterPuts(text).col = before.col + N /\ AfterPuts(text).bound = before.col + N
        /\ AfterPuts(text).cursor = Position(before.row, before.col + N)
        /\ AfterPuts(text).row = before.row
    BY <1>6, <2>3, <2>5 DEF PutChar, At
  <2> QED BY <1>2, <2>1, <2>4, <2>6
<1> QED BY <1>1, <1>2, <1>5, <1>6

-----------------------------------------------------------------------------
(* The shape of the state *)

USE DEF vars, controller, handler, keyboard_state, shell, console

(* What puts begins with is what the console holds. *)
LEMMA BegunTyped == ASSUME TypeOK PROVE Begun \in At(DOMAIN screen)
BY DEF TypeOK, Begun, At

(* A text printed leaves a console. *)
LEMMA PutsTyped ==
  ASSUME TypeOK, NEW text \in Text, Puts(text)
  PROVE  /\ screen' \in [DOMAIN screen' -> Cell] /\ DOMAIN screen' = DOMAIN screen /\ cursor' \in Nat
         /\ row' \in Nat /\ col' \in Nat /\ col_recent' = col_recent /\ col_bound' \in Nat
<1>1. PICK at : at = AfterPuts(text)
  OBVIOUS
<1>2. at \in At(DOMAIN screen)
  BY <1>1, BegunTyped, PutsEffect
<1>3. /\ screen' = at.screen /\ cursor' = at.cursor /\ row' = at.row /\ col' = at.col
      /\ col_bound' = at.bound /\ col_recent' = col_recent
  BY <1>1 DEF Puts
<1> QED BY <1>2, <1>3 DEF At

(* As the machine starts. *)
LEMMA TypeInit == Init => TypeOK
<1> SUFFICES ASSUME Init PROVE TypeOK
  OBVIOUS
<1>1. screen \in [DOMAIN screen -> Cell] /\ DOMAIN screen \in Views
  BY DEF Init, ConsoleInit, Cell
<1>2. /\ cursor \in Nat /\ row \in Nat /\ col \in Nat /\ col_recent \in Nat /\ col_bound \in Nat
  BY DEF Init, ConsoleInit
<1>3. /\ keyboard_buffer \in [Index -> Glyphs \cup {NUL}]
      /\ user_buf \in [Index -> Glyphs \cup {NUL, Garbage}]
  BY DEF Init
<1>4. buffer_index \in Nat /\ ~(buffer_index > KEYBOARD_BUFFER_SIZE)
  BY KeyboardAssumption DEF Init
<1> QED BY <1>1, <1>2, <1>3, <1>4 DEF Init, TypeOK, Key

(* A byte comes. *)
LEMMA TypeDeliver == ASSUME TypeOK, NEW k \in Key, Deliver(k) PROVE TypeOK'
BY DEF TypeOK, Deliver

(* The port keeps a byte. *)
LEMMA PortKept == ASSUME TypeOK, LastRead PROVE port' \in Key
BY DEF TypeOK, LastRead, Key

(* The handler's first read. *)
LEMMA TypeFirstRead == ASSUME TypeOK, IsrCapsLock \/ IsrOff \/ IsrOn PROVE TypeOK'
<1>1. CASE IsrCapsLock
  <2>1. port' \in Key
    BY <1>1, PortKept DEF IsrCapsLock
  <2> QED BY <1>1, <2>1 DEF TypeOK, IsrCapsLock, Interrupted
<1>2. CASE IsrOff
  <2>1. port' \in Key
    BY <1>2, PortKept DEF IsrOff
  <2>2. buffer_index' \in Nat /\ ~(buffer_index' > KEYBOARD_BUFFER_SIZE)
    BY <1>2, KeyboardAssumption DEF IsrOff
  <2> QED BY <1>2, <2>1, <2>2 DEF TypeOK, IsrOff, Interrupted
<1>3. CASE IsrOn
  BY <1>3 DEF TypeOK, IsrOn, Interrupted
<1> QED BY <1>1, <1>2, <1>3

(* Its second. *)
LEMMA TypeReadAgain ==
  ASSUME TypeOK, ReadAgain
  PROVE  /\ port' \in Key /\ full' \in BOOLEAN /\ irq' \in BOOLEAN /\ in_service' \in BOOLEAN
         /\ isr' \in BOOLEAN /\ scancode' \in Key /\ is_capslock' \in BOOLEAN
         /\ mode' = mode /\ user_buf' = user_buf
<1>1. port' \in Key
  BY PortKept DEF ReadAgain
<1> QED BY <1>1 DEF TypeOK, ReadAgain, Key

(* What Backspace leaves. *)
LEMMA TypeBackspace == ASSUME TypeOK, IsrBackspace PROVE TypeOK'
<1>1. ReadAgain
  BY DEF IsrBackspace
<1>2. buffer_index' \in Nat /\ buffer_index' <= buffer_index
  BY DEF TypeOK, IsrBackspace, IndexBefore
<1>3. buffer_index' > KEYBOARD_BUFFER_SIZE => wild'
  BY <1>2, KeyboardAssumption DEF TypeOK, IsrBackspace
<1>4. row' \in Nat /\ col' \in Nat
  BY DEF TypeOK, IsrBackspace
<1>5. /\ screen' \in [DOMAIN screen -> Cell] /\ cursor' \in Nat
  <2>1. Space \in Cell /\ screen \in [DOMAIN screen -> Cell] /\ cursor \in Nat
    BY DEF Cell, TypeOK
  <2>2. PICK r, c : r = row' /\ c = col'
    OBVIOUS
  <2>3. Position(r, c) \in Nat
    BY <1>4, <2>2, PlaceIsNumber
  <2>4. Write(screen, r, c, Space) \in [DOMAIN screen -> Cell]
    BY <2>1, WriteTyped
  <2>5. \/ screen' = Write(screen, r, c, Space) /\ cursor' = Position(r, c)
        \/ UNCHANGED <<screen, cursor>>
    BY <2>2 DEF IsrBackspace
  <2> QED BY <2>1, <2>3, <2>4, <2>5
<1>6. DOMAIN screen' = DOMAIN screen
  BY <1>5
<1> QED BY <1>1, <1>2, <1>3, <1>4, <1>5, <1>6, TypeReadAgain DEF TypeOK, IsrBackspace

(* A byte stored is a byte of the buffer. *)
LEMMA StoreTyped ==
  ASSUME TypeOK, NEW ch \in Glyphs \cup {NUL}, Store(ch)
  PROVE  keyboard_buffer' \in [Index -> Glyphs \cup {NUL}]
BY DEF TypeOK, Store

(* What Enter leaves. *)
LEMMA TypeEnter == ASSUME TypeOK, IsrEnter PROVE TypeOK'
<1>1. ReadAgain /\ Store(NUL)
  BY DEF IsrEnter, StoreEnd
<1>2. keyboard_buffer' \in [Index -> Glyphs \cup {NUL}]
  BY <1>1, StoreTyped
<1>3. buffer_index' \in Nat /\ ~(buffer_index' > KEYBOARD_BUFFER_SIZE)
  BY KeyboardAssumption DEF IsrEnter
<1>4. row' \in Nat /\ col' \in Nat /\ col_recent' \in Nat
  BY DEF TypeOK, IsrEnter
<1>5. cursor' \in Nat
  <2>1. PICK r, c : r = row' /\ c = col_bound
    OBVIOUS
  <2>2. r \in Nat /\ c \in Nat
    BY <1>4, <2>1 DEF TypeOK
  <2>3. Position(r, c) \in Nat
    BY <2>2, PlaceIsNumber
  <2> QED BY <2>1, <2>3 DEF IsrEnter
<1> QED BY <1>1, <1>2, <1>3, <1>4, <1>5, TypeReadAgain DEF TypeOK, IsrEnter

(* What a letter is stored and shown as. *)
LEMMA LetterHasGlyph == ASSUME TypeOK, port \in Letters PROVE Glyph(port, is_capslock) \in Glyphs
<1>1. is_capslock \in BOOLEAN
  BY DEF TypeOK
<1> QED BY <1>1, KeyboardAssumption

(* What a letter leaves. *)
LEMMA TypeChar == ASSUME TypeOK, IsrChar PROVE TypeOK'
<1>1. ReadAgain /\ port \in Letters
  BY DEF IsrChar
<1>2. PICK ch \in Glyphs : ch = Glyph(port, is_capslock)
  BY <1>1, LetterHasGlyph
<1>3. /\ Store(ch)
      /\ screen' = Write(Write(screen, row, col, ch), row, col + 1, Space)
  BY <1>2 DEF IsrChar
<1>4. keyboard_buffer' \in [Index -> Glyphs \cup {NUL}]
  BY <1>3, StoreTyped
<1>5. screen' \in [DOMAIN screen -> Cell]
  <2>1. PICK r, c, d : r = row /\ c = col /\ d = col + 1
    OBVIOUS
  <2>2. screen \in [DOMAIN screen -> Cell] /\ ch \in Cell /\ Space \in Cell
    BY DEF TypeOK, Cell
  <2>3. Write(screen, r, c, ch) \in [DOMAIN screen -> Cell]
    BY <2>2, WriteTyped
  <2>4. Write(Write(screen, r, c, ch), r, d, Space) \in [DOMAIN screen -> Cell]
    BY <2>2, <2>3, WriteTyped
  <2> QED BY <1>3, <2>1, <2>4
<1>6. DOMAIN screen' = DOMAIN screen
  BY <1>5
<1>7. col' \in Nat /\ row' \in Nat /\ buffer_index' \in Nat /\ buffer_index' = buffer_index + 1
  BY DEF TypeOK, IsrChar
<1>8. cursor' \in Nat
  <2>1. PICK r, c : r = row /\ c = col'
    OBVIOUS
  <2>2. r \in Nat /\ c \in Nat
    BY <1>7, <2>1 DEF TypeOK
  <2>3. Position(r, c) \in Nat
    BY <2>2, PlaceIsNumber
  <2> QED BY <2>1, <2>3 DEF IsrChar
<1>9. wild' \in BOOLEAN /\ (buffer_index' > KEYBOARD_BUFFER_SIZE => wild')
  <2>1. buffer_index' > KEYBOARD_BUFFER_SIZE => buffer_index \notin Index
    BY <1>7, KeyboardAssumption DEF TypeOK, Index
  <2>2. wild' = (wild \/ buffer_index \notin Index)
    BY DEF IsrChar
  <2> QED BY <2>1, <2>2
<1> QED BY <1>1, <1>4, <1>5, <1>6, <1>7, <1>8, <1>9, TypeReadAgain DEF TypeOK, IsrChar

(* A byte without a character leaves nothing. *)
LEMMA TypeNoChar == ASSUME TypeOK, IsrNoChar PROVE TypeOK'
BY TypeReadAgain DEF TypeOK, IsrNoChar

(* keyboard_state_activate leaves an empty buffer. *)
LEMMA ActivateTyped ==
  ASSUME TypeOK, Activate
  PROVE  /\ keyboard_input_on' \in BOOLEAN /\ keyboard_buffer' \in [Index -> Glyphs \cup {NUL}]
         /\ buffer_index' \in Nat /\ ~(buffer_index' > KEYBOARD_BUFFER_SIZE)
BY KeyboardAssumption DEF Activate

(* The system calls. *)
LEMMA TypeShell == ASSUME TypeOK, Shell PROVE TypeOK'
<1>1. CASE Syscall7
  BY <1>1, ActivateTyped DEF Syscall7, TypeOK
<1>2. CASE Syscall5
  <2>1. row' \in Nat /\ col' \in Nat
    BY <1>2 DEF Syscall5, SetCursorCLS, TypeOK
  <2> QED BY <1>2, <2>1 DEF Syscall5, TypeOK
<1>3. CASE Syscall6
  <2>1. PICK text \in Text : Puts(text)
    BY <1>3, KeyboardAssumption DEF Syscall6
  <2>2. /\ screen' \in [DOMAIN screen' -> Cell] /\ DOMAIN screen' = DOMAIN screen /\ cursor' \in Nat
        /\ row' \in Nat /\ col' \in Nat /\ col_recent' = col_recent /\ col_bound' \in Nat
    BY <2>1, PutsTyped
  <2>3. /\ mode' \in {"start", "splash", "run", "prompted", "reading", "copying"}
        /\ user_buf' \in [Index -> Glyphs \cup {NUL, Garbage}]
    BY <1>3 DEF Syscall6, TypeOK
  <2>4. UNCHANGED <<controller, handler, is_capslock, keyboard_state, wild>>
    BY <1>3 DEF Syscall6
  <2> QED BY <2>2, <2>3, <2>4 DEF TypeOK
<1>4. CASE Syscall8
  <2>1. row' \in Nat /\ col' \in Nat
    BY <1>4 DEF Syscall8, SetCursorCLS, TypeOK
  <2>2. screen' \in [DOMAIN screen -> Cell] /\ DOMAIN screen' = DOMAIN screen
    BY <1>4 DEF Syscall8, BlankScreen, Cell
  <2> QED BY <1>4, <2>1, <2>2 DEF Syscall8, TypeOK
<1>5. CASE Syscall4
  BY <1>5, ActivateTyped DEF Syscall4, TypeOK
<1>6. CASE SeeEnter
  BY <1>6 DEF SeeEnter, TypeOK
<1>7. CASE CopyLine
  <2>1. user_buf' \in [Index -> Glyphs \cup {NUL, Garbage}]
    BY <1>7 DEF CopyLine, TypeOK
  <2> QED BY <1>7, <2>1 DEF CopyLine, TypeOK
<1> QED BY <1>1, <1>2, <1>3, <1>4, <1>5, <1>6, <1>7 DEF Shell

(* Nothing happens. *)
LEMMA TypeStutter == ASSUME TypeOK, UNCHANGED vars PROVE TypeOK'
BY DEF TypeOK

(* Every variable keeps its shape: for every buffer, screen and text the    *)
(* index of the line never becomes negative and passes the end of the       *)
(* buffer only by one character, which is recorded, and no place outside    *)
(* the screen is written into it.                                           *)
THEOREM TypesKept == Spec => []TypeOK
<1>1. TypeOK /\ [Next]_vars => TypeOK'
  BY TypeDeliver, TypeFirstRead, TypeNoChar, TypeBackspace, TypeEnter, TypeChar, TypeShell, TypeStutter
     DEF Next, Isr
<1> QED BY <1>1, TypeInit, PTL DEF Spec

-----------------------------------------------------------------------------
(* The line on the screen *)

(* The handler is between its reads only while a line is taken in, and what *)
(* of the buffer lies before the index was typed.                           *)
Taken ==
  /\ isr => keyboard_input_on
  /\ mode = "copying" => ~keyboard_input_on
  /\ keyboard_input_on => \A j \in Index : j < buffer_index => keyboard_buffer[j] # NUL

(* From the prompt on the cursor is where the next character goes, but in   *)
(* column 0, where only Enter before the call brings it, and a line is no   *)
(* longer than its row.                                                     *)
Placed ==
  /\ mode \in {"prompted", "reading"} =>
       col_bound > 0 /\ (col > 0 => cursor = Position(row, col))
  /\ Reading => buffer_index <= col

(* A line that fits its byte is shown. *)
Shown ==
  Reading /\ AfterPrompt /\ Unwrapped /\ ~wild =>
    \A j \in 0 .. buffer_index - 1 :
      LET c == col - buffer_index + j
      IN InView(row, c) => screen[Position(row, c)] = keyboard_buffer[j]

(* Places closer than a byte can tell are places apart. *)
LEMMA PlacesApart ==
  ASSUME NEW r \in Nat, NEW c \in Nat, NEW d \in Nat, c < d, d < c + BYTE
  PROVE  Position(r, c) # Position(r, d)
<1>1. BYTE \in Nat \ {0}
  BY ScreenAssumption
<1>2. c % BYTE # d % BYTE
  <2>1. /\ c = BYTE * (c \div BYTE) + (c % BYTE) /\ d = BYTE * (d \div BYTE) + (d % BYTE)
        /\ c \div BYTE \in Int /\ d \div BYTE \in Int
    BY <1>1
  <2> SUFFICES ASSUME c % BYTE = d % BYTE PROVE FALSE
    OBVIOUS
  <2>2. PICK q \in Int : q = (d \div BYTE) - (c \div BYTE)
    BY <2>1
  <2>3. d - c = BYTE * q
    BY <1>1, <2>1, <2>2
  <2>4. 0 < BYTE * q /\ BYTE * q < BYTE
    BY <1>1, <2>3
  <2>5. q <= 0 \/ q >= 1
    OBVIOUS
  <2>6. q <= 0 => BYTE * q <= 0
    BY <1>1
  <2>7. q >= 1 => BYTE * q >= BYTE
    BY <1>1
  <2> QED BY <1>1, <2>4, <2>5, <2>6, <2>7
<1>3. (r % BYTE) * COLUMNS \in Nat /\ c % BYTE \in Nat /\ d % BYTE \in Nat
  <2>1. r % BYTE \in Nat /\ COLUMNS \in Nat
    BY ScreenAssumption
  <2>2. (r % BYTE) * COLUMNS \in Nat
    BY <2>1
  <2> QED BY <1>1, <2>2
<1> QED BY <1>2, <1>3 DEF Position

(* Steps that leave the line and the screen. *)
LEMMA LineQuiet ==
  ASSUME Taken, Placed, Shown, isr' => keyboard_input_on,
         UNCHANGED <<keyboard_state, mode, wild, console>>
  PROVE  Taken' /\ Placed' /\ Shown'
<1>1. Taken'
  BY DEF Taken
<1>2. Placed'
  BY DEF Placed, Reading
<1>3. Shown'
  BY DEF Shown, Reading, AfterPrompt, Unwrapped, InView
<1> QED BY <1>1, <1>2, <1>3

(* A line that fits its byte is shorter than it. *)
LEMMA LineFits ==
  ASSUME TypeOK, Taken, Reading, Unwrapped, ~wild
  PROVE  buffer_index < BYTE
<1> SUFFICES ASSUME buffer_index >= BYTE PROVE FALSE
  BY ScreenAssumption DEF TypeOK
<1>1. buffer_index \in Nat /\ buffer_index <= KEYBOARD_BUFFER_SIZE /\ BYTE \in Nat \ {0}
  BY ScreenAssumption, KeyboardAssumption DEF TypeOK
<1>2. BYTE - 1 \in Index /\ BYTE - 1 < buffer_index
  BY <1>1, KeyboardAssumption DEF Index
<1> QED BY <1>2 DEF Taken, Reading, Unwrapped

(* The first read. *)
LEMMA LineFirstRead ==
  ASSUME TypeOK, Taken, Placed, Shown, IsrCapsLock \/ IsrOff \/ IsrOn
  PROVE  Taken' /\ Placed' /\ Shown'
<1>1. CASE IsrCapsLock
  BY <1>1, LineQuiet DEF IsrCapsLock, Interrupted, Taken
<1>2. CASE IsrOn
  BY <1>2, LineQuiet DEF IsrOn, Interrupted
<1>3. CASE IsrOff
  BY <1>3 DEF IsrOff, Interrupted, Taken, Placed, Shown, Reading
<1> QED BY <1>1, <1>2, <1>3

(* Backspace takes the last character from both, or leaves the line empty. *)
LEMMA LineBackspace ==
  ASSUME TypeOK, TypeOK', Taken, Placed, Shown, IsrBackspace
  PROVE  Taken' /\ Placed' /\ Shown'
<1>1. /\ buffer_index \in Nat /\ col \in Nat /\ row \in Nat /\ col_bound \in Nat /\ BYTE \in Nat \ {0}
      /\ col' \in Nat /\ row' \in Nat
  BY ScreenAssumption DEF TypeOK
<1>2. /\ UNCHANGED <<keyboard_input_on, keyboard_buffer, wild, col_bound, mode>> /\ ~isr'
      /\ buffer_index' = IF buffer_index > 0 THEN buffer_index - 1 ELSE buffer_index
  BY DEF IsrBackspace, ReadAgain, IndexBefore
<1>3. Taken'
  BY <1>1, <1>2 DEF Taken, TypeOK, Index
<1> DEFINE Back ==  /\ col > 0 /\ MayErase
                    /\ col' = col - 1 /\ row' = row
                    /\ screen' = Write(screen, row, col', Space)
                    /\ cursor' = Position(row, col')
           RowUp == /\ col = 0 /\ row > 0
                    /\ row' = row - 1 /\ col' = col_recent
                    /\ screen' = Write(screen, row', col', Space)
                    /\ cursor' = Position(row', col')
           Still == /\ IF col > 0 THEN ~MayErase ELSE row = 0
                    /\ UNCHANGED <<screen, cursor, row, col>>
<1>4. Back \/ RowUp \/ Still
  BY DEF IsrBackspace
<1>5. Placed'
  <2>1. mode' \in {"prompted", "reading"} => col_bound' > 0 /\ (col' > 0 => cursor' = Position(row', col'))
    BY <1>2, <1>4 DEF Placed
  <2>2. ASSUME Reading' PROVE buffer_index' <= col'
    <3>1. buffer_index <= col
      BY <1>2, <2>2 DEF Placed, Reading
    <3> QED BY <1>1, <1>2, <1>4, <3>1 DEF MayErase
  <2> QED BY <2>1, <2>2 DEF Placed
<1>6. Shown'
  <2> SUFFICES ASSUME Reading', AfterPrompt', Unwrapped', ~wild', NEW j \in 0 .. buffer_index' - 1,
                      InView(row, col - buffer_index + j)' 
               PROVE  screen'[Position(row', col' - buffer_index' + j)] = keyboard_buffer'[j]
    BY DEF Shown, InView
  <2>1. Reading /\ Unwrapped /\ ~wild /\ col_bound > 0 /\ buffer_index <= col
    BY <1>2 DEF Reading, Unwrapped, Placed
  <2>2. buffer_index < BYTE
    BY <2>1, LineFits
  <2>3. buffer_index' = buffer_index - 1 /\ buffer_index > 1 /\ j \in Nat /\ j < buffer_index - 1
    BY <1>1, <1>2
  <2>4. col' >= buffer_index' + col_bound
    BY <1>2 DEF AfterPrompt
  <2>5. Back
    <3>1. ~RowUp
      BY <1>1, <2>1, <2>3
    <3>2. Still => ~(col > col_bound)
      BY <1>1, <2>1, <2>3 DEF MayErase
    <3>3. Still => col' = col
      OBVIOUS
    <3>4. Still => FALSE
      BY <1>1, <2>3, <2>4, <3>2, <3>3
    <3> QED BY <1>4, <3>1, <3>4
  <2>6. AfterPrompt
    BY <1>1, <2>3, <2>4, <2>5 DEF AfterPrompt
  <2> DEFINE c == col - buffer_index + j
  <2>7. c \in Nat /\ col' - buffer_index' + j = c /\ c < col - 1 /\ col - 1 < c + BYTE /\ col - 1 \in Nat
    BY <1>1, <2>1, <2>2, <2>3, <2>5
  <2>8. Position(row, c) # Position(row, col - 1)
    <3> HIDE DEF c
    <3> QED BY <1>1, <2>7, PlacesApart
  <2>9. j \in 0 .. buffer_index - 1
    BY <1>1, <2>3
  <2>10. /\ screen' = [p \in DOMAIN screen |-> IF p = Position(row, col - 1) THEN Space ELSE screen[p]]
         /\ row' = row
    BY <2>5 DEF Write
  <2>11. Position(row, c) \in DOMAIN screen'
    BY <2>7, <2>10 DEF InView
  <2>12. Position(row, c) \in DOMAIN screen
    BY <2>10, <2>11
  <2>13. screen[Position(row, c)] = keyboard_buffer[j]
    BY <2>1, <2>6, <2>9, <2>12 DEF Shown, InView
  <2>14. screen'[Position(row, c)] = screen[Position(row, c)]
    <3> HIDE DEF c
    <3> QED BY <2>8, <2>10, <2>12
  <2> QED BY <1>2, <2>7, <2>10, <2>13, <2>14
<1> QED BY <1>3, <1>5, <1>6

(* A character is added to both. *)
LEMMA LineChar ==
  ASSUME TypeOK, TypeOK', Taken, Placed, Shown, IsrChar
  PROVE  Taken' /\ Placed' /\ Shown'
<1>1. /\ buffer_index \in Nat /\ col \in Nat /\ row \in Nat /\ col_bound \in Nat /\ BYTE \in Nat \ {0}
  BY ScreenAssumption DEF TypeOK
<1>2. PICK ch \in Glyphs : ch = Glyph(port, is_capslock)
  BY LetterHasGlyph DEF IsrChar
<1>3. /\ UNCHANGED <<keyboard_input_on, row, col_bound, mode>> /\ ~isr'
      /\ buffer_index' = buffer_index + 1 /\ col' = col + 1
      /\ cursor' = Position(row, col') /\ wild' = (wild \/ buffer_index \notin Index)
      /\ screen' = Write(Write(screen, row, col, ch), row, col + 1, Space)
      /\ keyboard_buffer' = IF buffer_index \in Index
                            THEN [keyboard_buffer EXCEPT ![buffer_index] = ch] ELSE keyboard_buffer
  BY <1>2 DEF IsrChar, ReadAgain, Store
<1>4. \A j \in Index : keyboard_buffer'[j] = IF j = buffer_index THEN ch ELSE keyboard_buffer[j]
  BY <1>3 DEF TypeOK
<1>5. Taken'
  <2>1. ch # NUL
    BY KeyboardAssumption
  <2>2. \A j \in Index : j < buffer_index' => j < buffer_index \/ j = buffer_index
    BY <1>1, <1>3 DEF Index
  <2> QED BY <1>3, <1>4, <2>1, <2>2 DEF Taken
<1>6. Placed'
  BY <1>1, <1>3 DEF Placed, Reading
<1>7. Shown'
  <2> SUFFICES ASSUME Reading', AfterPrompt', Unwrapped', ~wild', NEW j \in 0 .. buffer_index' - 1,
                      InView(row, col - buffer_index + j)'
               PROVE  screen'[Position(row', col' - buffer_index' + j)] = keyboard_buffer'[j]
    BY DEF Shown, InView
  <2>1. Reading /\ ~wild /\ buffer_index \in Index /\ buffer_index <= col
    BY <1>3 DEF Reading, Placed
  <2>2. Unwrapped /\ buffer_index + 1 < BYTE
    <3>1. BYTE - 1 \in Index => BYTE - 1 # buffer_index /\ keyboard_buffer[BYTE - 1] = NUL
      BY <1>4, KeyboardAssumption DEF Unwrapped
    <3>2. Unwrapped
      BY <3>1 DEF Unwrapped
    <3>3. buffer_index < BYTE
      BY <2>1, <3>2, LineFits
    <3>4. buffer_index # BYTE - 1
      BY <2>1, <3>1
    <3> QED BY <1>1, <3>2, <3>3, <3>4
  <2>3. AfterPrompt
    BY <1>1, <1>3 DEF AfterPrompt
  <2> DEFINE c == col - buffer_index + j
  <2>4. j \in Nat /\ j <= buffer_index
    BY <1>1, <1>3
  <2>5. /\ c \in Nat /\ col' - buffer_index' + j = c /\ c <= col /\ c < col + 1 /\ col + 1 < c + BYTE
        /\ col + 1 \in Nat
    BY <1>1, <1>3, <2>1, <2>2, <2>4
  <2>6. Position(row, c) # Position(row, col + 1)
    <3> HIDE DEF c
    <3> QED BY <1>1, <2>5, PlacesApart
  <2>7. screen' = [p \in DOMAIN screen |-> IF p = Position(row, col + 1) THEN Space
                                           ELSE IF p = Position(row, col) THEN ch ELSE screen[p]]
    BY <1>3 DEF Write
  <2>8. Position(row, c) \in DOMAIN screen
    BY <1>3, <2>5, <2>7 DEF InView
  <2>9. screen'[Position(row, c)] = IF Position(row, c) = Position(row, col) THEN ch
                                    ELSE screen[Position(row, c)]
    <3> HIDE DEF c
    <3> QED BY <2>6, <2>7, <2>8
  <2>10. j \in Index
    BY <1>1, <2>1, <2>4, KeyboardAssumption DEF Index
  <2>11. CASE j = buffer_index
    BY <1>1, <1>3, <1>4, <2>5, <2>9, <2>10, <2>11
  <2>12. CASE j < buffer_index
    <3>1. c < col /\ col < c + BYTE
      BY <1>1, <2>1, <2>2, <2>4, <2>12
    <3>2. Position(row, c) # Position(row, col)
      <4> HIDE DEF c
      <4> QED BY <1>1, <2>5, <3>1, PlacesApart
    <3>3. j \in 0 .. buffer_index - 1
      BY <1>1, <2>4, <2>12
    <3>4. screen[Position(row, c)] = keyboard_buffer[j]
      BY <2>1, <2>2, <2>3, <2>8, <3>3 DEF Shown, InView
    <3>5. keyboard_buffer'[j] = keyboard_buffer[j]
      BY <1>1, <1>4, <2>4, <2>10, <2>12
    <3> QED BY <1>3, <2>5, <2>9, <3>2, <3>4, <3>5
  <2> QED BY <1>1, <2>4, <2>11, <2>12
<1> QED BY <1>5, <1>6, <1>7

(* Enter ends it. *)
LEMMA LineEnter ==
  ASSUME Taken, Placed, IsrEnter
  PROVE  Taken' /\ Placed' /\ Shown'
<1>1. /\ ~keyboard_input_on' /\ ~isr' /\ mode' = mode /\ col' = 0 /\ col_bound' = col_bound
  BY DEF IsrEnter, ReadAgain
<1> QED BY <1>1 DEF Taken, Placed, Shown, Reading

(* The prompt is printed: the cursor is behind it. *)
LEMMA LinePrompt ==
  ASSUME TypeOK, Taken, ~isr, Syscall6
  PROVE  Taken' /\ Placed' /\ Shown'
<1>1. UNCHANGED <<handler, keyboard_state>> /\ mode' # "reading" /\ mode' # "copying"
  BY DEF Syscall6
<1>2. Taken'
  BY <1>1 DEF Taken
<1>3. ~Reading'
  BY <1>1 DEF Reading
<1>4. ASSUME mode' = "prompted" PROVE col_bound' > 0 /\ cursor' = Position(row', col')
  <2>1. Puts(Prompt) /\ Prompt \in Text /\ Prompt # <<>> /\ Prompt[Len(Prompt)] # NewLine
    BY <1>4, KeyboardAssumption DEF Syscall6
  <2>2. PICK at : at = AfterPuts(Prompt)
    OBVIOUS
  <2>3. at.col > 0 /\ at.bound = at.col /\ at.cursor = Position(at.row, at.col)
    BY <2>1, <2>2, BegunTyped, PutsEffect
  <2>4. cursor' = at.cursor /\ row' = at.row /\ col' = at.col /\ col_bound' = at.bound
    BY <2>1, <2>2 DEF Puts
  <2> QED BY <2>3, <2>4
<1>5. Placed'
  BY <1>1, <1>3, <1>4 DEF Placed
<1> QED BY <1>2, <1>3, <1>5 DEF Shown

(* The other system calls. *)
LEMMA LineShell ==
  ASSUME TypeOK, Taken, Placed, Shown, Shell
  PROVE  Taken' /\ Placed' /\ Shown'
<1>1. ~isr
  BY DEF Shell
<1>2. CASE Syscall6
  BY <1>1, <1>2, LinePrompt
<1>3. CASE Syscall5 \/ Syscall8 \/ SeeEnter \/ CopyLine
  <2>1. UNCHANGED <<handler, keyboard_state>> /\ mode' # "reading" /\ mode' # "prompted"
    BY <1>3 DEF Syscall5, Syscall8, SeeEnter, CopyLine
  <2>2. mode' = "copying" => ~keyboard_input_on
    BY <1>3 DEF Syscall5, Syscall8, SeeEnter, CopyLine, is_keyboard_blocking
  <2> QED BY <2>1, <2>2 DEF Taken, Placed, Shown, Reading
<1>4. CASE Syscall4 \/ Syscall7
  <2>1. /\ Activate /\ UNCHANGED <<handler, console>> /\ mode' # "copying" /\ mode' # "prompted"
        /\ mode' = "reading" => mode = "prompted"
    BY <1>4 DEF Syscall4, Syscall7
  <2>2. buffer_index' = 0 /\ col \in Nat
    BY <2>1 DEF Activate, TypeOK
  <2>3. Taken'
    BY <1>1, <2>1, <2>2 DEF Taken, Index
  <2>4. Placed'
    BY <2>1, <2>2 DEF Placed, Reading
  <2>5. Shown'
    BY <2>2 DEF Shown
  <2> QED BY <2>3, <2>4, <2>5
<1> QED BY <1>2, <1>3, <1>4 DEF Shell

(* They hold from the start and on. *)
LEMMA LineAlways == Spec => [](TypeOK /\ Taken /\ Placed /\ Shown)
<1>1. Init => Taken /\ Placed /\ Shown
  BY DEF Init, Taken, Placed, Shown, Reading, Index
<1>2. ASSUME TypeOK, TypeOK', Taken, Placed, Shown, [Next]_vars PROVE Taken' /\ Placed' /\ Shown'
  <2>1. CASE UNCHANGED vars
    BY <1>2, <2>1, LineQuiet DEF Taken
  <2>2. ASSUME NEW k \in Key, Deliver(k) PROVE Taken' /\ Placed' /\ Shown'
    BY <1>2, <2>2, LineQuiet DEF Deliver, Taken
  <2>3. CASE IsrNoChar
    BY <1>2, <2>3, LineQuiet DEF IsrNoChar, ReadAgain
  <2> QED BY <1>2, <2>1, <2>2, <2>3, LineFirstRead, LineBackspace, LineEnter, LineChar, LineShell
          DEF Next, Isr
<1> QED BY <1>1, <1>2, TypesKept, PTL DEF Spec

(* For every screen, buffer and prompt: the line on the screen is the line  *)
(* in the buffer and ends at the cursor, whatever was printed, typed ahead  *)
(* or erased before, until its columns no longer fit a byte.                *)
THEOREM LineShown == Spec => []ScreenShowsLine
<1>1. ASSUME TypeOK, Placed, Shown PROVE ScreenShowsLine
  <2> SUFFICES ASSUME Reading, AfterPrompt, Unwrapped, ~wild PROVE cursor = Position(row, col)
    BY <1>1 DEF ScreenShowsLine, Shown
  <2>1. col_bound > 0 /\ (col > 0 => cursor = Position(row, col))
    BY <1>1 DEF Placed, Reading
  <2>2. col > 0
    BY <1>1, <2>1 DEF AfterPrompt, TypeOK
  <2> QED BY <2>1, <2>2
<1> QED BY <1>1, LineAlways, PTL

(* For every screen and prompt: no key typed while a line is read changes a *)
(* cell before the line, as long as the column fits its byte.               *)
THEOREM PromptStays == Spec => PromptKept
<1>1. ASSUME TypeOK, TypeOK', Placed, [Next]_vars, Reading, AfterPrompt, mode' = mode, col' < BYTE,
             NEW p \in DOMAIN screen, p < Position(row, col_bound)
      PROVE  screen'[p] = screen[p]
  <2>1. /\ buffer_index \in Nat /\ col \in Nat /\ row \in Nat /\ col_bound \in Nat
        /\ col_bound > 0 /\ col >= buffer_index + col_bound
        /\ BYTE \in Nat \ {0} /\ col' \in Nat
    BY <1>1, ScreenAssumption DEF TypeOK, Placed, Reading, AfterPrompt
  <2>2. ASSUME NEW c \in Nat, col_bound <= c, c < BYTE PROVE Position(row, c) # p
    <3>1. c % BYTE = c /\ col_bound % BYTE = col_bound
      BY <2>1, <2>2
    <3>2. (row % BYTE) * COLUMNS \in Nat
      <4>1. row % BYTE \in Nat /\ COLUMNS \in Nat
        BY <2>1, ScreenAssumption
      <4> QED BY <4>1
    <3>3. p \in Nat
      <4>1. p \in 0 .. ROWS * COLUMNS - 1
        BY <1>1, ScreenAssumption DEF TypeOK
      <4> QED BY <4>1
    <3> QED BY <1>1, <2>1, <2>2, <3>1, <3>2, <3>3 DEF Position
  <2>3. CASE IsrBackspace
    <3>1. \/ screen' = screen
          \/ col' = col - 1 /\ col > col_bound /\ screen' = Write(screen, row, col', Space)
      BY <2>1, <2>3 DEF IsrBackspace, MayErase
    <3>2. CASE col' = col - 1 /\ col > col_bound /\ screen' = Write(screen, row, col', Space)
      <4>1. Position(row, col - 1) # p
        BY <1>1, <2>1, <2>2, <3>2
      <4> QED BY <1>1, <3>2, <4>1 DEF Write
    <3> QED BY <3>1, <3>2
  <2>4. CASE IsrChar
    <3>1. col' = col + 1
      BY <2>4 DEF IsrChar
    <3>2. Position(row, col) # p /\ Position(row, col + 1) # p
      BY <1>1, <2>1, <2>2, <3>1
    <3>3. PICK ch : screen' = Write(Write(screen, row, col, ch), row, col + 1, Space)
      BY <2>4 DEF IsrChar
    <3> QED BY <1>1, <3>2, <3>3 DEF Write
  <2>5. CASE IsrCapsLock \/ IsrOff \/ IsrOn \/ IsrNoChar \/ IsrEnter
    BY <2>5 DEF IsrCapsLock, IsrOff, IsrOn, IsrNoChar, IsrEnter, Interrupted
  <2>6. CASE Shell
    <3>1. FALSE
      BY <1>1, <2>6 DEF Shell, Reading, Syscall4, Syscall5, Syscall6, Syscall7, Syscall8, SeeEnter, CopyLine
    <3> QED BY <3>1
  <2>7. ASSUME NEW k \in Key, Deliver(k) PROVE screen' = screen
    BY <2>7 DEF Deliver
  <2>8. CASE UNCHANGED vars
    BY <2>8
  <2> QED BY <1>1, <2>3, <2>4, <2>5, <2>6, <2>7, <2>8 DEF Next, Isr
<1>2. ASSUME TypeOK, TypeOK', Placed, [Next]_vars
      PROVE  [Reading /\ AfterPrompt /\ mode' = mode /\ col' < BYTE =>
                \A p \in DOMAIN screen : p < Position(row, col_bound) => screen'[p] = screen[p]]_vars
  BY <1>1, <1>2
<1> QED BY <1>2, LineAlways, PTL DEF Spec, PromptKept

-----------------------------------------------------------------------------
(* The line the program gets *)

(* A line reads up to its first NUL, ... *)
LEMMA ReadsUpTo ==
  ASSUME NEW f, NEW n \in Nat, n <= KEYBOARD_BUFFER_SIZE,
         \A j \in Index : j < n => f[j] # NUL, n \in Index => f[n] = NUL
  PROVE  CString(f) = [j \in 1 .. n |-> f[j - 1]]
<1> DEFINE ends == {j \in Index : f[j] = NUL}
           length == IF ends = {} THEN KEYBOARD_BUFFER_SIZE ELSE CHOOSE j \in ends : \A y \in ends : j <= y
<1>1. KEYBOARD_BUFFER_SIZE \in Nat
  BY KeyboardAssumption
<1>2. \A j \in ends : j \in Nat /\ n <= j
  BY <1>1 DEF Index
<1>3. CASE n \in Index
  <2>1. n \in ends
    BY <1>3
  <2>2. \A j \in ends : (\A y \in ends : j <= y) => j = n
    BY <1>2, <2>1
  <2>3. length = n
    <3> HIDE DEF ends
    <3> QED BY <1>2, <2>1, <2>2
  <2> HIDE DEF length
  <2> QED BY <2>3 DEF CString, length
<1>4. CASE n \notin Index
  <2>1. n = KEYBOARD_BUFFER_SIZE
    BY <1>1, <1>4 DEF Index
  <2>2. ends = {}
    BY <1>1, <1>2, <2>1 DEF Index
  <2>3. length = n
    BY <2>1, <2>2
  <2> HIDE DEF length
  <2> QED BY <2>3 DEF CString, length
<1> QED BY <1>3, <1>4

(* ... which every buffer has, or none at all. *)
LEMMA FirstEnd ==
  ASSUME NEW f
  PROVE  \E n \in Nat : /\ n <= KEYBOARD_BUFFER_SIZE
                        /\ \A j \in Index : j < n => f[j] # NUL
                        /\ n \in Index => f[n] = NUL
<1> DEFINE ends == {j \in Index : f[j] = NUL}
<1>1. KEYBOARD_BUFFER_SIZE \in Nat /\ Index \subseteq Nat
  BY KeyboardAssumption DEF Index
<1>2. CASE ends = {}
  BY <1>1, <1>2 DEF Index
<1>3. CASE ends # {}
  <2>1. ends \subseteq Nat
    BY <1>1
  <2>2. PICK n \in ends : \A y \in ends : n <= y
    <3> HIDE DEF ends
    <3> QED BY <1>3, <2>1, Least
  <2>3. n \in Nat /\ n <= KEYBOARD_BUFFER_SIZE /\ n \in Index /\ f[n] = NUL
    BY <1>1, <2>2 DEF Index
  <2>4. ASSUME NEW j \in Index, j < n PROVE f[j] # NUL
    <3>1. j \in Nat
      BY <1>1
    <3>2. f[j] = NUL => n <= j
      BY <2>2
    <3> QED BY <2>3, <2>4, <3>1, <3>2
  <2> QED BY <2>3, <2>4
<1> QED BY <1>2, <1>3

(* A line ended is the line that was read: the NUL lies behind it. *)
LEMMA EndedWhole ==
  ASSUME TypeOK, Taken, Reading, ~wild, Store(NUL)
  PROVE  CString(keyboard_buffer') = [j \in 1 .. buffer_index |-> keyboard_buffer[j - 1]]
<1>1. /\ buffer_index \in Nat /\ buffer_index <= KEYBOARD_BUFFER_SIZE /\ KEYBOARD_BUFFER_SIZE \in Nat
      /\ keyboard_buffer \in [Index -> Glyphs \cup {NUL}]
  BY KeyboardAssumption DEF TypeOK
<1>2. PICK f : f = keyboard_buffer'
  OBVIOUS
<1>3. /\ \A j \in Index : j < buffer_index => f[j] = keyboard_buffer[j] /\ f[j] # NUL
      /\ buffer_index \in Index => f[buffer_index] = NUL
  BY <1>1, <1>2 DEF Store, Taken, Reading
<1>4. PICK n \in Nat : n = buffer_index
  BY <1>1
<1>5. CString(f) = [j \in 1 .. n |-> f[j - 1]]
  BY <1>1, <1>3, <1>4, ReadsUpTo
<1>6. \A j \in 1 .. n : j - 1 \in Index /\ j - 1 < n
  BY <1>1, <1>4 DEF Index
<1>7. [j \in 1 .. n |-> f[j - 1]] = [j \in 1 .. n |-> keyboard_buffer[j - 1]]
  BY <1>3, <1>4, <1>6
<1> QED BY <1>2, <1>4, <1>5, <1>7

(* A line shorter than what is copied is copied whole. *)
LEMMA CopiedWhole ==
  ASSUME TypeOK, CopyLine, Len(CString(keyboard_buffer)) < COPIED
  PROVE  user_buf'[0] # Garbage /\ CString(user_buf') = CString(keyboard_buffer)
<1>1. KEYBOARD_BUFFER_SIZE \in Nat /\ COPIED \in 1 .. KEYBOARD_BUFFER_SIZE
  BY KeyboardAssumption
<1>2. PICK f : f = user_buf'
  OBVIOUS
<1>3. PICK k : k = keyboard_buffer
  OBVIOUS
<1>4. f = [j \in Index |-> IF j < COPIED THEN k[j] ELSE Garbage] /\ k \in [Index -> Glyphs \cup {NUL}]
  BY <1>2, <1>3 DEF CopyLine, TypeOK
<1>5. f[0] # Garbage
  <2>1. 0 \in Index /\ 0 < COPIED
    BY <1>1 DEF Index
  <2> QED BY <1>4, <2>1, KeyboardAssumption
<1>6. PICK n \in Nat : /\ n <= KEYBOARD_BUFFER_SIZE
                       /\ \A j \in Index : j < n => k[j] # NUL
                       /\ n \in Index => k[n] = NUL
  BY FirstEnd
<1>7. CString(k) = [j \in 1 .. n |-> k[j - 1]]
  <2>1. /\ n <= KEYBOARD_BUFFER_SIZE
        /\ \A j \in Index : j < n => k[j] # NUL
        /\ n \in Index => k[n] = NUL
    BY <1>6
  <2> QED BY <2>1, ReadsUpTo
<1>8. n < COPIED
  <2>1. Len(CString(k)) = n
    BY <1>7
  <2> QED BY <1>3, <2>1
<1>9. n \in Index /\ \A j \in Index : j <= n => f[j] = k[j]
  BY <1>1, <1>4, <1>8 DEF Index
<1>10. CString(f) = [j \in 1 .. n |-> f[j - 1]]
  <2>1. \A j \in Index : j < n => f[j] # NUL
    BY <1>1, <1>6, <1>9 DEF Index
  <2>2. f[n] = NUL
    BY <1>1, <1>6, <1>9 DEF Index
  <2> QED BY <1>6, <2>1, <2>2, ReadsUpTo
<1>11. \A j \in 1 .. n : j - 1 \in Index /\ j - 1 <= n
  BY <1>1, <1>8 DEF Index
<1> QED BY <1>2, <1>3, <1>5, <1>7, <1>9, <1>10, <1>11

(* A line is being read or is done, not both. *)
LEMMA ReadOrDone == ~(Reading /\ LineDone)
BY DEF Reading, LineDone

(* A step nobody sees. *)
LEMMA Unseen ==
  ASSUME ~wild, wild' = wild, Reading' <=> Reading, LineDone' <=> LineDone, Line' = Line, user_buf' = user_buf
  PROVE  UNCHANGED Lines!vars
<1>1. CASE Reading
  BY <1>1, ReadOrDone DEF Lines!vars
<1>2. CASE LineDone
  BY <1>2, ReadOrDone DEF Lines!vars
<1>3. CASE ~Reading /\ ~LineDone
  BY <1>3 DEF Lines!vars
<1> QED BY <1>1, <1>2, <1>3

(* While no line is read there is none. *)
LEMMA NoLine == ~Reading /\ ~LineDone => Line = <<>>
BY DEF Line

(* The line as it is read. *)
LEMMA LineRead == Reading => Line = [j \in 1 .. buffer_index |-> keyboard_buffer[j - 1]]
BY ReadOrDone DEF Line

(* Steps that leave the line. *)
LEMMA GivenQuiet ==
  ASSUME ~wild, wild' = wild, UNCHANGED <<keyboard_state, mode, user_buf>>
  PROVE  UNCHANGED Lines!vars
<1>1. (Reading' <=> Reading) /\ (LineDone' <=> LineDone) /\ Line' = Line
  BY DEF Reading, LineDone, Line, CString
<1> QED BY <1>1, Unseen

(* Steps that take place outside of it. *)
LEMMA GivenOutside ==
  ASSUME ~wild, wild' = wild, user_buf' = user_buf,
         ~Reading, ~LineDone, ~Reading', ~LineDone'
  PROVE  UNCHANGED Lines!vars
<1>1. Line = <<>> /\ Line' = <<>>
  BY DEF Line
<1> QED BY <1>1, Unseen

(* Before the call and in it, an interrupt while nobody reads changes no    *)
(* line: the one that was read lies in the buffer.                          *)
LEMMA GivenFirstRead ==
  ASSUME ~wild, wild' = wild, IsrCapsLock \/ IsrOff \/ IsrOn
  PROVE  UNCHANGED Lines!vars
<1>1. CASE IsrCapsLock \/ IsrOn
  BY <1>1, GivenQuiet DEF IsrCapsLock, IsrOn, Interrupted
<1>2. CASE IsrOff
  <2>1. (Reading' <=> Reading) /\ (LineDone' <=> LineDone) /\ ~Reading /\ user_buf' = user_buf
    BY <1>2 DEF IsrOff, Interrupted, Reading, LineDone
  <2>2. Line' = Line
    BY <1>2, <2>1 DEF IsrOff, Interrupted, Line, CString
  <2> QED BY <2>1, <2>2, Unseen
<1> QED BY <1>1, <1>2

(* A key outside the call. *)
LEMMA GivenReadAgain ==
  ASSUME ~wild, wild' = wild, Taken, ~Reading, IsrBackspace \/ IsrEnter \/ IsrChar
  PROVE  UNCHANGED Lines!vars
<1>1. keyboard_input_on /\ mode' = mode /\ user_buf' = user_buf
  BY DEF IsrBackspace, IsrEnter, IsrChar, ReadAgain, Taken
<1>2. ~LineDone /\ ~Reading' /\ ~LineDone'
  BY <1>1 DEF Taken, Reading, LineDone
<1> QED BY <1>1, <1>2, GivenOutside

(* Backspace erases the last character, or nothing. *)
LEMMA GivenErase ==
  ASSUME TypeOK, ~wild, wild' = wild, Taken, Reading, IsrBackspace
  PROVE  Lines!Erase \/ UNCHANGED Lines!vars
<1>1. /\ UNCHANGED <<keyboard_input_on, keyboard_buffer, mode, user_buf>> /\ buffer_index \in Nat
      /\ buffer_index' = IF buffer_index > 0 THEN buffer_index - 1 ELSE buffer_index
  BY DEF IsrBackspace, ReadAgain, IndexBefore, TypeOK
<1>2. Reading' /\ ~LineDone /\ ~LineDone'
  BY <1>1 DEF Reading, LineDone
<1>3. PICK n, k : n = buffer_index /\ k = keyboard_buffer
  OBVIOUS
<1>4. Line = [j \in 1 .. n |-> k[j - 1]]
  BY <1>3, LineRead
<1>5. Line' = [j \in 1 .. buffer_index' |-> k[j - 1]]
  BY <1>1, <1>2, <1>3 DEF Line
<1>6. CASE n = 0
  BY <1>1, <1>2, <1>3, <1>4, <1>5, <1>6, Unseen
<1>7. CASE n > 0
  <2>1. Line' = [j \in 1 .. n - 1 |-> k[j - 1]] /\ n \in Nat
    BY <1>1, <1>3, <1>5, <1>7
  <2>2. PICK l : l = Line
    OBVIOUS
  <2>3. Len(l) = n /\ l # <<>>
    BY <1>4, <1>7, <2>1, <2>2
  <2>4. SubSeq(l, 1, Len(l) - 1) = [j \in 1 .. n - 1 |-> k[j - 1]]
    <3>1. SubSeq(l, 1, n - 1) = [j \in 1 .. n - 1 |-> l[j]]
      BY <1>7, <2>1
    <3>2. \A j \in 1 .. n - 1 : l[j] = k[j - 1]
      BY <1>4, <1>7, <2>1, <2>2
    <3> QED BY <2>3, <3>1, <3>2
  <2>5. Line # <<>> /\ Line' = SubSeq(Line, 1, Len(Line) - 1)
    BY <2>1, <2>2, <2>3, <2>4
  <2> QED BY <1>1, <1>2, <2>5 DEF Lines!Erase
<1> QED BY <1>1, <1>3, <1>6, <1>7

(* A function on 1 .. n is a sequence of n; ... *)
LEMMA SeqIs ==
  ASSUME NEW S, NEW n \in Nat, NEW s \in [1 .. n -> S]
  PROVE  s \in Seq(S) /\ Len(s) = n
<1>1. s \in Seq(S)
  BY SeqDef, Zenon
<1>2. Len(s) \in Nat /\ 1 .. n = 1 .. Len(s)
  BY <1>1, LenProperties
<1>3. Len(s) = n
  <2>1. n > 0 => n \in 1 .. Len(s)
    BY <1>2
  <2>2. Len(s) > 0 => Len(s) \in 1 .. n
    BY <1>2
  <2> QED BY <1>2, <2>1, <2>2
<1> QED BY <1>1, <1>3

(* ... one more makes it one of n + 1. *)
LEMMA SeqGrow ==
  ASSUME NEW S, NEW n \in Nat, NEW s \in [1 .. n -> S], NEW t \in [1 .. n + 1 -> S],
         \A j \in 1 .. n : t[j] = s[j]
  PROVE  Append(s, t[n + 1]) = t
<1>1. s \in Seq(S) /\ Len(s) = n /\ t \in Seq(S) /\ Len(t) = n + 1
  BY SeqIs
<1>2. t[n + 1] \in S
  OBVIOUS
<1>3. /\ Append(s, t[n + 1]) \in Seq(S) /\ Len(Append(s, t[n + 1])) = n + 1
      /\ \A j \in 1 .. n : Append(s, t[n + 1])[j] = s[j]
      /\ Append(s, t[n + 1])[n + 1] = t[n + 1]
  BY <1>1, <1>2, AppendProperties
<1>4. \A j \in 1 .. n + 1 : Append(s, t[n + 1])[j] = t[j]
  <2>1. \A j \in 1 .. n + 1 : j \in 1 .. n \/ j = n + 1
    OBVIOUS
  <2> QED BY <1>3, <2>1
<1> QED BY <1>1, <1>3, <1>4, SeqEqual

(* A letter adds its character. *)
LEMMA GivenAdd ==
  ASSUME TypeOK, ~wild, ~wild', Taken, Reading, IsrChar
  PROVE  Lines!Add
<1>1. PICK ch \in Glyphs : ch = Glyph(port, is_capslock)
  BY LetterHasGlyph DEF IsrChar
<1>2. /\ UNCHANGED <<keyboard_input_on, mode, user_buf>> /\ buffer_index \in Nat
      /\ buffer_index' = buffer_index + 1 /\ buffer_index \in Index
      /\ keyboard_buffer' = [keyboard_buffer EXCEPT ![buffer_index] = ch]
  BY <1>1 DEF IsrChar, ReadAgain, Store, TypeOK
<1>3. Reading' /\ ~LineDone /\ ~LineDone'
  BY <1>2 DEF Reading, LineDone
<1>4. PICK n, k, kk : n = buffer_index /\ k = keyboard_buffer /\ kk = keyboard_buffer'
  OBVIOUS
<1>5. Line = [j \in 1 .. n |-> k[j - 1]]
  BY <1>4, LineRead
<1>6. Line' = [j \in 1 .. n + 1 |-> kk[j - 1]]
  BY <1>2, <1>3, <1>4 DEF Line
<1>7. n \in Nat /\ n < KEYBOARD_BUFFER_SIZE /\ KEYBOARD_BUFFER_SIZE \in Nat
  BY <1>2, <1>4, KeyboardAssumption DEF Index
<1>8. kk[n] = ch /\ \A j \in 1 .. n : kk[j - 1] = k[j - 1]
  <2>1. k \in [Index -> Glyphs \cup {NUL}] /\ n \in Index
    BY <1>2, <1>4 DEF TypeOK
  <2>2. \A j \in 1 .. n : j - 1 \in Index /\ j - 1 # n
    BY <1>7 DEF Index
  <2> QED BY <1>2, <1>4, <2>1, <2>2
<1>9. [j \in 1 .. n + 1 |-> kk[j - 1]] = Append([j \in 1 .. n |-> k[j - 1]], ch)
  <2> DEFINE S == Glyphs \cup {NUL}
             l == [j \in 1 .. n |-> k[j - 1]]
             ll == [j \in 1 .. n + 1 |-> kk[j - 1]]
  <2>1. k \in [Index -> S] /\ kk \in [Index -> S]
    <3>1. Store(ch)
      BY <1>1 DEF IsrChar
    <3> QED BY <1>4, <3>1, StoreTyped DEF TypeOK
  <2>2. \A j \in 1 .. n + 1 : j - 1 \in Index
    BY <1>7 DEF Index
  <2>3. \A j \in 1 .. n : j \in 1 .. n + 1
    BY <1>7
  <2>4. l \in [1 .. n -> S] /\ ll \in [1 .. n + 1 -> S]
    <3> HIDE DEF S
    <3> QED BY <2>1, <2>2, <2>3
  <2>5. (\A j \in 1 .. n : ll[j] = l[j]) /\ ll[n + 1] = ch
    BY <1>7, <1>8, <2>3
  <2> HIDE DEF S, l, ll
  <2>6. Append(l, ll[n + 1]) = ll
    BY <1>7, <2>4, <2>5, SeqGrow
  <2> QED BY <2>5, <2>6 DEF l, ll
<1>10. Line' = Append(Line, ch)
  BY <1>5, <1>6, <1>9
<1> QED BY <1>2, <1>3, <1>10 DEF Lines!Add

(* Enter ends the line and leaves it as it is. *)
LEMMA GivenEnd ==
  ASSUME TypeOK, ~wild, wild' = wild, Taken, Reading, IsrEnter
  PROVE  Lines!EndLine
<1>1. Store(NUL) /\ mode' = mode /\ user_buf' = user_buf /\ ~keyboard_input_on'
  BY DEF IsrEnter, StoreEnd, ReadAgain
<1>2. ~Reading' /\ LineDone' /\ ~LineDone
  BY <1>1 DEF Reading, LineDone
<1>3. Line' = CString(keyboard_buffer')
  BY <1>2 DEF Line, CString
<1>4. Line = [j \in 1 .. buffer_index |-> keyboard_buffer[j - 1]]
  BY LineRead
<1>5. Line' = Line
  BY <1>1, <1>3, <1>4, EndedWhole
<1> QED BY <1>1, <1>2, <1>5 DEF Lines!EndLine

(* What the system calls are to the program. *)
LEMMA GivenShell ==
  ASSUME TypeOK, ~wild, wild' = wild, Taken, Shell
  PROVE  Lines!Begin \/ Lines!Take \/ Lines!Forget \/ UNCHANGED Lines!vars
<1>1. CASE Syscall7
  <2>1. ~Reading /\ ~LineDone /\ ~Reading' /\ ~LineDone' /\ user_buf' = user_buf
    BY <1>1 DEF Syscall7, Reading, LineDone
  <2> QED BY <2>1, GivenOutside
<1>2. CASE Syscall5
  BY <1>2, GivenQuiet DEF Syscall5
<1>3. CASE Syscall8
  <2>1. ~Reading /\ ~LineDone /\ ~Reading' /\ ~LineDone' /\ user_buf' = user_buf
    BY <1>3 DEF Syscall8, Reading, LineDone
  <2> QED BY <2>1, GivenOutside
<1>4. CASE Syscall6
  <2>1. ~Reading /\ ~LineDone /\ ~Reading' /\ ~LineDone'
    BY <1>4 DEF Syscall6, Reading, LineDone
  <2>2. CASE user_buf' = user_buf
    BY <2>1, <2>2, GivenOutside
  <2>3. CASE user_buf' = [j \in Index |-> Garbage]
    <3>1. user_buf'[0] = Garbage
      <4>1. 0 \in Index
        BY KeyboardAssumption DEF Index
      <4> QED BY <2>3, <4>1
    <3>2. Line = <<>> /\ Line' = <<>>
      BY <2>1 DEF Line
    <3> QED BY <2>1, <3>1, <3>2 DEF Lines!Forget
  <2> QED BY <1>4, <2>2, <2>3 DEF Syscall6
<1>5. CASE Syscall4
  <2>1. ~Reading /\ ~LineDone /\ Reading' /\ ~LineDone' /\ user_buf' = user_buf /\ buffer_index' = 0
    BY <1>5 DEF Syscall4, Activate, Reading, LineDone
  <2>2. Line' = <<>>
    BY <2>1 DEF Line
  <2> QED BY <2>1, <2>2 DEF Lines!Begin
<1>6. CASE SeeEnter
  <2>1. ~Reading /\ LineDone /\ ~Reading' /\ LineDone' /\ UNCHANGED <<keyboard_buffer, user_buf>>
    BY <1>6 DEF SeeEnter, is_keyboard_blocking, Reading, LineDone
  <2>2. Line' = Line
    BY <2>1 DEF Line, CString
  <2> QED BY <2>1, <2>2, Unseen
<1>7. CASE CopyLine
  <2>1. ~Reading /\ LineDone /\ ~Reading' /\ ~LineDone'
    BY <1>7 DEF CopyLine, Reading, LineDone
  <2>2. Line = CString(keyboard_buffer) /\ Line' = <<>>
    BY <2>1 DEF Line
  <2>3. Len(Line) < COPIED => user_buf'[0] # Garbage /\ CString(user_buf') = Line
    BY <1>7, <2>2, CopiedWhole
  <2> QED BY <2>1, <2>2, <2>3 DEF Lines!Take, CString
<1> QED BY <1>1, <1>2, <1>3, <1>4, <1>5, <1>6, <1>7 DEF Shell

(* The handler, the calls and the shell implement LineReader, for every     *)
(* buffer, screen and keyboard, step by step: the program that asks gets    *)
(* the line as it was typed and erased after it asked, ended at Enter       *)
(* though the handler runs on before the copy, and nothing else in between. *)
(* That it gets one is left to fairness.                                    *)
THEOREM LineGiven == Spec => Lines!Init /\ [][Lines!Next]_(Lines!vars)
<1>1. Init => Lines!Init
  <2> SUFFICES ASSUME Init PROVE Lines!Init
    OBVIOUS
  <2>1. ~Reading /\ ~LineDone /\ ~wild
    BY DEF Init, Reading, LineDone
  <2>2. user_buf[0] = Garbage
    <3>1. 0 \in Index
      BY KeyboardAssumption DEF Index
    <3> QED BY <3>1 DEF Init
  <2> QED BY <2>1, <2>2, NoLine DEF Lines!Init
<1>2. ASSUME TypeOK, TypeOK', Taken, [Next]_vars PROVE [Lines!Next]_(Lines!vars)
  <2>1. CASE wild'
    BY <2>1 DEF Lines!Next
  <2>2. CASE ~wild'
    <3>1. ~wild
      BY <1>2, <2>2 DEF TypeOK, Next, Isr, Shell, Deliver, IsrCapsLock, IsrOff, IsrOn, IsrNoChar, IsrBackspace,
                        IsrEnter, IsrChar, Interrupted, Syscall4, Syscall5, Syscall6, Syscall7, Syscall8,
                        SeeEnter, CopyLine
    <3>5. wild' = wild
      BY <1>2, <2>2, <3>1 DEF TypeOK
    <3>2. CASE UNCHANGED vars
      BY <3>1, <3>5, <3>2, GivenQuiet
    <3>3. ASSUME NEW k \in Key, Deliver(k) PROVE UNCHANGED Lines!vars
      BY <3>1, <3>5, <3>3, GivenQuiet DEF Deliver
    <3>4. CASE IsrNoChar
      BY <3>1, <3>5, <3>4, GivenQuiet DEF IsrNoChar, ReadAgain
    <3>6. CASE Isr /\ ~IsrNoChar
      <4>1. Lines!Erase \/ Lines!Add \/ Lines!EndLine \/ UNCHANGED Lines!vars
        BY <1>2, <2>2, <3>1, <3>5, <3>6, GivenFirstRead, GivenReadAgain, GivenErase, GivenAdd, GivenEnd DEF Isr
      <4> QED BY <3>5, <4>1 DEF Lines!Next
    <3>7. CASE Shell
      <4>1. Lines!Begin \/ Lines!Take \/ Lines!Forget \/ UNCHANGED Lines!vars
        BY <1>2, <3>1, <3>5, <3>7, GivenShell
      <4> QED BY <3>5, <4>1 DEF Lines!Next
    <3> QED BY <1>2, <3>2, <3>3, <3>4, <3>6, <3>7 DEF Next
  <2> QED BY <2>1, <2>2
<1> QED BY <1>1, <1>2, LineAlways, PTL DEF Spec

=============================================================================
