----------------------------- MODULE BootProofs -----------------------------
(***************************************************************************)
(* Theorems about Boot, for any number of stray gates and any vectors the  *)
(* user program raises.  One invariant, Inductive, carries all of them: it *)
(* says what each stage of the boot has already done, and who may be on    *)
(* the kernel's stack.                                                     *)
(***************************************************************************)
EXTENDS BootProperties, SequenceTheorems, TLAPS

(* Stages of the boot.  Quiet: interrupts are off.  Masked: they are on, or *)
(* about to be, and every line is masked.  Open: the keyboard's line is not.*)
Quiet == {"loader", "loader_paged", "loader_virtual", "load_gdt", "pic_remap",
          "pic_offsets", "pic_mask", "lidt"}
Masked == {"lidt", "gates", "activate_keyboard_interrupt"}
Running == {"user", "printing"}
Launch == {"kernel_execute_user_program"} \cup Running
Paged == {"shell", "set_tss_kernel_current_stack"} \cup Launch
Open == {"filesystem", "gdt_install_tss", "set_tss_register", "paging"} \cup Paged
AllSteps == Quiet \cup Masked \cup Open

(* What is done by then. *)
Order ==
  /\ step \in AllSteps
  /\ step \in Quiet => ~interrupts /\ frames = <<>>
  /\ step \in Masked => masked = Irq
  /\ step \in Open => masked = Irq \ {IRQ_KEYBOARD}
  /\ step \in {"pic_mask"} \cup Masked \cup Open => offset = "remapped"
  /\ step \notin Quiet => idt
  /\ gates <= ISR_STUB_TABLE_LIMIT + stray_stubs
  /\ step \in {"activate_keyboard_interrupt"} \cup Open
       => gates = ISR_STUB_TABLE_LIMIT + stray_stubs
  /\ step = "set_tss_register" => tss = "installed"
  /\ step \in {"paging"} \cup Paged => tss = "loaded"
  /\ step \in Launch => esp0
  /\ step \in {"loader", "loader_paged"} => page_dir[0] = KernelEntry
  /\ page_dir[KernelPage] = KernelEntry
  /\ step \in Paged => page_dir[0].present /\ page_dir[0].user

(* Call 4 has turned interrupts on. *)
Calling == step = "user" /\ frames[1].vector = SYSCALL /\ frames[1].done

(* Only a call that has turned interrupts on is interrupted, and only by    *)
(* the keyboard.                                                            *)
Stack ==
  /\ Len(frames) <= 2
  /\ \A i \in 1 .. Len(frames) : frames[i].vector < ISR_STUB_TABLE_LIMIT
  /\ step \notin Running => \A i \in 1 .. Len(frames) : frames[i].vector = 32 + IRQ_KEYBOARD
  /\ Len(frames) = 1 /\ interrupts => Calling
  /\ Len(frames) = 2 => ~interrupts /\ Calling /\ frames[2].vector = 32 + IRQ_KEYBOARD

Inductive == TypeOK /\ Order /\ Stack /\ ~fault

-----------------------------------------------------------------------------
(* The directory, the map and the count keep their shape when the user      *)
(* program's page is allocated or the identity mapping goes.                *)
LEMMA Allocates ==
  ASSUME PagingTypeOK, Allocate(0)
  PROVE  /\ PagingTypeOK'
         /\ page_dir'[0].present /\ page_dir'[0].user
         /\ page_dir'[KernelPage] = page_dir[KernelPage]
<1> DEFINE e == [present |-> TRUE, user |-> TRUE, frame |-> FrameGiven]
<1>1. page_dir \in [Pages -> PageEntry] /\ free_page_frame_count \in Nat
  BY DEF PagingTypeOK
<1>2. FrameGiven \in 0 .. 1023
  BY <1>1 DEF FrameGiven
<1>3. e \in PageEntry /\ e.present /\ e.user
  BY <1>2 DEF PageEntry
<1>4. page_dir' = [page_dir EXCEPT ![0] = e]
  BY DEF Allocate
<1> HIDE DEF e
<1>5. /\ page_dir' \in [Pages -> PageEntry] /\ page_dir'[0] = e
      /\ page_dir'[KernelPage] = page_dir[KernelPage]
  BY <1>1, <1>3, <1>4, PagingAssumption
<1>6. page_frame_map' \in [Frame -> BOOLEAN]
  <2>1. page_frame_map' = [f \in Frame |-> IF f = FrameMarked THEN TRUE ELSE page_frame_map[f]]
    BY DEF Allocate, MapMarked
  <2> QED BY <2>1 DEF PagingTypeOK
<1>7. free_page_frame_count' \in Nat
  BY <1>1, PagingAssumption DEF Allocate, CountMarked, FrameMarked
<1> QED BY <1>3, <1>5, <1>6, <1>7 DEF PagingTypeOK

LEMMA Drops ==
  ASSUME PagingTypeOK, DropIdentity
  PROVE  PagingTypeOK' /\ page_dir'[KernelPage] = page_dir[KernelPage]
<1>1. NotPresent \in PageEntry
  BY DEF NotPresent, PageEntry
<1> QED BY <1>1, PagingAssumption DEF PagingTypeOK, DropIdentity

LEMMA PagesKept == ASSUME PagingTypeOK, UNCHANGED pvars PROVE PagingTypeOK'
<1> QED BY DEF PagingTypeOK, pvars

LEMMA Start == ASSUME Init PROVE Inductive
<1>1. TypeOK
  <2>1. frames \in Seq(InterruptFrame)
    BY EmptySeq DEF Init
  <2>4. PagingTypeOK
    BY PagingAssumption DEF Init, PagingInit, PagingTypeOK, KernelEntry, NotPresent, PageEntry, Frame
  <2>2. /\ gates \in 0 .. IDT_MAX_ENTRY_COUNT
        /\ tss \in {"none", "installed", "loaded"}
        /\ offset \in {"bios", "remapped"}
        /\ masked \subseteq Irq /\ requested \subseteq Irq /\ in_service \subseteq Irq
        /\ stray_stubs \in StrayStubs
    BY DEF Init, IDT_MAX_ENTRY_COUNT
  <2>3. idt \in BOOLEAN /\ esp0 \in BOOLEAN /\ interrupts \in BOOLEAN /\ fault \in BOOLEAN
    BY Zenon DEF Init
  <2> QED BY <2>1, <2>2, <2>3, <2>4, Zenon DEF TypeOK
<1>2. Order
  <2>1. page_dir[0] = KernelEntry /\ page_dir[KernelPage] = KernelEntry
    BY PagingAssumption DEF Init, PagingInit
  <2> QED
    BY <1>1, <2>1, StubAssumption
    DEF Init, Order, AllSteps, Quiet, Masked, Open, Paged, Launch, Running, ISR_STUB_TABLE_LIMIT, TypeOK
<1>3. Stack
  BY DEF Init, Stack
<1> QED BY <1>1, <1>2, <1>3 DEF Inductive, Init

(* The boot goes on only when nothing is being handled. *)
LEMMA SetupTypes == ASSUME Inductive, Setup PROVE TypeOK'
<1>1. PagingTypeOK'
  <2>1. CASE DropIdentity
    BY <2>1, Drops DEF Inductive, TypeOK
  <2>2. CASE AllocateUserPage
    BY <2>2, Allocates DEF AllocateUserPage, Inductive, TypeOK
  <2>3. CASE ~DropIdentity /\ ~AllocateUserPage
    <3>1. UNCHANGED pvars
      BY <2>3 DEF Setup, EnablePaging, Jump, LoadGdt, PicInit, PicOffsets, PicMask, Lidt,
                  SetInterruptGate, EndOfStubs, ActivateKeyboardInterrupt, FileSystem,
                  InstallTss, SetTssRegister, SetTssStack, ExecuteUserProgram, memory
    <3> QED BY <3>1, PagesKept DEF Inductive, TypeOK
  <2> QED BY <2>1, <2>2, <2>3
<1> USE DEF Inductive, TypeOK, At, memory, descriptors, pic
<1> HIDE DEF PagingTypeOK
<1>2. CASE SetInterruptGate
  BY <1>1, <1>2, StubAssumption DEF SetInterruptGate, ISR_STUB_TABLE_LIMIT, IDT_MAX_ENTRY_COUNT
<1>3. CASE EnablePaging \/ Jump \/ DropIdentity \/ LoadGdt
  BY <1>1, <1>3 DEF EnablePaging, Jump, DropIdentity, LoadGdt
<1>4. CASE PicInit \/ PicOffsets \/ PicMask \/ Lidt
  BY <1>1, <1>4 DEF PicInit, PicOffsets, PicMask, Lidt
<1>5. CASE EndOfStubs \/ ActivateKeyboardInterrupt \/ FileSystem \/ InstallTss
  BY <1>1, <1>5 DEF EndOfStubs, ActivateKeyboardInterrupt, FileSystem, InstallTss
<1>6. CASE SetTssRegister \/ AllocateUserPage \/ SetTssStack \/ ExecuteUserProgram
  BY <1>1, <1>6 DEF SetTssRegister, AllocateUserPage, SetTssStack, ExecuteUserProgram
<1> QED BY <1>2, <1>3, <1>4, <1>5, <1>6 DEF Setup

LEMMA SetupOrder == ASSUME Inductive, Setup PROVE Order'
<1> USE DEF Inductive, Order, AllSteps, Quiet, Masked, Open, Paged, Launch, Running, At,
            memory, descriptors, pvars, pic
<1>1. CASE SetInterruptGate
  BY <1>1, StubAssumption DEF SetInterruptGate, ISR_STUB_TABLE_LIMIT, TypeOK
<1>2. CASE EnablePaging
  BY <1>2 DEF EnablePaging
<1>3. CASE Jump \/ LoadGdt
  BY <1>3 DEF Jump, LoadGdt
<1>4. CASE DropIdentity
  <2>1. page_dir'[KernelPage] = page_dir[KernelPage]
    BY <1>4, Drops DEF TypeOK
  <2> QED BY <1>4, <2>1 DEF DropIdentity
<1>5. CASE PicInit \/ PicOffsets \/ PicMask
  BY <1>5 DEF PicInit, PicOffsets, PicMask
<1>6. CASE Lidt \/ EndOfStubs
  BY <1>6 DEF Lidt, EndOfStubs
<1>7. CASE ActivateKeyboardInterrupt \/ FileSystem
  BY <1>7 DEF ActivateKeyboardInterrupt, FileSystem
<1>8. CASE InstallTss \/ SetTssRegister
  BY <1>8 DEF InstallTss, SetTssRegister
<1>9. CASE AllocateUserPage
  <2>1. /\ page_dir'[0].present /\ page_dir'[0].user
        /\ page_dir'[KernelPage] = page_dir[KernelPage]
    BY <1>9, Allocates DEF AllocateUserPage, TypeOK
  <2> QED BY <1>9, <2>1 DEF AllocateUserPage
<1>10. CASE SetTssStack \/ ExecuteUserProgram
  BY <1>10 DEF SetTssStack, ExecuteUserProgram
<1> QED BY <1>1, <1>2, <1>3, <1>4, <1>5, <1>6, <1>7, <1>8, <1>9, <1>10 DEF Setup

LEMMA SetupLeavesStack == ASSUME Setup PROVE frames = <<>> /\ frames' = <<>> /\ ~fault /\ ~fault'
<1> USE DEF At
<1>1. CASE SetInterruptGate \/ EnablePaging \/ Jump \/ DropIdentity \/ LoadGdt
  BY <1>1 DEF SetInterruptGate, EnablePaging, Jump, DropIdentity, LoadGdt
<1>2. CASE PicInit \/ PicOffsets \/ PicMask \/ Lidt \/ EndOfStubs
  BY <1>2 DEF PicInit, PicOffsets, PicMask, Lidt, EndOfStubs
<1>3. CASE ActivateKeyboardInterrupt \/ FileSystem \/ InstallTss \/ SetTssRegister
  BY <1>3 DEF ActivateKeyboardInterrupt, FileSystem, InstallTss, SetTssRegister
<1>4. CASE AllocateUserPage \/ SetTssStack \/ ExecuteUserProgram
  BY <1>4 DEF AllocateUserPage, SetTssStack, ExecuteUserProgram
<1> QED BY <1>1, <1>2, <1>3, <1>4 DEF Setup

LEMMA SetupStep == ASSUME Inductive, Setup PROVE Inductive'
<1>1. Stack'
  BY SetupLeavesStack DEF Stack
<1> QED BY <1>1, SetupTypes, SetupOrder, SetupLeavesStack DEF Inductive

-----------------------------------------------------------------------------
(* Only the keyboard's line is open, and only where its gate is set. *)
LEMMA OnlyKeyboard ==
  ASSUME Inductive, NEW q \in Irq, Deliverable(q)
  PROVE  q = IRQ_KEYBOARD /\ step \in Open /\ Vector(q) = 33
<1>1. interrupts /\ q \notin masked /\ ~fault
  BY DEF Deliverable
<1>2. step \in Open
  BY <1>1 DEF Inductive, Order, AllSteps, Quiet, Masked
<1>3. q = IRQ_KEYBOARD
  BY <1>1, <1>2 DEF Inductive, Order
<1>4. Vector(q) = 33
  BY <1>2, <1>3 DEF Vector, IRQ_KEYBOARD, Inductive, Order, Open, Paged, Launch, Running
<1> QED BY <1>2, <1>3, <1>4

(* Every handler of the table is behind its gate once the keyboard's line   *)
(* is open, and the stack is there once the user program runs.              *)
LEMMA GatesReady ==
  ASSUME Inductive, step \in Open, NEW v \in 0 .. ISR_STUB_TABLE_LIMIT - 1
  PROVE  Ready(v)
<1>1. idt /\ gates = ISR_STUB_TABLE_LIMIT + stray_stubs
  BY DEF Inductive, Order, Open, Paged, Launch, Running, Quiet
<1>2. stray_stubs \in Nat
  BY StubAssumption DEF Inductive, TypeOK, ISR_STUB_TABLE_LIMIT, IDT_MAX_ENTRY_COUNT
<1>3. InUser => tss = "loaded" /\ esp0
  BY DEF InUser, Inductive, Order, Paged, Launch, Running
<1> QED BY <1>1, <1>2, <1>3 DEF Ready, ISR_STUB_TABLE_LIMIT

(* Entering a handler that is there pushes a frame and turns interrupts off. *)
LEMMA Enters ==
  ASSUME Inductive, step \in Open, NEW v \in 0 .. ISR_STUB_TABLE_LIMIT - 1, EnterByGate(v)
  PROVE  /\ frames' = Append(frames, [vector |-> v, flag |-> interrupts, done |-> FALSE])
         /\ [vector |-> v, flag |-> interrupts, done |-> FALSE] \in InterruptFrame
         /\ frames' \in Seq(InterruptFrame) /\ interrupts' = FALSE /\ fault' = fault
<1>1. /\ frames' = Append(frames, [vector |-> v, flag |-> interrupts, done |-> FALSE])
      /\ interrupts' = FALSE /\ fault' = fault
  BY GatesReady DEF EnterByGate
<1>2. [vector |-> v, flag |-> interrupts, done |-> FALSE] \in InterruptFrame
  BY DEF InterruptFrame, Inductive, TypeOK, ISR_STUB_TABLE_LIMIT, IDT_MAX_ENTRY_COUNT
<1>3. frames' \in Seq(InterruptFrame)
  BY <1>1, <1>2 DEF Inductive, TypeOK
<1> QED BY <1>1, <1>2, <1>3

LEMMA FrameFacts ==
  ASSUME Inductive
  PROVE  /\ frames \in Seq(InterruptFrame) /\ Len(frames) \in 0 .. 2
         /\ frames = <<>> <=> Len(frames) = 0
         /\ \A i \in 1 .. Len(frames) : frames[i] \in InterruptFrame
<1>1. frames \in Seq(InterruptFrame) /\ Len(frames) <= 2
  BY DEF Inductive, TypeOK, Stack
<1>2. Len(frames) \in Nat /\ \A i \in 1 .. Len(frames) : frames[i] \in InterruptFrame
  BY <1>1, LenProperties, ElementOfSeq
<1>3. frames = <<>> => Len(frames) = 0
  BY EmptySeq
<1>4. frames # <<>> => Len(frames) \in Nat \ {0}
  BY <1>1, EmptySeq
<1>5. Len(frames) \in 0 .. 2
  <2>1. \A n \in Nat : n <= 2 => n \in 0 .. 2
    OBVIOUS
  <2> QED BY <1>1, <1>2, <2>1, Zenon
<1>6. frames \in Seq(InterruptFrame) /\ \A i \in 1 .. Len(frames) : frames[i] \in InterruptFrame
  BY <1>1, <1>2, Zenon
<1>7. frames = <<>> <=> Len(frames) = 0
  BY <1>3, <1>4
<1> QED BY <1>5, <1>6, <1>7, Zenon

(* A step of a device or a handler changes the types of these only. *)
LEMMA TypesKept ==
  ASSUME Inductive, UNCHANGED <<memory, offset, masked>>,
         frames' \in Seq(InterruptFrame), interrupts' \in BOOLEAN, fault' = fault,
         requested' \subseteq Irq, in_service' \subseteq Irq
  PROVE  TypeOK'
<1>1. UNCHANGED <<pvars, idt, gates, tss, esp0, stray_stubs, offset, masked>>
  BY DEF memory, descriptors
<1>2. TypeOK
  BY DEF Inductive
<1>3. PagingTypeOK'
  BY <1>1, <1>2, PagesKept DEF TypeOK
<1> QED BY <1>1, <1>2, <1>3, Zenon DEF TypeOK

(* What neither the stage nor what it has done depends on. *)
LEMMA OrderKept ==
  ASSUME Inductive, step \notin Quiet, UNCHANGED <<step, memory, offset, masked>>
  PROVE  Order'
<1> QED BY DEF Inductive, Order, memory, descriptors, pvars, AllSteps, Quiet, Masked, Open, Paged, Launch, Running

LEMMA InterruptStep == ASSUME Inductive, NEW q \in Irq, Interrupt(q) PROVE Inductive'
<1>1. q = IRQ_KEYBOARD /\ step \in Open /\ Vector(q) = 33 /\ interrupts
  BY OnlyKeyboard DEF Interrupt, Deliverable
<1>2. /\ frames' = Append(frames, [vector |-> 33, flag |-> interrupts, done |-> FALSE])
      /\ frames' \in Seq(InterruptFrame) /\ interrupts' = FALSE /\ fault' = fault
  BY <1>1, Enters DEF Interrupt, ISR_STUB_TABLE_LIMIT
<1>3. step \notin Quiet
  BY <1>1 DEF Quiet, Open, Paged, Launch, Running
<1>4. Order'
  BY <1>3, OrderKept DEF Interrupt
<1>5. TypeOK'
  <2>1. in_service' \subseteq Irq /\ requested' \subseteq Irq
    BY DEF Interrupt, Inductive, TypeOK
  <2>2. UNCHANGED <<memory, offset, masked>> /\ interrupts' \in BOOLEAN
    BY <1>2, Zenon DEF Interrupt
  <2> QED BY <1>2, <2>1, <2>2, TypesKept
<1>6. Stack'
  <2>1. Len(frames) = 0 \/ (Len(frames) = 1 /\ Calling)
    BY <1>1, FrameFacts DEF Inductive, Stack
  <2>2. step' = step
    BY DEF Interrupt
  <2>3. CASE Len(frames) = 0
    BY <1>2, <2>2, <2>3, FrameFacts DEF Inductive, Stack, ISR_STUB_TABLE_LIMIT, IRQ_KEYBOARD
  <2>4. CASE Len(frames) = 1 /\ Calling
    <3>1. frames' \in Seq(InterruptFrame) /\ Len(frames') = 2 /\ frames'[1] = frames[1] /\ frames'[2].vector = 33
      <4> DEFINE f == [vector |-> 33, flag |-> interrupts, done |-> FALSE]
      <4>1. frames \in Seq(InterruptFrame) /\ f \in InterruptFrame /\ f.vector = 33
        BY <1>1, FrameFacts, Enters DEF Interrupt, ISR_STUB_TABLE_LIMIT
      <4> HIDE DEF f
      <4>2. /\ Append(frames, f) \in Seq(InterruptFrame) /\ Len(Append(frames, f)) = 2
            /\ Append(frames, f)[1] = frames[1] /\ Append(frames, f)[2] = f
        <5> DEFINE g == Append(frames, f)
        <5>1. /\ g \in Seq(InterruptFrame) /\ Len(g) = Len(frames) + 1
              /\ \A i \in 1 .. Len(frames) : g[i] = frames[i]
              /\ g[Len(frames) + 1] = f
          BY <4>1, AppendProperties
        <5> HIDE DEF g
        <5>2. Len(g) = 2 /\ g[1] = frames[1] /\ g[2] = f
          BY <2>4, <5>1
        <5> QED BY <5>1, <5>2, Zenon DEF g
      <4> QED BY <1>2, <4>1, <4>2 DEF f
    <3> QED BY <1>2, <2>2, <2>4, <3>1
            DEF Stack, Running, Calling, SYSCALL, ISR_STUB_TABLE_LIMIT, IRQ_KEYBOARD
  <2> QED BY <2>1, <2>3, <2>4
<1> QED BY <1>2, <1>4, <1>5, <1>6 DEF Inductive

LEMMA UserStep == ASSUME Inductive, NEW v \in Raised, User(v) PROVE Inductive'
<1> DEFINE w == IF v < 32 \/ (v < gates /\ Privilege(v) = 3) THEN v ELSE GENERAL_PROTECTION
<1>1. w \in 0 .. ISR_STUB_TABLE_LIMIT - 1
  BY StubAssumption
     DEF Privilege, GENERAL_PROTECTION, ISR_STUB_TABLE_LIMIT, IDT_MAX_ENTRY_COUNT
<1>2. step = "user" /\ frames = <<>> /\ EnterByGate(w)
  BY DEF User, InUser
<1>3. step \in Open /\ step \notin Quiet
  BY <1>2 DEF Open, Paged, Launch, Running, Quiet
<1> HIDE DEF w
<1>4. /\ frames' = Append(frames, [vector |-> w, flag |-> interrupts, done |-> FALSE])
      /\ frames' \in Seq(InterruptFrame) /\ interrupts' = FALSE /\ fault' = fault
  BY <1>1, <1>2, <1>3, Enters
<1>5. Order'
  BY <1>3, OrderKept DEF User, pic
<1>6. TypeOK'
  <2>1. UNCHANGED <<memory, pic>> /\ interrupts' \in BOOLEAN
    BY <1>4, Zenon DEF User
  <2> QED BY <1>4, <2>1, TypesKept DEF pic, Inductive, TypeOK
<1>7. Stack'
  BY <1>1, <1>2, <1>4 DEF Stack, Running, User, ISR_STUB_TABLE_LIMIT
<1> QED BY <1>4, <1>5, <1>6, <1>7 DEF Inductive

-----------------------------------------------------------------------------
(* A handler runs only where there is a frame. *)
LEMMA HandlerStage ==
  ASSUME Inductive, frames # <<>>
  PROVE  step \notin Quiet /\ Len(frames) \in {1, 2}
<1> QED BY FrameFacts DEF Inductive, Order

(* Marking a frame done leaves the rest of it. *)
LEMMA Marks ==
  ASSUME Inductive, frames # <<>>, Done
  PROVE  /\ frames' \in Seq(InterruptFrame) /\ Len(frames') = Len(frames)
         /\ \A i \in 1 .. Len(frames) : frames'[i].vector = frames[i].vector
         /\ \A i \in 1 .. Len(frames) - 1 : frames'[i] = frames[i]
         /\ frames'[Len(frames)].done
<1>1. frames \in Seq(InterruptFrame) /\ Len(frames) \in 1 .. Len(frames)
  BY HandlerStage DEF Inductive, TypeOK
<1>2. frames[Len(frames)] \in InterruptFrame
  BY <1>1
<1>3. [frames[Len(frames)] EXCEPT !.done = TRUE] \in InterruptFrame
  BY <1>2 DEF InterruptFrame
<1>4. frames' = [frames EXCEPT ![Len(frames)] = [frames[Len(frames)] EXCEPT !.done = TRUE]]
  BY DEF Done
<1>5. /\ frames' \in Seq(InterruptFrame) /\ Len(frames') = Len(frames)
      /\ \A i \in 1 .. Len(frames) :
           frames'[i] = IF i = Len(frames) THEN [frames[Len(frames)] EXCEPT !.done = TRUE]
                        ELSE frames[i]
  BY <1>1, <1>3, <1>4, ExceptSeq
<1> QED BY <1>1, <1>2, <1>5 DEF InterruptFrame

LEMMA HandlerStep == ASSUME Inductive, KeyboardIsr \/ OtherInterrupt PROVE Inductive'
<1>1. frames # <<>> /\ Done /\ ~Top.done /\ fault' = fault
  BY DEF KeyboardIsr, OtherInterrupt, Handling
<1>2. UNCHANGED <<step, memory, interrupts, offset, masked>>
  BY DEF KeyboardIsr, OtherInterrupt, pic
<1>3. Order'
  BY <1>1, <1>2, HandlerStage, OrderKept
<1>4. in_service' \subseteq Irq /\ requested' \subseteq Irq
  BY DEF KeyboardIsr, OtherInterrupt, pic, Inductive, TypeOK
<1>5. TypeOK'
  BY <1>1, <1>2, <1>4, Marks, TypesKept DEF Inductive, TypeOK
<1>6. /\ Len(frames') = Len(frames)
      /\ \A i \in 1 .. Len(frames) : frames'[i].vector = frames[i].vector
      /\ \A i \in 1 .. Len(frames) - 1 : frames'[i] = frames[i]
  BY <1>1, Marks
<1>7. Stack /\ step' = step /\ interrupts' = interrupts
  BY <1>2 DEF Inductive
<1>8. Stack'
  <2>1. CASE Len(frames) = 1
    <3>1. ~interrupts
      BY <1>1, <2>1 DEF Inductive, Stack, Calling, Top
    <3> QED BY <1>2, <1>6, <1>7, <2>1, <3>1 DEF Stack
  <2>2. CASE Len(frames) = 2
    BY <1>2, <1>6, <1>7, <2>2 DEF Stack, Calling
  <2> QED BY <1>1, <2>1, <2>2, HandlerStage
<1> QED BY <1>1, <1>3, <1>5, <1>8 DEF Inductive

LEMMA SyscallStep == ASSUME Inductive, Syscall PROVE Inductive'
<1>1. frames # <<>> /\ Done /\ Top.vector = SYSCALL /\ fault' = fault /\ interrupts' \in BOOLEAN
  BY DEF Syscall, Handling
<1>2. UNCHANGED <<step, memory, pic>>
  BY DEF Syscall
<1>3. Order'
  BY <1>1, <1>2, HandlerStage, OrderKept DEF pic
<1>4. TypeOK'
  BY <1>1, <1>2, Marks, TypesKept DEF pic, Inductive, TypeOK
<1>5. Len(frames) = 1
  BY <1>1, HandlerStage DEF Inductive, Stack, Running, Top, SYSCALL, IRQ_KEYBOARD
<1>6. step = "user"
  BY DEF Syscall
<1>7. /\ Len(frames') = 1
      /\ frames'[1].vector = SYSCALL /\ frames'[1].done
  BY <1>1, <1>5, Marks DEF Top
<1>8. step' = "user"
  BY <1>2, <1>6
<1>9. Stack'
  BY <1>7, <1>8 DEF Stack, Running, Calling, SYSCALL, ISR_STUB_TABLE_LIMIT
<1> QED BY <1>1, <1>3, <1>4, <1>9 DEF Inductive

(* The call that never ends is alone on the stack, with interrupts off. *)
LEMMA PutsForeverStep == ASSUME Inductive, PutsForever PROVE Inductive'
<1>1. /\ frames # <<>> /\ Top.vector = SYSCALL /\ ~Top.done
      /\ step = "user" /\ step' = "printing"
      /\ UNCHANGED <<memory, interrupts, frames, pic, fault>>
  BY DEF PutsForever, Handling
<1>2. TypeOK'
  BY <1>1, TypesKept DEF pic, Inductive, TypeOK
<1>3. Order'
  BY <1>1 DEF Inductive, Order, memory, descriptors, pvars, pic,
              AllSteps, Quiet, Masked, Open, Paged, Launch, Running
<1>4. Len(frames) = 1 /\ ~interrupts
  BY <1>1, HandlerStage DEF Inductive, Stack, Calling, Top, SYSCALL, IRQ_KEYBOARD
<1>5. Stack'
  BY <1>1, <1>4 DEF Inductive, Stack, Running
<1> QED BY <1>1, <1>2, <1>3, <1>5 DEF Inductive

LEMMA IretStep == ASSUME Inductive, Iret PROVE Inductive'
<1>1. frames # <<>> /\ fault' = fault /\ interrupts' = Top.flag
      /\ frames' = SubSeq(frames, 1, Len(frames) - 1)
  BY DEF Iret
<1>2. UNCHANGED <<step, memory, pic>>
  BY DEF Iret
<1>3. Order'
  BY <1>1, <1>2, HandlerStage, OrderKept DEF pic
<1>4. frames \in Seq(InterruptFrame) /\ Top \in InterruptFrame
  BY <1>1, HandlerStage DEF Inductive, TypeOK, Top
<1>5. frames' \in Seq(InterruptFrame) /\ Len(frames') = Len(frames) - 1
      /\ \A i \in 1 .. Len(frames) - 1 : frames'[i] = frames[i]
  <2>1. \A i \in 1 .. Len(frames) - 1 : frames[i] \in InterruptFrame
    BY <1>4, FrameFacts
  <2> DEFINE n == Len(frames) - 1
  <2>2. n \in 0 .. 1 /\ n \in Int /\ 1 \in Int
    BY <1>1, HandlerStage
  <2>3. /\ SubSeq(frames, 1, n) \in Seq(InterruptFrame)
        /\ Len(SubSeq(frames, 1, n)) = IF 1 <= n THEN n - 1 + 1 ELSE 0
        /\ \A i \in 1 .. n - 1 + 1 : SubSeq(frames, 1, n)[i] = frames[1 + i - 1]
    <3> HIDE DEF n
    <3> QED BY <2>1, <2>2, SubSeqProperties DEF n
  <2>4. frames' = SubSeq(frames, 1, n)
    BY <1>1
  <2>5. Len(SubSeq(frames, 1, n)) = n
    <3> HIDE DEF n
    <3> QED BY <2>2, <2>3
  <2>6. \A i \in 1 .. n : SubSeq(frames, 1, n)[i] = frames[i]
    <3> HIDE DEF n
    <3>1. \A i \in 1 .. n : i \in 1 .. n - 1 + 1 /\ 1 + i - 1 = i
      BY <2>2
    <3> QED BY <2>3, <3>1
  <2> HIDE DEF n
  <2>7. frames' \in Seq(InterruptFrame) /\ Len(frames') = n /\ \A i \in 1 .. n : frames'[i] = frames[i]
    BY <2>3, <2>4, <2>5, <2>6, Zenon
  <2> QED BY <2>7, Zenon DEF n
<1>6. interrupts' \in BOOLEAN
  BY <1>1, <1>4 DEF InterruptFrame
<1>7. TypeOK'
  BY <1>1, <1>2, <1>5, <1>6, TypesKept DEF pic, Inductive, TypeOK
<1>8. Stack'
  <2>1. Stack /\ step' = step /\ Len(frames) \in {1, 2}
    BY <1>1, <1>2, HandlerStage DEF Inductive
  <2> QED BY <1>5, <2>1 DEF Stack, Calling
<1> QED BY <1>1, <1>3, <1>7, <1>8 DEF Inductive

LEMMA RequestStep == ASSUME Inductive, NEW q \in Irq, Request(q) PROVE Inductive'
<1>1. TypeOK'
  <2>1. UNCHANGED <<memory, offset, masked, frames, interrupts, fault, in_service>>
        /\ requested' \subseteq Irq
    BY DEF Request, Inductive, TypeOK
  <2> QED BY <2>1, TypesKept DEF Inductive, TypeOK
<1>2. Order'
  BY DEF Inductive, Order, Request, memory, descriptors, pvars
<1>3. Stack'
  BY DEF Inductive, Stack, Request, Calling
<1> QED BY <1>1, <1>2, <1>3 DEF Inductive, Request

LEMMA Stutter == ASSUME Inductive, UNCHANGED vars PROVE Inductive'
<1>1. TypeOK'
  <2>1. UNCHANGED <<memory, offset, masked, frames, interrupts, fault, requested, in_service>>
    BY DEF vars, pic
  <2> QED BY <2>1, TypesKept DEF Inductive, TypeOK
<1>2. Order'
  BY DEF Inductive, Order, vars, memory, descriptors, pvars, pic
<1>3. Stack'
  BY DEF Inductive, Stack, vars, Calling
<1> QED BY <1>1, <1>2, <1>3 DEF Inductive, vars

THEOREM Invariance == Spec => []Inductive
<1>1. Init => Inductive
  BY Start
<1>2. Inductive /\ [Next]_vars => Inductive'
  <2> SUFFICES ASSUME Inductive, [Next]_vars PROVE Inductive'
    OBVIOUS
  <2>1. CASE Setup
    BY <2>1, SetupStep
  <2>2. CASE Handler
    BY <2>2, HandlerStep, SyscallStep, IretStep DEF Handler
  <2>3. CASE \E q \in Irq : Request(q) \/ Interrupt(q)
    BY <2>3, RequestStep, InterruptStep
  <2>4. CASE \E v \in Raised : User(v)
    BY <2>4, UserStep
  <2>5. CASE PutsForever
    BY <2>5, PutsForeverStep
  <2>6. CASE UNCHANGED vars
    BY <2>6, Stutter
  <2> QED BY <2>1, <2>2, <2>3, <2>4, <2>5, <2>6 DEF Next
<1> QED BY <1>1, <1>2, PTL DEF Spec

(* Every variable of the boot keeps its type: gates, above all, stay within *)
(* the table however many stray words the loop takes for addresses.         *)
THEOREM BootTypes == Spec => []TypeOK
<1>1. Inductive => TypeOK
  BY DEF Inductive
<1> QED BY <1>1, Invariance, PTL

(* No interrupt, of a device or of the user program, ever meets a missing   *)
(* gate, one made from what lies behind the table, or a missing stack.      *)
THEOREM NoFault == Spec => []NeverFaults
<1>1. Inductive => NeverFaults
  BY DEF Inductive, NeverFaults
<1> QED BY <1>1, Invariance, PTL

(* The loader's code, then the user program's page, are mapped when used. *)
THEOREM Mapped == Spec => []CodeMapped
<1>1. Inductive => CodeMapped
  BY DEF Inductive, Order, CodeMapped, Paged, Launch, Running
<1> QED BY <1>1, Invariance, PTL

(* The kernel's stack never holds more than a system call's frame and a     *)
(* device's.                                                                *)
THEOREM Bounded == Spec => []StackBounded
<1>1. Inductive => StackBounded
  BY FrameFacts DEF Inductive, Stack, StackBounded, Calling
<1> QED BY <1>1, Invariance, PTL
=============================================================================
