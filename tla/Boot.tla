-------------------------------- MODULE Boot --------------------------------
(***************************************************************************)
(* How the kernel comes up (src/src/kernel-entrypoint.s, kernel.c) and how *)
(* interrupts reach it from then on (idt.c, intsetup.s, interrupt.c): one  *)
(* step per function kernel_setup calls, with devices that request         *)
(* interrupts from the first of them on, until the user program runs.      *)
(*                                                                         *)
(* What the handlers do with a key or a system call is in Keyboard and     *)
(* Fat32; here a system call is call 4, which turns interrupts on, or call *)
(* 6, which may never end, or another, and the user program, whatever the  *)
(* disk held under its name, may raise any interrupt.  The page directory  *)
(* and what allocates the user program's page are those of Paging.         *)
(***************************************************************************)
EXTENDS Paging, Sequences

CONSTANTS
  StrayStubs,  \* numbers of words behind isr_stub_table before one that is zero
  Raised       \* vectors the user program, or a fault of it, may raise

(* isr_stub_table has 64 entries and no zero at its end. *)
ISR_STUB_TABLE_LIMIT == 64
IDT_MAX_ENTRY_COUNT == 256

ASSUME StubAssumption ==
  /\ StrayStubs # {} /\ StrayStubs \subseteq 0 .. IDT_MAX_ENTRY_COUNT - ISR_STUB_TABLE_LIMIT
  /\ Raised \subseteq 0 .. IDT_MAX_ENTRY_COUNT - 1

(* The lines that request something on the machine the kernel is run on. *)
IRQ_TIMER == 0
IRQ_KEYBOARD == 1
IRQ_PRIMARY_ATA == 14
Irq == {IRQ_TIMER, IRQ_KEYBOARD, IRQ_PRIMARY_ATA}

GENERAL_PROTECTION == 13
SYSCALL == 48

VARIABLES
  step,         \* where the kernel is on its way to the user program; "printing" in puts for ever
  idt, gates,   \* lidt was executed; the number of gates set so far
  tss, esp0,    \* "none", "installed", "loaded"; the stack for calls from user mode
  interrupts,   \* the interrupt flag
  frames,       \* the interrupt frames on the kernel's stack
  offset, masked, requested, in_service,  \* the interrupt controllers
  stray_stubs,
  fault         \* an interrupt found no gate, no handler or no stack

descriptors == <<idt, gates, tss, esp0, stray_stubs>>
memory == <<pvars, descriptors>>
pic == <<offset, masked, requested, in_service>>
vars == <<step, memory, interrupts, frames, pic, fault>>

-----------------------------------------------------------------------------
(* Interrupts *)

(* The controllers' vectors, as the BIOS left them and once remapped. *)
Vector(q) == CASE offset = "bios" -> IF q < 8 THEN 8 + q ELSE 112 + q - 8
               [] offset = "remapped" -> 32 + q

(* Mutant: one gate too many is open to the user program. *)
PrivilegeOneMore(v) == IF v < 48 \/ v > 64 THEN 0 ELSE 3

(* initialize_idt: who may raise a vector by an instruction. *)
Privilege(v) == IF v < 48 \/ v > 63 THEN 0 ELSE 3

InUser == step = "user" /\ frames = <<>>

(* What a vector needs to be handled: a gate, one made from an address that *)
(* is a handler's and not from what lies behind the table, and, from user   *)
(* mode, the stack the task state names.                                    *)
Ready(v) == /\ idt /\ v < gates /\ v < ISR_STUB_TABLE_LIMIT
            /\ InUser => tss = "loaded" /\ esp0

(* Mutant: a trap gate, which leaves interrupts on. *)
EnterByTrap(v) ==
  IF Ready(v)
  THEN /\ frames' = Append(frames, [vector |-> v, flag |-> interrupts, done |-> FALSE])
       /\ UNCHANGED <<interrupts, fault>>
  ELSE fault' = TRUE /\ UNCHANGED <<frames, interrupts>>

(* An interrupt gate: interrupts are off from here to the return. *)
EnterByGate(v) ==
  IF Ready(v)
  THEN /\ frames' = Append(frames, [vector |-> v, flag |-> interrupts, done |-> FALSE])
       /\ interrupts' = FALSE /\ UNCHANGED fault
  ELSE fault' = TRUE /\ UNCHANGED <<frames, interrupts>>

(* A device wants attention. *)
Request(q) ==
  /\ q \notin requested /\ requested' = requested \cup {q}
  /\ UNCHANGED <<step, memory, interrupts, frames, offset, masked, in_service, fault>>

(* The request of the highest priority that is not masked, unless one as    *)
(* high is not acknowledged yet.                                            *)
Deliverable(q) == /\ interrupts /\ ~fault
                  /\ q \in requested \ masked
                  /\ \A r \in requested \ masked : q <= r
                  /\ \A s \in in_service : q < s

Interrupt(q) ==
  /\ Deliverable(q)
  /\ requested' = requested \ {q} /\ in_service' = in_service \cup {q}
  /\ EnterByGate(Vector(q))
  /\ UNCHANGED <<step, memory, offset, masked>>

(* main_interrupt_handler.  An exception halts for good: interrupts are off *)
(* and no action below returns from it.                                     *)
Top == frames[Len(frames)]
Handling(v) == ~fault /\ frames # <<>> /\ Top.vector = v /\ ~Top.done
Done == frames' = [frames EXCEPT ![Len(frames)].done = TRUE]

(* pic_ack names no line: it ends the highest that is in service. *)
KeyboardIsr ==
  /\ Handling(32 + IRQ_KEYBOARD)
  /\ Done /\ in_service' = {q \in in_service : \E r \in in_service : r < q}
  /\ UNCHANGED <<step, memory, interrupts, offset, masked, requested, fault>>

(* Call 4 turns interrupts on and waits; the others do not. *)
Syscall ==
  /\ Handling(SYSCALL) /\ step = "user"
  /\ Done /\ interrupts' \in BOOLEAN
  /\ UNCHANGED <<step, memory, pic, fault>>

(* Call 6 with 256 bytes or more: the counter of puts is a byte and never   *)
(* comes to the length, and interrupts are off.                             *)
PutsForever ==
  /\ Handling(SYSCALL) /\ step = "user" /\ step' = "printing"
  /\ UNCHANGED <<memory, interrupts, frames, pic, fault>>

OtherInterrupt ==
  /\ ~fault /\ frames # <<>> /\ ~Top.done
  /\ Top.vector \in 32 .. ISR_STUB_TABLE_LIMIT - 1 \ {32 + IRQ_KEYBOARD, SYSCALL}
  /\ Done
  /\ UNCHANGED <<step, memory, interrupts, pic, fault>>

(* The end of call_generic_handler.  Its sti takes effect after the         *)
(* instruction that follows, which is iret and brings the old flag back.    *)
Iret ==
  /\ ~fault /\ frames # <<>> /\ Top.done
  /\ interrupts' = Top.flag
  /\ frames' = SubSeq(frames, 1, Len(frames) - 1)
  /\ UNCHANGED <<step, memory, pic, fault>>

-----------------------------------------------------------------------------
(* loader_entrypoint and kernel_setup *)

At(here, there) == step = here /\ step' = there /\ frames = <<>> /\ ~fault

(* Addresses go through the directory from here on. *)
EnablePaging ==
  /\ At("loader", "loader_paged")
  /\ UNCHANGED <<memory, interrupts, frames, pic, fault>>

(* The jump into the higher half ... *)
Jump ==
  /\ At("loader_paged", "loader_virtual")
  /\ UNCHANGED <<memory, interrupts, frames, pic, fault>>

(* ... comes before the identity mapping goes. *)
DropIdentity ==
  /\ At("loader_virtual", "load_gdt")
  /\ page_dir' = [page_dir EXCEPT ![0] = NotPresent]
  /\ UNCHANGED <<page_frame_map, free_page_frame_count, descriptors, interrupts, frames, pic, fault>>

LoadGdt ==
  /\ At("load_gdt", "pic_remap")
  /\ interrupts' = FALSE
  /\ UNCHANGED <<memory, frames, pic, fault>>

(* pic_remap: the first word resets the controllers, their masks included,  *)
(* and from then to the last word nothing is masked.                        *)
PicInit ==
  /\ At("pic_remap", "pic_offsets")
  /\ masked' = {} /\ requested' = {} /\ in_service' = {}
  /\ UNCHANGED <<memory, interrupts, frames, offset, fault>>

PicOffsets ==
  /\ At("pic_offsets", "pic_mask")
  /\ offset' = "remapped"
  /\ UNCHANGED <<memory, interrupts, frames, masked, requested, in_service, fault>>

(* Mutant: the masks are left as the reset made them. *)
PicMaskNothing ==
  /\ At("pic_mask", "lidt")
  /\ UNCHANGED <<memory, interrupts, frames, pic, fault>>

PicMask ==
  /\ At("pic_mask", "lidt")
  /\ masked' = Irq
  /\ UNCHANGED <<memory, interrupts, frames, offset, requested, in_service, fault>>

(* initialize_idt: interrupts are on before the first gate is set. *)
Lidt ==
  /\ At("lidt", "gates")
  /\ idt' = TRUE /\ interrupts' = TRUE
  /\ UNCHANGED <<pvars, gates, tss, esp0, stray_stubs, frames, pic, fault>>

(* Mutant: the loop looks for its end in vain. *)
SetInterruptGateForever ==
  /\ At("gates", "gates")
  /\ gates' = gates + 1
  /\ UNCHANGED <<pvars, idt, tss, esp0, stray_stubs, interrupts, frames, pic, fault>>

(* One turn of its loop, which ends at the first word that is zero. *)
SetInterruptGate ==
  /\ gates < ISR_STUB_TABLE_LIMIT + stray_stubs
  /\ At("gates", "gates")
  /\ gates' = gates + 1
  /\ UNCHANGED <<pvars, idt, tss, esp0, stray_stubs, interrupts, frames, pic, fault>>

EndOfStubs ==
  /\ gates = ISR_STUB_TABLE_LIMIT + stray_stubs
  /\ At("gates", "activate_keyboard_interrupt")
  /\ UNCHANGED <<memory, interrupts, frames, pic, fault>>

(* Mutant: the complement is forgotten. *)
ActivateAllButKeyboard ==
  /\ At("activate_keyboard_interrupt", "filesystem")
  /\ masked' = masked \cap {IRQ_KEYBOARD}
  /\ UNCHANGED <<memory, interrupts, frames, offset, requested, in_service, fault>>

ActivateKeyboardInterrupt ==
  /\ At("activate_keyboard_interrupt", "filesystem")
  /\ masked' = masked \ {IRQ_KEYBOARD}
  /\ UNCHANGED <<memory, interrupts, frames, offset, requested, in_service, fault>>

(* framebuffer_clear and initialize_filesystem_fat32, and, once there is    *)
(* memory for it, read of the shell and write of a file: nothing here       *)
(* depends on what they return.                                             *)
FileSystem ==
  /\ \/ At("filesystem", "gdt_install_tss")
     \/ At("shell", "set_tss_kernel_current_stack")
  /\ UNCHANGED <<memory, interrupts, frames, pic, fault>>

InstallTss ==
  /\ At("gdt_install_tss", "set_tss_register")
  /\ tss' = "installed"
  /\ UNCHANGED <<pvars, idt, gates, esp0, stray_stubs, interrupts, frames, pic, fault>>

(* ltr: the processor takes the address from the descriptor now. *)
SetTssRegister ==
  /\ At("set_tss_register", "paging")
  /\ tss' = IF tss = "installed" THEN "loaded" ELSE tss
  /\ UNCHANGED <<pvars, idt, gates, esp0, stray_stubs, interrupts, frames, pic, fault>>

(* Mutant: the directory is not changed. *)
AllocateNothing ==
  /\ At("paging", "shell")
  /\ UNCHANGED <<memory, interrupts, frames, pic, fault>>

AllocateUserPage ==
  /\ At("paging", "shell")
  /\ Allocate(0)
  /\ UNCHANGED <<descriptors, interrupts, frames, pic, fault>>

SetTssStack ==
  /\ At("set_tss_kernel_current_stack", "kernel_execute_user_program")
  /\ esp0' = TRUE
  /\ UNCHANGED <<pvars, idt, gates, tss, stray_stubs, interrupts, frames, pic, fault>>

(* iret to user mode, with the flag of the kernel. *)
ExecuteUserProgram ==
  /\ At("kernel_execute_user_program", "user")
  /\ UNCHANGED <<memory, interrupts, frames, pic, fault>>

(* The user program raises an interrupt; one it may not raise is a general  *)
(* protection fault, and so is an exception's vector.                       *)
User(v) ==
  /\ InUser /\ ~fault
  /\ EnterByGate(IF v < 32 \/ (v < gates /\ Privilege(v) = 3) THEN v ELSE GENERAL_PROTECTION)
  /\ UNCHANGED <<step, memory, pic>>

-----------------------------------------------------------------------------
Setup == \/ EnablePaging \/ Jump \/ DropIdentity \/ LoadGdt
         \/ PicInit \/ PicOffsets \/ PicMask
         \/ Lidt \/ SetInterruptGate \/ EndOfStubs \/ ActivateKeyboardInterrupt
         \/ FileSystem \/ InstallTss \/ SetTssRegister
         \/ AllocateUserPage \/ SetTssStack \/ ExecuteUserProgram

Handler == KeyboardIsr \/ Syscall \/ OtherInterrupt \/ Iret

(* As the boot loader leaves the machine: interrupts off, the controllers   *)
(* as the BIOS used them.                                                   *)
Init ==
  /\ step = "loader" /\ PagingInit
  /\ idt = FALSE /\ gates = 0 /\ tss = "none" /\ esp0 = FALSE
  /\ interrupts = FALSE /\ frames = <<>> /\ fault = FALSE
  /\ offset = "bios" /\ masked \in SUBSET Irq /\ requested = {} /\ in_service = {}
  /\ stray_stubs \in StrayStubs

Next == \/ Setup \/ Handler \/ PutsForever
        \/ \E q \in Irq : Request(q) \/ Interrupt(q)
        \/ \E v \in Raised : User(v)

(* The kernel goes on, if only by an instruction between two interrupts     *)
(* (that the file system's part of the boot ends is assumed: Fat32 has its  *)
(* calls, which on a full disk scan past their arrays); a handler that runs *)
(* with interrupts off comes to its end, but for the call that prints for   *)
(* ever, while call 4 may wait for ever; an interrupt that waits is taken   *)
(* when the flag is on.                                                     *)
Spec == /\ Init /\ [][Next]_vars
        /\ SF_vars(Setup) /\ WF_vars(Handler /\ ~interrupts)
        /\ \A q \in Irq : SF_vars(Interrupt(q))
=============================================================================
