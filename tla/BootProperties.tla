--------------------------- MODULE BootProperties ---------------------------
(* What the order of the boot promises to whatever interrupts it. *)
EXTENDS Boot

InterruptFrame == [vector : 0 .. IDT_MAX_ENTRY_COUNT - 1, flag : BOOLEAN, done : BOOLEAN]

TypeOK ==
  /\ PagingTypeOK
  /\ idt \in BOOLEAN /\ gates \in 0 .. IDT_MAX_ENTRY_COUNT
  /\ tss \in {"none", "installed", "loaded"} /\ esp0 \in BOOLEAN
  /\ interrupts \in BOOLEAN /\ fault \in BOOLEAN
  /\ frames \in Seq(InterruptFrame)
  /\ offset \in {"bios", "remapped"}
  /\ masked \subseteq Irq /\ requested \subseteq Irq /\ in_service \subseteq Irq
  /\ stray_stubs \in StrayStubs

(* Interrupts are on before the first gate is set, and gates are made from  *)
(* words that are no addresses: still no interrupt, of a device or of the   *)
(* user program, ever meets a missing gate, a stray one or a missing stack. *)
NeverFaults == ~fault

(* What runs is mapped, by the directory Paging keeps: the loader until it  *)
(* has jumped, the kernel in the higher half from then on, and the user     *)
(* program's page, for the user, when it is read there and ever after.      *)
CodeMapped ==
  /\ step = "loader_paged" => page_dir[0] = KernelEntry
  /\ page_dir[KernelPage] = KernelEntry
  /\ step \in {"shell", "user", "printing"} => page_dir[0].present /\ page_dir[0].user

(* The kernel's stack holds one frame while it comes up and two, a system   *)
(* call's and a device's, ever after, however fast interrupts come.         *)
StackBounded == Len(frames) <= IF step = "user" THEN 2 ELSE 1

(* An exception has stopped the machine. *)
Halted == frames # <<>> /\ Top.vector < 32

(* The user program is reached, whatever interrupts on the way. *)
Booted == <>(step = "user")

(* The controllers are reset by pic_remap, which drops what they noted. *)
BeforeReset == step \in {"loader", "loader_paged", "loader_virtual", "load_gdt", "pic_remap"}

(* A key that is pressed once they are is handled, before the boot is over  *)
(* or after it, unless an exception has stopped the machine: no other       *)
(* device holds the controller, since none but the keyboard's handler       *)
(* acknowledges.  Nor is it while a text of 256 bytes or more is printed,   *)
(* as cat does with a file's: that call never ends, with interrupts off.    *)
KeyNoticed == (IRQ_KEYBOARD \in requested /\ ~BeforeReset)
                ~> (IRQ_KEYBOARD \in in_service \/ Halted \/ step = "printing")
=============================================================================
