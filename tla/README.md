# OperatingStress: models, checks and proofs

TLA+ models of the OperatingStress kernel (`src/src`, a 32-bit x86 teaching
kernel in C): its FAT32 driver over a disk that may lose power at any write,
the shell's commands over that driver, its keyboard handler, console and
line-reading system call, its boot with the interrupts that come meanwhile, and
its page manager. TLC checks the
models on small instances; TLAPS proves the safety part for every size.

## The system

| Component | State | Operations | Who calls it |
|---|---|---|---|
| FAT32 driver, `fat32.c` | `fat32_driver_state`: the FAT in memory, the directory table loaded last, a cluster buffer | `initialize_filesystem_fat32`, `create_fat32`, `read`, `read_directory`, `write`, `delete` | `kernel_setup`; system calls 0 to 3; the inserter on a host |
| ATA disk, `disk.c` | the device | `read_blocks`, `write_blocks` (polling, no interrupts) | the driver |
| Keyboard, `keyboard.c` | `keyboard_state`, `is_capslock` | `keyboard_isr`, `keyboard_state_activate`, `get_keyboard_buffer` | IRQ 1; system calls 4 and 7 |
| Console, `framebuffer.c`, `puts` in `keyboard.c` | video memory, the cursor, `row`, `col`, `col_recent`, `col_bound` | `puts`, `setCursorCLS`, `framebuffer_clear`, and the echo in `keyboard_isr` | system calls 5, 6, 8; IRQ 1 |
| System calls and interrupts, `interrupt.c`, `idt.c`, `intsetup.s` | the IDT, the interrupt controller's masks | dispatch by number, acknowledgement | the shell, the devices |
| Shell, `user-shell.c` | `depth`, `listCluster`, `listDir`, `cl`, the frame its commands share | `cd ls mkdir cat cp mv rm cls find` | the user |
| Paging, `paging.c` | page directory, frame map, count of free frames | allocate, free | `kernel_setup`, once |
| Boot, `kernel.c`, `kernel-entrypoint.s` | - | one sequence | the boot loader |
| GDT, TSS, port I/O, string library | tables; none | - | all |

How they interact. There is one processor and no scheduler. The shell runs in
user mode and enters the kernel by `int 0x30`, an interrupt gate, so a system
call runs with interrupts off - with one exception, call 4 (read a line),
which turns them on and spins until the handler of IRQ 1 has cleared
`keyboard_input_on`. The handler and the calls share `keyboard_state` and the
console's position. The driver shares nothing with interrupts; what interrupts
it is the power switch, between two of the cluster writes of an operation.

Where it is hard: operations of several cluster writes without a journal; two
copies of the FAT; entries that are marked unused but still read by some
scans; scans without a bound over an array in front of other data; a handler
that reads a port twice; a line that lives in the buffer, on the screen and in
the caller's memory at once. `PROJECT.json` lists each hazard at its line.

## Modules

| Module | What it is |
|---|---|
| `Fat32` | the driver, its disk, its callers and the power switch |
| `Fat32Properties` | what the driver promises; the refinement mapping to `FileStore` |
| `FileStore` | abstract: files and folders that appear and disappear whole |
| `MCFat32` | names, payloads and the constraint of the runs |
| `Fat32Proofs` | proofs: types, the two FATs, an entry in use is over an allocated cluster, its own |
| `Fat32Directories` | proofs: names lead to what they name, nothing is left in a folder that is gone |
| `Fat32Chains` | proofs: the chains of files are whole and apart |
| `Fat32Store` | proofs: no space is lost, `read` gives what is there, the driver implements `FileStore` |
| `Console` | screen, cursor, position, `puts` |
| `Keyboard` | handler, controller, system calls 4 to 8 and the order the shell makes them in; extends `Console` |
| `KeyboardProperties` | what the handler and the line-reading call promise; the mapping to `LineReader` |
| `LineReader` | abstract: a line grows and shrinks until Enter and is given as it is |
| `KeyboardProofs` | proofs: the line on the screen, the prompt, and that each step is one of `LineReader` or none |
| `Boot` | the loader, `kernel_setup`, the gates, the interrupt controllers and the way in and out of a handler; extends `Paging` |
| `BootProperties` | what the order of the boot promises to whatever interrupts it |
| `BootProofs` | theorems about `Boot` |
| `MCKeyboard` | keys, texts and the constraint of the runs |
| `Shell` | the commands of the shell, as the calls they make to `Fat32`'s driver; extends `Fat32` |
| `ShellProperties` | what moving and walking promise |
| `ShellProofs` | proofs: a move keeps its copy, `cd` goes down, the prompt names the folder, over the driver's invariants |
| `MCShell` | names, the lines that may be typed and the constraint of the runs |
| `Paging` | the page directory, the frame map and the count behind it, with what they promise |
| `PagingProofs` | theorems about `Paging` |

### Fat32

A call is the first step of an operation (`ReadFile`, `MkdirFat`, `StartWriteFile`,
`DeleteFile`, ...), then one step for each further cluster written or each turn
of a loop, then `SyscallReturn`. `pc` says where the call is; `request`,
`cluster`, `slot`, `i`, `to_zeros` are its locals. One step writes at most one
cluster, so `Crash`, enabled whenever the machine is on, falls between any two
writes. What a step may be is the code's order: `write` puts the FAT, the
folder's table and the entry on the disk in that order (`MkdirFat`,
`MkdirTable`, `MkdirEntry`), a file's block and then the FAT for each cluster
and the entry last (`FileData`, `FileFat`, ..., `FileEntry`); `delete` the entry
first and the FAT last (`DeleteDir`, `DeleteDirFat`; `DeleteFile`, `DeleteWalk`,
..., `DeleteFree`); `create_fat32` the signature, the FAT, the root table
(`FormatBoot`, `FormatFat`, `FormatRoot`).

The data. A name is a model value; `NamePrefix` is what `memcmp(request,
entry, strlen(entry))` finds equal, so a name that is a prefix of another is
there. A block of a file is its payload, its number and the number of blocks.
A cluster read as a table though a file's block lies there gives one of
`BlockTables` for the parent of a call, and for the folder a delete looks into
any table, with children or without. Of a new folder's table only the entry about
itself is written, though `fat32.h:146-148` says that `init_directory_table` makes one
of the parent, too. `filesize` counts bytes, in units small enough for
TLC. Words of the FAT keep their values at the boundaries: 0, the end mark
`0x0FFFFFFF`, the 16-bit truncation the code puts them through.

Stray indices. The scans for a free cluster and a free entry have no bound. A
scan that finds none in the array ends at any member of `StrayClusters` (or at
entry `ENTRY_COUNT`, the start of `cluster_buf`), a read behind the FAT gives
any member of `StrayWords`, a write there changes the loaded table or nothing
that is read. `wild` records it. In the runs that claim things of contents the
constraint `Tame` follows the call in progress to its end and goes no further:
after that, what the machine does depends on what lies behind the array.
`TypeCorrect` and `Coherent` are proved of every state; the other theorems of
`Fat32` of every state in which no stray index was used and no file's block taken
for a directory (`~wild`), which is what `Tame` keeps to.

Callers. `CallerClusters` are the clusters the shell may pass as parent: the
root, and the cluster of any directory entry it has read, in use or deleted
since (`cd` does not look at `user_attribute`, `user-shell.c:125-135`). A deleted
folder's cluster may be a file's by then: the call takes the file's block for a
directory, which is then any of `BlockTables` (`TakenFor`), and if it writes or
deletes there, `wild` records that, too. Not there: the cluster of a file that
`cp` and `mv` pass when their target is a file; `Shell` has it, and stops there.

`owner` is bookkeeping for the proofs and is read by no guard: the entry each
cluster was taken for, until it is given back.

### Shell

`Shell` composes the commands with the driver: the variables of `Fat32` are its
own, and a step is the user's (`Type`, `Up`), a call a command makes (`ReadCall`,
`TableCall`, `WriteCall`, `DeleteCall`), a step of the driver in that call
(`DriverStep`), or what the command does with the answer (`CdAnswered`, ...,
`LastAnswered`). `at` says which call the command is at. `cp` is read,
read_directory, write; `mv` the same and delete; the others make one call.
Before the shell runs, the disk is formatted by the driver and `Files` are
written (`Insert`, `Main`).

The path. `listCluster[k]` is the cluster of the folder at depth k. `listDir[k]`
points to the name in the table `cd` had read, on the stack frame of a
`parseCommand` that has returned. Without optimisation, as the makefile builds
it, every command's table lies at the same place of that frame and nothing
else is put there, so `table` is one variable that the next command that reads
a directory zeroes and fills, and `listDir[k]` is a slot of it: the names of the
path change under it. `ls` copies a name back over that slot, if the upper bytes
of its return code, which the kernel does not set, happen to be zero: both are
followed.

The requests. `cp` and `mv` go on whatever `read` answered, with what `cl` holds,
and write all `BUFFER_CLUSTERS` of it. The target is the first entry, in use or
not, whose name begins as typed. `mv` deletes whatever `write` answered, or
though nothing was written, and builds that request by counting on in `length`:
twice as many bytes as the name has are copied, over the extension from the
9th on and over the parent's number from the 12th. A name of seven bytes is
followed by its extension again, so it keeps it, and its parent's number begins
with the blank before the target and the target's first bytes: past the disk, but
without a target cluster 32, or 0. A line without an extension runs over into
what follows it: zeros, or what was erased before, since backspace leaves the
bytes (`keyboard.c:145`). What the request then says is one of `Deleted`.

The buffer. `cl` is one cluster and the commands tell `read` it has five
(`user-shell.c:95,230`). It is the last of `.bss`, so a longer file runs over the
literals in `.rodata`, the commands' names and the root's name in the path among them:
`RunsOver` takes the command to where nothing is followed. A copy made by the shell is
longer, too, but `cp` and `mv` wrote it from `cl` and what lies behind, which it puts back.
`cat` prints what it has read in one system call whose counter is a byte, so a text
of 256 bytes or more (`LongTexts`) is printed for ever (`PutsForever`).

What else is not followed (`GoAstray`): a call whose parent is a cluster that by now
holds a file's block (`cd` enters deleted folders) or lies past the disk, and any
call after the boot sector was overwritten or, as in `Fat32`, after a stray
index (`wild`). What else a command prints of an answer is left out. `Files` are files
of the root with something in them, as the inserter and `kernel_setup` write
them (`ShellAssumption`).

### Paging

`Allocate` and `Free` are the two operations, for callers that allocate a page
that is not the user's and free one that is. `free_page_frame_count` chooses the
address, of which the entry keeps the upper ten bits (`FrameGiven`: 0), and the
frame that is marked (`FrameMarked`). The state is packed, so with no frame left
the mark is written into the count (`CountMarked`), which brings it from 0 to 1
before it is decremented. Only `kernel_setup` calls `Allocate`, once: `Boot` extends this module and does, so
the run `boot` checks its types with a directory that is used. `Free` has no caller
in the repository and no run; that the count holds whatever a caller allocates
and frees is a theorem about `PagingSpec`. What the marks mean is none:
`paging.h:83` calls a mark "True when the page frame is currently used", and `Free`
clears the one of the frame to be given next instead of the page's (`paging.c:91`),
so a freed frame would stay marked.

### Console and Keyboard

`Deliver` is the keyboard and its controller: a byte comes when the last was
read, and requests IRQ 1. `keyboard_isr` is one step when it returns after its
first read (`IsrCapsLock`, `IsrOff`) and two otherwise: `IsrOn` makes the first
read, after which the controller may put the next byte in the port, and the
second step reads again and acts on what it finds (`IsrBackspace`, `IsrEnter`,
`IsrChar`, `IsrNoChar`). The interrupt is acknowledged with the last step of
the handler and is not taken again before.

`mode` is the shell's place: `start`, `splash`, `run`, `prompted`, `reading`,
`copying`. A system call that keeps interrupts off is one action; call 4 is
`Syscall4`, `SeeEnter` and `CopyLine`, between which the handler runs.
`user_buf`, and the kernel's buffer the line goes through, start as `Garbage`:
nobody initialises them, and 120 of the 256 bytes are copied (`COPIED`).

No step reads the screen, so each cell evolves on its own: an instance follows
one cell, chosen in the initial state among all (`Views`), and what holds for
each holds for the screen. Colours are left out. `BYTE`, 256 in the code, is how
many values a `uint8_t` has: row and column are words in `keyboard.c` and bytes
in `framebuffer_write`, so a column from 256 on is one of the same row again
(`Position`). `puts` is modelled for texts shorter than that; with more its
counter, a `uint8_t`, never reaches the length and the call does not end: that is
in `Boot` and `Shell`. The
texts printed are `Texts`, and the last byte of the prompt is not a line's end
(`KeyboardAssumption`: the shell prints a blank before it reads a line).

### Boot

One step per function `kernel_setup` calls, `pic_remap` in three (reset,
offsets, masks: between the first and the last nothing is masked) and
`initialize_idt` one per gate, since interrupts are on while its loop runs. A
device may request at any time (`Request`); `Interrupt` is the delivery, by
mask, priority and what is in service, and enters by the gate: `Ready` says
what has to be there, and `fault` records that something was not. A handler is
`EnterByGate`, its effect (`KeyboardIsr`, `Syscall`, `OtherInterrupt`) and
`Iret`; an exception has no effect and no return, as the `hlt` in
`main_interrupt_handler` is reached with interrupts off. `User(v)` is the user
program, which may be anything, as nothing looks at what `read` of the shell
returned: it raises what it likes, and what its privilege does not allow
becomes a general protection fault. Its call 6 may be one that never ends
(`PutsForever`, `step = "printing"`), with interrupts off. The directory is
`Paging`'s: `DropIdentity` takes entry 0 from it and `AllocateUserPage` is
`Paging`'s `Allocate`.

`isr_stub_table` has no zero word at its end, so the loop makes gates from the
words behind it until one is zero: `StrayStubs`, which the linker decides. That
one comes before the vectors wrap at 256 is assumed (`StubAssumption`). What
the user program does to memory is left out: `paging.c:58` gives it frame 0,
where the kernel lies too.

## Runs

| Run | Question | Result |
|---|---|---|
| `fat32_calls` | after any calls: do folders lead to their tables, does `read` find every file, is space lost, can an entry be made where no folder is | holds, up to the call that writes over a file as if it were a folder |
| `fat32_crash` | with a crash between any two writes: is what is named allocated, do the two FATs agree, do objects appear and disappear whole (`ImplementsStore`), does every call and every interrupted boot come to an end | holds |
| `fat32_chains` | with files of up to three clusters on a fragmented FAT: are chains whole and disjoint, does `read` give back what was written | holds |
| `fat32_reserved` | do the words of clusters 0 and 1 stay as they are | violated: a reused entry keeps the old file's size |
| `fat32_orphans` | does `write` put a file or a folder only where a folder is | violated: a deleted folder's cluster that a file has by now is accepted |
| `fat32_torn_format` | is a disk that is mounted one that was formatted | violated: the signature is written first |
| `keyboard_screen` | is the line on the screen the line in the buffer, does the prompt stay, while the column fits its byte | holds |
| `keyboard_line` | does the program get the line typed (`ImplementsLineReader`), is every byte taken | holds |
| `keyboard_twice` | does the handler process the byte it was interrupted for | violated |
| `boot` | can an interrupt come to a missing gate, handler, stack or page; does the boot end; is a key handled, unless a text of 256 bytes or more is being printed; is the stack bounded | holds |
| `shell` | does a move keep what it copied; does `cd` go down, and does the prompt name the folder it is in, though the path's names change under it; does every command end but `cat` of a long text | holds |
| `shell_boot_sector` | does cluster 0 keep the boot sector's signature | violated: a `cp` without a target, after a directory that could not be read, is written there |

Bounds, and why they are enough. `CLUSTER_MAP_SIZE` 5 leaves two clusters
beyond the root: two files, or a file and a folder, or a file of two clusters,
so the disk is full, emptied and filled again, in both orders. `fat32_chains`
takes 7, four free clusters, which is the least where a file of three clusters
can be laid around one that is there. `ENTRY_COUNT` 3 is an entry for the
directory itself and two that are reused and fill up. Two names, one a prefix
of the other, with and without an extension. `CLUSTER_SIZE` 2 and request sizes 0, 1, 3, 5: a
folder, a partly filled cluster, two, three. `MaxFileSize` bounds what the
filesize of a reused entry grows to: it is reached after the second reuse,
once the size exceeds the chain. `MaxCrashes` 1: after a crash only the disk is
left, and every disk a crash can leave is followed by every sequence of calls. The crash run has one payload and no
extension, which its properties do not look at. The keyboard runs have one
letter with two glyphs, a screen of 2 x 4, a buffer of 3 or 4 of which 3 are
copied; lines reach the end of the buffer and, in `keyboard_screen` with a `BYTE`
of 3, the column that does not fit its byte, the row is bounded by `MaxRow` and
where printing may start by `MaxCol`. The key that prints is one because the handler treats
them alike; caps lock makes two characters of it. `shell` types any line that changes nothing and at most three that make, delete,
copy or move (`MaxChanges`): a folder in a folder and one beside it, a folder
deleted while the path is in it and made again, a copy and then a move of it.
`MaxDepth` 2 is two levels below the root; the arrays have 100 elements and
nothing looks, so more than 99 times `cd ROOT` writes behind them.
`BUFFER_CLUSTERS` 2 stands for the five of a copy, `ENTRY_COUNT` 5 gives the root
four entries beside its own, `CLUSTER_MAP_SIZE` 11 holds two files, one longer than
`cl` and of a long text, two copies and two
folders. One name is 6 bytes long, whose move overwrites its parent's number,
one 5, which has no extension and is typed with a target and without. `fat32_orphans`
has `CLUSTER_MAP_SIZE` 6, a cluster more than it needs, and its constraint
`RoomFound` keeps to scans that find room, so its trace uses no stray index. `boot` has no bound but
its constants: four frames and three pages, no stray gate and three, the three devices of the machine that
request, and a vector of each kind (exceptions, a device's, the system call,
the vector after it, the first behind the table, a stray one's neighbours, one
without a gate).

Fairness. `FairSpec` of `Fat32` is weak fairness of the driver's own steps
(`Boot`, `Step`): it runs with interrupts off, so it takes its next step unless
the machine stops; no caller need call. In `Keyboard`, weak fairness of the
handler: interrupts are on but during calls, which end, so one requested is
taken; and strong fairness of the loop and the copy of call 4, which the
handler disables while it runs but which go on between two interrupts. In `Boot`, strong fairness of the setup,
which goes on between two interrupts (that its calls of the file system end is
part of it: on a full disk `write` scans past the FAT, and nothing says where that
ends), and of each interrupt, taken when the
flag is on, and weak fairness of a handler that runs with interrupts off; call
4 may wait for ever. Call 6 with 256 bytes or more is not a handler that comes to
its end: `PutsForever` may be taken instead of `Syscall`, and then no key is
handled any more, which is the exception `KeyNoticed` names. In `Shell`, weak fairness of whatever is not the user
(`Running`): a command and the driver run on, and nothing else does meanwhile; a
long text being printed is a step of `Running` that changes nothing (`PutsForever`), the
exception of `PromptsAgain`. The scans past the FAT and past a table end by assumption
(`StrayAssumption`), so that a call or a command ends says nothing of those. Nothing is assumed of the user.

Mutants. Each property of a passing run has one in `PROJECT.json`: a mistake
in one definition of the code (an entry not marked, a guard dropped, an index
kept, a scan that stops early) that TLC finds through that property.

## Findings

Five statements of the repository's own comments that the code does not keep,
each with a run that shows it: see `findings` in `PROJECT.json`. The gravest
is `fat32_reserved`: `write` adds to the size a deleted file left in its entry
(`fat32.c:341,347`), and `delete` then walks past the end of the chain and
frees words that are not the file's. `fat32_orphans` is the one a user meets with
ordinary commands: `cd d`, `cd ..`, `rm d`, `cp` of a file into another folder, `cd d`,
`mkdir e`.

Against a document, and without a run of their own: `write` makes a folder of a name
that is there, though `fat32.h:222` has it answer "1 file/folder already exist"
(`user-shell.c:216-217` prints as much), since `fat32.c:287` compares names only for
files. `FileStore` permits it (`CreateFolder`), so `ImplementsStore` does not show it;
`PromptNamesFolder` and `FoldersNameThemselves` say that two folders of one name are not
taken for each other. `paging_free_user_page_frame` clears another frame's mark
(`paging.c:91`) than the page's, though `paging.h:83` says what a mark means. Of a
directory's parent there is no entry in its table, though `fat32.h:146-148` has one.

Met while modelling, and against no document: `write` refuses a file the
name of a deleted one until that entry is reused; `mv` deletes its source though reading it or writing the copy
failed; a path keeps a pointer into the table of the last listing; `cd` enters
deleted folders.

Met while proving the shell's properties. The invariants of the driver did not
carry over to a write whose parent is cluster 0, which `cp` and `mv` make when they
are typed without a target and `read_directory` has failed: the table they search
is then all zeros, its first entry is what they find, and `write` accepts its
cluster, 0 (`fat32.c:262`). That is `shell_boot_sector`. And `CopySurvivesMove` was
false without the guards it has since: a name of six bytes without an extension,
moved from a folder whose cluster is past 255, is deleted from the cluster
that has the low byte cleared (`user-shell.c:427`), and one of seven bytes with an
extension and no target is deleted from cluster 0 or 32; either may be where the copy
was put. The instance has eleven clusters and no name of seven bytes, and could not
show it.

Met while proving `ScreenShowsLine` and `PromptKept`, which are false without the
two guards they have since: a line that reaches column 256 is written over the
start of its own row, prompt included (`keyboard.c:160`, `framebuffer.c:18`), and
the blank behind its 256th character (`keyboard.c:161`) erases the first one from
the screen, though not from the buffer. The first instances had no column that
far; the one of `keyboard_screen` has, and TLC finds both when a guard is dropped.

## Proofs

`Fat32Proofs`, for every size of disk, table and cluster, every set of names,
payloads and stray values, any number of crashes:

- `TypeCorrect`: `Spec => []TypeOK`. `TypeOK` is inductive: a running call
  has a request whose parent is on the disk and a loaded table. One lemma per
  group of steps (`TypeBoot`, `TypeCall`, `TypeStep`, `TypeCrash`), over lemmas
  about the operators that build words, tables and places.
- `Coherent`: `Spec => []FatCoherent`, by `TypeCorrect` and one case per
  action: the FAT in memory is the disk's but at four places of `pc`. It is
  why `read` and `delete`, which follow the copy in memory, and `write`, which
  reloads it, agree.
- Until a stray index is used or a file's block taken for a directory, `Allocated` (`LiveEntriesAllocated`) and `Apart`,
  that no two entries in use share a first cluster. Neither is inductive: that a
  free cluster is taken says nothing of who may still name it, unless what is
  named is known not to be free at any step between. The invariant, `Sound`,
  follows each cluster from the step that takes it to the one that gives it
  back, by `owner`. `OnDisk` is what a crash may count on: an entry in use owns
  its first cluster, what is owned is allocated, and its link leads to what the
  same entry owns or ends. `InCall` is what each step of a call still owes: a
  write's place is not in use until its last step, and what it has taken is
  that place's; a delete's entry is gone, and what its walk has yet to free is
  still that place's. `Crash` leaves `OnDisk` and drops `InCall`. One lemma per
  action or group (`SoundBoot`, `SoundReads`, `SoundStep`, `SoundCall`,
  `SoundCrash`).

`Fat32Directories`: `FilesFound` (`LookupFindsFile`), because in every table,
the loaded one included, a file in use with an extension is the only entry of
its name and extension, deleted ones included (`Distinct`): `write` refuses a
file whose name any entry carries, and what `mkdir`, which refuses nothing, adds
has no extension. And `FoldersNamed` (`FoldersNameThemselves`), on top of `Sound`: a
loaded table is the one on the disk but for one free entry (`LoadedFrom`), and
no step writes a table into a cluster some folder in use leads to, as that
cluster is owned. `NoneOrphaned` (`NoOrphans`) holds until the machine stops for
the first time. Of its parent `write` tests only that it is allocated, so the
invariant, `Reached`, says of every allocated cluster that holds a table that a
folder in use leads to it, but for the one `mkdir` is about to name or
`delete` about to free; the crash between those two is what it cannot survive. Nor
does it survive the write into a cluster that a file has taken from a deleted folder
(`fat32_orphans`): the theorem says that nothing but that call, a crash or a stray
index orphans an entry.

`Fat32Chains`: `WholeAndApart` (`ChainsIntact`). `Sound` says whose each cluster
is; `FilesHeld`, the invariant here, says what it holds. `Held`: the clusters of one
owner are different parts of one file, each is linked on the disk to the next
part and the last to the end mark, the entry names the first, and its size, which
a reused entry inherits and which only grows, reaches the last. `InHand`: the
parts a write has put down so far, how far its entry's size has come, and the
parts a delete has collected. No step needs induction, since every clause is
about neighbours. What a chain is needs it: `Follow` is a function by recursion,
and the library's induction theorems cannot be used. `Least` (a set of numbers
has a least member, from the well-foundedness of `<`) does instead: `UpTo`, what
holds at 0 and is passed on holds up to a bound, by the least number where it
fails; `Recursion`, that the function exists, by the least bound up to which none
does; `FollowSteps`, `ChainOwned` and `ChainParts` from these. That a file has no
more parts than the disk has clusters, so that `Follow` reaches its end, is a
count of its parts (`PartsFit`).

`Fat32Store`:

- `SpaceKept` (`NoLeak`). `Accounted`: until the machine stops, what the FAT on
  the disk marks as taken is owned, but for the folder a delete is about to
  free. What is owned is in the chain of its owner, again by `Follow`
  (`ChainReaches`). A format starts from a memory of zeros (`Zeroed`).
- `ReadsWhole` (`ReadFaithful`). `Reads`: the buffer holds the first `i` parts and
  `cluster` the next, or the end mark. The loop ends by the size or by the mark,
  whichever comes first, and `FilesHeld` says that is the mark.
- `DriverImplementsStore` (`ImplementsStore`): the refinement, without fairness
  on either side. The abstract store is built from whole chains; as every file
  is whole, it is the simpler `View`, of tables and first blocks, so a step is
  compared with that: one place appears (`MkdirEntry`, `FileEntry`), one
  disappears (`DeleteDir`, `DeleteFile`), or none changes. That an empty place
  is no object is `ObjectAssumption`.

They rest on the assumptions of `Fat32`: sizes are positive and cluster
numbers below `0xFFF0` (`SizeAssumption`), strays lie behind the array
(`StrayAssumption`), names match themselves (`NameAssumption`), what a block is taken
for is a table (`BlockAssumption`), sentinels are no data (`SentinelAssumption`).

`BootProofs`, for any number of stray gates below the table's end and any
vectors the user program raises: `BootTypes`, `NoFault`, `Mapped` and
`Bounded`, the four invariants of the run, with the page directory of `Paging` for any
number of frames and pages. None is inductive alone, and one
invariant, `Inductive`, carries all four: `Order` says what each stage of the
boot has already done (while the gates are being made every line is masked;
once the keyboard's is open every gate of the table is there; before user mode
the task state is loaded and has a stack), `Stack` says who may lie on the
kernel's stack: interrupts are on over a frame only if it is that of call 4,
and the only second frame is the keyboard's. One lemma per action; those of the
boot are grouped, as none runs while something is handled.

They rest on `StubAssumption` and `PagingAssumption`.

`PagingProofs`, for any number of frames and any directory, and callers that free
too, which the repository has none of: `PagingTypeCorrect` and
`CountHolds`. Their conjunction is inductive and neither is alone: the balance
gives the count at which the mark falls
behind the map, and that it falls into the count keeps the balance.

They rest on `PagingAssumption`.

`KeyboardProofs`, for every screen, width of a byte, length of the buffer, layout
of keys and text that is printed:

- `TypesKept` (`TypeOK`). What `puts` does is a fold over the text. `PutsSteps`
  proves that the fold goes step by step, by building the function it is defined
  by (the least length for which there is none); `PutsEffect` then says, by the
  least turn at which it would be false, where the text's last byte leaves the
  position and the cursor.
- `LineShown` (`ScreenShowsLine`). The invariant has three parts. `Taken`: the
  buffer was written below its index only. `Placed`: the prompt has left the
  position behind column 0 with the cursor at it, and a line that begins behind
  the prompt stays there. `Shown`: cell by cell, the line. A character appended
  or erased falls on a cell of its own because places less than `BYTE` apart in
  a row are different (`PlacesApart`).
- `PromptStays` (`PromptKept`), an action property, from the same invariant.
- `LineGiven`, the safety part of `ImplementsLineReader`: the first state is one of
  `LineReader` and every step is one of its steps or changes nothing it sees. What
  is copied ends at the first NUL (`FirstEnd`), which is where Enter put it
  (`EndedWhole`), although the bytes of what was erased lie behind, and the copy
  of a line shorter than `COPIED` is the line (`CopiedWhole`).

They rest on `ScreenAssumption` and `KeyboardAssumption`.

`ShellProofs`, for any disk, names, files, lines and number of commands, with the
driver's assumptions and `ShellAssumption`: `ShellTypesKept` (`ShellTypeOK`),
`MoveKeepsFile` (`CopySurvivesMove`), `CdGoesDown` (`CdStaysBelow`) and
`PromptNamesIt` (`PromptNamesFolder`).

- The driver's invariants, `Sound`, `Folders` and `FilesHeld`, are proved above for
  its own callers, which name directories. The shell names what it read,
  so each lemma about a call is stated once for any request to a parent that
  holds a table (the `...CallOn` lemmas) and used by both specifications.
  `MovesDisk` carries them over while the disk is `Trusted`: no stray index, a
  signature, no write under way over the boot sector. That `Trusted` never
  comes back once lost is `TrustBefore`. `Outside` adds what `mv` needs when it
  deletes from a parent it ran over: in clusters no directory has, nothing is in
  use.
- `ShellInv` is those and `ShellFits`, which says at which step of a command which
  call of the driver is under way (`CallFits`, `LineFits`), that the path holds
  clusters of the disk that are no file's and what is asked is one of them
  (`PathTaken`, `ParentFits`), and, since an answer is taken a step after it was
  given, that it is still true then (`TableAnswered`).
- A move: what was read is still in its folder (`SourceKept`), so `write`, which
  refuses a name that is there, can only have put the copy into another
  (`CopyWritten`), and when `delete` is called it is there, elsewhere (`CopyKept`).
  `delete` then takes a file in the shell's folder, none, or one whose extension
  is `GarbledExt`, which the copy's is not, or looks into a cluster no directory has
  (`DeletedElsewhere`).
- `cd`: a folder found is one in use or its own first entry (`FolderRead`), which
  `FoldersNameThemselves` says leads where it should.

Only model-checked: liveness and whatever needs fairness, for which the provers
have no rule here (`AlwaysReadyAgain`, `KeyTaken`, `Booted`, `KeyNoticed`,
`PromptsAgain`, and of `ImplementsLineReader` the part that says a line that was
ended is given). The five properties that are violated are refuted by their runs
and stated by no theorem.

## Not modelled

The transfer of a block and what a power loss does inside a cluster; colours;
the contents of the GDT and the TSS; the port instructions, which have no
behaviour of their own; `parseCommand.c`, which nothing builds; the host side of the inserter;
the string library, whose functions the models use by what they do. Of paging,
what a mark below the map overwrites once the count exceeds the frames. Of the
console, what `puts` leaves on the screen of a text of 256 bytes and more, on which it
does not end; of the shell, its messages, what it does once a file longer than `cl` has run
over its literals, and what the driver makes of a file's block read as a table.

## Plan

1. `StringLib`: `memmove`, `memcmp`, `strlen` against reference definitions.
2. Of the ATA driver, a block's transfer and a power loss between the blocks of a
   cluster.
