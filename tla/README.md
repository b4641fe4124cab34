# SBUnix: TLA+ specifications, model checking and proofs

SBUnix is a small x86-64 kernel: it boots from the FreeBSD loader, builds a list
of free pages and its own page tables, makes a process of the ELF file
`bin/sbush` it finds in a tar archive linked into the kernel, and runs it beside
an idle process under a timer-driven round robin. Processes reach the kernel by
`int 0x80`: `printf` (1), `gets` (2), `execvpe` (3), `getcwd` (5).

The specifications are of the code a boot of this tree runs. `src/` keeps earlier
versions of many functions, a second, disabled `start` and commented-out calls;
those are listed below and not modelled.

## 1. Inventory

| Component | State | Operations | Works with |
|---|---|---|---|
| Scheduler, context switch (`schedule.c`, `isr.c`, `isr.s`, `irq.s`, `gdt.c`) | `ready_processes`, `idle_process`, `currently_running_process`, `first_schedule`, `timer_ticks`; per pcb `time_remaining`, `rsp`, `kstack`; cr3, TSS.rsp0 | boot calls, `generate_timer`, `get_next_ready_process`, `schedule_old_process`, `schedule_user_process` | timer interrupt; `execvpe`; `gets` |
| Page allocator (`paging.c`, `main.c`) | the descriptor list, two heads, lengths | `append_free_list`, `set_free_list_head`, `set_new_free_list_head`, `get_next_free_page`, `get_next_free_page_kmalloc` | the loader's memory map; everything that maps |
| Address spaces (`paging.c`) | tables, `kernel_cr3`, cr3, `top_virtual_address` | `create_kernel_pml4`, `map_all_kernel_pages`, `kmalloc_user`, `kmalloc_top_virtual_address_user`, `create_new_user_pml4`, `page_walk_user`, `set_cr3` | allocator; process creation |
| Process creation (`task.c`, `elf64.c`) | mm and vma lists, pcbs | `load_elf_vmas`, `create_process`, `create_dummy_process`, `exec_new_binary` | address spaces; scheduler; archive |
| Keyboard and gets (`keyboard.c`) | `buffer`, `key_count`, `keyboard_flag` | `keyboard_interrupt`, `init_keyboard`, `getstring` | keyboard interrupt against every process in `gets` |
| Console (`kprintf.c`) | screen, `videoCardPosition`, `scrollForNextCall` | `initScreen`, `kprintf` and its conversions, `scroll` | every component prints |
| Tar file system (`tarfs.c`, `math.c`) | `vfs`, `vfs_pointer` | `tarfs_init`, `tar_get_index`, `tar_lookup`, `tar_ls`, `get_elf`, `traverse_tarfs` | boot and `exec_new_binary` |
| ELF images (`elf64.c`, `task.c`) | the mm and its list of areas | `check_elf_loadable`, `load_elf_vmas`, the copy in `create_process` | process creation |
| Traps, descriptor tables, ports (`isr.s`, `irq.s`, `gdt.c`, `idt.c`, `io.c`) | the frame of a trap, gates, TSS.rsp0, the two interrupt controllers | stubs, `fault_handler`, `irq_handler`, `syscall_handler`, `set_tss_rsp` | everything that runs |
| User programs, libc (`bin/`, `libc/`, `crt/`) | none to speak of | stubs around `int 0x80` | system calls |

Interrupt gates clear the interrupt flag, so a system call, a fault or an
interrupt runs to its end, with two exceptions: `getstring` executes `sti` and
waits in the kernel (the timer can preempt it there, the keyboard interrupt writes
what it reads), and `start` enables interrupts at its end. Boot and page-table work
is sequential. That is what decides where the models interleave.

What makes each component correct:

* *Scheduler*: no process is lost, doubled or starved; whoever runs is on its own
  tables and stack; a suspended stack is intact, with the frame to resume on top.
* *Allocator*: what it hands out is memory, is handed out once, and is neither the
  kernel nor the list itself; running out is reported.
* *Address spaces, process creation*: a process has all of its memory, shares
  none of it, and no page is lost on the way.
* *Keyboard*: a line is what was typed since it was asked for, ends with KB_ENTER
  and reaches its reader; the buffer is not overrun.
* *ELF images*: every byte of a segment is at its address; a bad file harms no process
  that exists.
* *Traps*: what is interrupted goes on with its own registers, stack and flags; handlers
  read the words that are there; no interrupt stays unacknowledged.
* *Console*: the screen shows the text printed; the cursor stays on mapped memory.
* *Tar file system*: every member is listed, below its directory; the file sought
  is the file found, unless something before it in the archive spells its name.

Everything found hard to test is in `PROJECT.json` under `hazards`, at its line,
with the properties that watch it.

## 2. Modules

| Module | What it is |
|---|---|
| `Scheduler` | run queue, timer, traps, kernel stacks, boot of the scheduler |
| `FairDispatcher` | abstract: each admitted process runs or waits, none waits for ever |
| `SchedulerFairness` | length of the wait; `Scheduler` as an implementation of `FairDispatcher` |
| `SchedulerProofs` | lemmas about lists without repetition; the scheduler's invariant and theorems |
| `FreeList`, `FreeListProofs` | the allocator; its invariant and theorems |
| `Elf` | EXTENDS `FreeList`: program headers, the areas made of them, and the arithmetic of mapping and copying |
| `Paging`, `PagingProofs` | EXTENDS `Elf`: address spaces and process creation over that allocator; the invariant and theorems of the address spaces, on top of the allocator's |
| `ProcessProofs` | EXTENDS `PagingProofs`: the invariant and theorems of process creation |
| `TrapFrames`, `TrapFramesProofs` | traps and switches word by word: stubs, struct registers, crafted frames, end of interrupt; invariant and theorems |
| `Keyboard`, `KeyboardProofs` | driver and `getstring`, one character at a time; invariant and theorems |
| `Console`, `ConsoleProofs` | `kprintf`, one turn of its loop at a time; invariant and theorems |
| `Tarfs`, `TarfsProofs` | the archive, `tarfs_init`, the lookups and the search of `get_elf`; invariant and theorems |
| `MC*` | finite values of the constants for TLC |

Variables and actions have the names of the C globals and functions where there is
one; `PROJECT.json` maps each definition to its lines. Definitions named `Mutant_...`
are wrong versions of the definition after them; no specification uses them.

### Scheduler

A kernel stack is the sequence of trap frames on it (`irq0`, `int80`, `fault`); a
stack pointer names a stack and a depth; a page-table root is named by its
process. A trap out of user mode goes to the stack of the TSS, any other to the
stack in use, as the CPU does. `TimerTick`, `FirstSchedule` and `SwitchProcess` are
the three paths through `generate_timer`: a tick that only counts, the first
decision, which dispatches the idle process and saves nothing, and the later ones.
The frame the idle process starts from returns to the *call* in `irq0`, so it counts
a tick at once: `timer_ticks' = 1`. A user process starts with `time_remaining = 0`
(the field lies among the first 512 bytes of its page, which `append_free_list` clears)
and still gets a slice. `schedule_old_process` is
`RequeuedList` and `RequeuedTime`. `gets` is a frame that a process may be preempted
on; `HaltOnException` is the `for (;;)` of `fault_handler`.

### FreeList

The list is an array, because that is how descriptors are laid out; a head is an
index and the index after the last is NULL, or KERNBASE + NULL for the late
allocator. Using that address is a page fault; `page_fault_handler` returns, into a
frame with a word too many, and the exception that raises stops the machine
(`TrapFrames`). Counting bytes and pages is done with the code's own rounding. The
memory map is an input: sorted, not overlapping, as firmware reports it.

### Paging

Every allocation is a step of `FreeList`. Tables are functions from slots to
entries, four levels, with the recursive slot. `todo` is the call stack of the C
code, flattened to the calls that remain; `call` is the mapping loop in progress;
`page_walk_user` is three actions, one for each thing a step of it may find. One
`top_virtual_address` serves all address spaces, as in the code. `get_elf` may find any
of the files of the instance or none; `file` and `contents` say which part of
which file each page was filled with.

`PagingAssumption` says of the constants what `start` and the linker script give: the screen
lies below the kernel image and the image below `physfree`, KERNBASE is in the last top-level
slot, less is mapped behind the descriptors (10 pages) than `top_virtual_address` leaves free
there (200). And of a file: its segments and the stack lie below the two last top-level slots,
no segment is on page 0, and offset and address of a segment agree within a page, as ELF
asks.

### Elf

A file is its sequence of program headers; of its bytes only the place counts. The
kernel does not know where a file ends, and copies whole pages: behind a short segment
come the bytes that follow it in the file, also where the program expects zeros.
`Readable` is how far memory is mapped behind an ELF header.

### TrapFrames

Here a kernel stack is made of its 512 words, and `cpu` of the fifteen registers the stubs
push and of what the processor pushes. A step goes from one address kernel code may be
interrupted or resumed at to the next: a trap up to the handler it calls, the handler up to
its `ret`, the pops, the `iretq`. `generate_timer` may exchange the stack pointer for the one
saved by any other process; which, is left to `Scheduler`. What `create_process` puts into a
first frame by index is laid out as it is there, so a process is started, as in the code, by
popping fifteen words nobody pushed. `TimerPushes` is the number of words the compiled
`generate_timer` pushes before it saves its stack pointer: the offsets in `schedule.c` are
right for 1 and for no other number. `context` remembers what was interrupted. Exceptions
strike user code, the idle function, `getstring`, and `syscall_handler` where it uses a
program's pointers.

### Keyboard

`keyboard_interrupt` is one step; `getstring` has a step for each load of the flag,
each character of `strlen` and each of `strcpy`, with keys and other readers between
any two. `keyboard_flag` is not volatile, so the build is a choice (`load`). After an
access outside of the buffer, or to an address that is not mapped, nothing is claimed
(`stopped`).

### Console

`Turn` is one turn of the loop: the scroll asked for by an earlier turn, then one
character, line end or conversion. Positions are cells. An item carries the text it
writes and the number of cells it reports, which differ for `printInt` of 0 and of
negative numbers. `at` and `text` are an endless page that grows by whatever is
printed; the screen is compared with it. A write behind the mapped cells (two pages,
`main.c:190`) is a page fault in the kernel (`faulted`).

### Tarfs

An archive is a sequence of blocks: headers, contents, zeros. What `tar` makes of the list
`find` gives it in the Makefile is the assumption `ArchivesAssumption`: behind a header as
many blocks of contents as its size needs, zeros at the end (`LaidOut`); names are unique,
those of directories end with a slash, and a directory comes before what lies in it (`Tree`);
the octal digits of a size read back as the size (`SizesReadBack`). `MCTarfs` builds archives of
lists of members. `p` counts headers, `offset` bytes, as the code does.

`traverse_tarfs` has a step for each place it compares at, which is every 8th byte, whatever
lies there: `at` counts words of 8 bytes and `elf`, which is 512 bytes behind the word that
matched, does so too. `Spells` says what `strcmp` finds at a word: the string a block begins
with, what is left of a header's name of 100 bytes behind its first 8, 16, ... bytes (the constant
operator `Rest`), and whatever the later fields of a header, `linkname` among them, and
contents spell (`spells`). `MCTarfs` counts the bytes of the parts of its names for `Rest`.

## 3. Runs

| Run | Question | Bounds |
|---|---|---|
| `scheduler` | do queue, stacks, tables and TSS agree; does each decision shorten the wait; does every process keep running, as `FairDispatcher` says? | 3 users + idle; 3 ticks a slice; quantum 3 |
| `free_list` | is each page handed out once, none of the kernel or the list, and nothing but memory where the map is one aligned region? | one aligned region of 3 to 12 pages; two or three regions, every alignment, gaps |
| `free_list_adjacent`, `free_list_exhausted` | *violated*: see findings | regions that touch; 3 pages or more |
| `paging` | are address spaces complete and disjoint, do segments arrive, do mappings stay, what stops the kernel and what loses a page? | eight files or none, memory for all or for less; one `execvpe`; 4 slots a table |
| `elf_copy` | *violated*: see findings | as above |
| `traps` | does everything interrupted go on as it was, and do handlers read the right words? | 2 users + idle; 2 ticks a slice; vectors 6, 8, 13, 14, 32, 33, 44, 128 |
| `traps_error_code` | *violated*: see findings | as above |
| `keyboard` | is a line what was typed, does it arrive, what goes wrong? | 2 readers, buffer 3, 5 keys, either build |
| `console` | do screen, cursor and pending scroll follow the text? | 2 lines of 3 cells, 12 cells mapped, 4 calls |
| `tarfs` | is every member listed below its directory; what does `get_elf` return, and what hides a file from it? | five orders, sizes 0, 1, 511, 512, 513, words of 8 bytes |
| `tarfs_address` | *violated*: see findings | as above |

Why the bounds suffice. Scheduler: with three users and the idle process two
alternate at the front of the list while two wait, a quantum of 3 (the code's) is
used up, renewed and used up again, a process is admitted in each of these
situations, and 3 ticks have the path that only counts, twice, and the path that
decides (the code's 180 adds more of the first). FreeList: the numbers of descriptors
cross the size of a page, so the table takes one page or two, and each alignment of
a region's ends occurs. Paging: 4 slots are a kernel half, a recursive slot and two
for users; files need new tables at each level, and their segments lie apart, adjoin, share a
page in both ways, cross a table, are missing, or lie too far into the file. The smaller
machine runs out of pages in the middle of the second process. Traps: the vectors are an
exception without an error code, one whose stub knows it has one, two whose stubs do not,
one interrupt of each controller, the timer, and a system call; two users are switched in
both directions with nested interrupts of `getstring`, and `timer_ticks` has its two paths.
Keyboard: more keys than the buffer holds, so it fills while it is read, by either reader.
Console: the screen scrolls several times in a call, every conversion meets the end
of a line and of the screen, and one item is longer than the screen is high. Tarfs:
sizes on both sides of a block, directories inside directories, a member that is
neither file nor directory. The names sought are spelt before the file and behind it: by the end
of a longer name (`bin/old/bin/sbush`; `ls` in `bin/sub/ls`), by the target of a link
(`../bin/sbush`), by contents, and by contents at a byte that is not compared.

Fairness is assumed in two places. `WF(Boot)` and `WF(generate_timer)`: boot runs to
its end without waiting for anything, and the timer chip keeps interrupting as long
as interrupts are on, which they are in user mode, in `getstring` and in the idle
function. `WF(getstring(r))`: a process in `getstring` runs again and again, which
`EveryProcessKeepsRunning` shows of the scheduler. No fairness is assumed of keys,
system calls or exceptions.

`CHECK_DEADLOCK FALSE` is set where a system may stop: a halted machine, an overrun,
a list used up, a bound on calls or keys reached.

## 4. Findings

Each is a run that TLC finds violated, of a sentence in the code.

* `NoPageHandedOutTwice` (`paging.c:278`): the `<=` of the loop for further regions lists a
  page twice where two usable regions meet.
* `ExhaustionIsReported` (`paging.c:441`): after the last page the head is
  KERNBASE + NULL; the test for NULL fails, and the page fault stops the machine.
* `SegmentsAreCopiedFromTheirOffset` (`task.c:249`): `elf_head` points to words of 8 bytes and
  `vm_offset` counts bytes, so the copy starts at eight times the offset.
* `ProcessorPartIsPushedByProcessor` (`isr.h:14`): the stubs of exceptions 13, 14 and 17 push
  a dummy on top of the processor's error code.
* `AddressIsStartOfContents` (`tarfs.c:88`): the address kept for a file is its header
  plus its size.

More observations that no run shows as violated:

* `isr.c:385` says "run idle process if no other process remaining", and the branch below it
  does; but the idle process is also requeued like any other and takes its slices while users
  are ready.
* `kmalloc_user` ("kmalloc for user processes", `paging.c:461`) maps user pages below
  upper-level entries that `map_all_kernel_pages` made for the kernel, which user mode cannot
  pass; no program of this tree uses them.
* `get_elf` "returns the pointer to the ELF header of the file" (`tarfs.c:380`), unless the name is
  spelt before the file at a multiple of 8 bytes. A member `bin/old/bin/sbush` before `bin/sbush`
  is taken for it, since the name's 8th byte begins its end; a link in front of it to
  `../bin/sbush` is, since that lies at byte 157 of the header; and `get_elf("ls")` returns a place
  inside the block behind the header of `bin/sub/ls`, though no file is named so.
  `GetElfFindsUnlessSpeltBefore` claims no more because of that.
* Rounding up the end of a region, and the `<=` of the loop for further regions, list a page
  that is not, or not all, memory: `HandedOutPagesTouchMemory` claims no more than it does
  because of that.
* A page taken for an address that is already mapped is dropped, where `paging.c:719` says "we
  will need to free the physical page": `OnlyARefusalLosesAPage` has that one page. If a file has a
  segment on the page of the stack, it is the stack that is refused, and nothing tells.
* `fault_handler` lets `page_fault_handler` return, but no fault is ever retried: the frame
  of `isr14` has a word too many and the `iretq` faults (`ExceptionsAreFinal`).
* `irq_handler` prints "System Halted!" for an interrupt of the second controller and goes on.
* `sbush` passes NULL to `gets` (`sbush.c:17-20`), so the first line typed makes `strcpy` write
  to an address that is not mapped, and the machine stops (`StrcpyFaults`).
* Two segments that share a page, which linkers make, stop the kernel (`OnlyABadFileHalts`).

## 5. Proofs

For every value of the constants that the assumptions admit:

| Theorem | States |
|---|---|
| `SchedulerTypeOK`, `SchedulerKeepsEveryProcess`, `SchedulerListNeverRunsDry`, `SchedulerCurrentOwnsTheCPU`, `SchedulerSuspendedFrameIsOnTop`, `SchedulerSuspendedStacksAreUntouched` | all the safety properties of the run `scheduler` but the length of the wait |
| `SchedulerStepsAreDispatcherSteps` | every step of `Scheduler` is a step of `FairDispatcher` or leaves its state as it is: the safety part of the refinement |
| `FreeListTypeOK`, `FreeListListsMemory`, `FreeListHandsOutMemory` | types; what is listed and what is returned touches usable memory, and is memory from its first to its last byte where the map is one aligned region |
| `FreeListHandsOutOnce`, `FreeListKeepsItsTable` | no page twice, never the kernel or the list, if the regions lie apart (`RegionsAreApart`) |
| `SpacesKeepTypes`, `SpacesKeepTheTopFresh`, `SpacesShareNoPage`, `SpacesKeepTheirMappings` | of `Paging`: tables are tables; nothing is mapped from `top_virtual_address` on; no page serves two purposes; no valid entry changes |
| `SpacesFit` | on a machine whose memory fits behind KERNBASE no call of the kernel runs out of addresses |
| `ProcessesHaveMemory`, `ProcessesHaveTheirFirstSegment`, `ProcessesHaltOnlyForABadFile` | of `Paging`: a process has all of its memory, for user mode, and keeps the segments that start with its file; the kernel faults only for want of memory or because of the file it is loading |
| `NoPageIsLost` | of `Paging`: each page the allocator returned is entered, a top-level table or in the hands of a call, but for the one of a segment that is refused |
| `PagingStepsAreFreeListSteps` | all that `Paging` does to the allocator is a step of `FreeList`, or a fault that leaves its list alone |
| `TrapsKeepTypes`, `TrapsReturnToWhatTheyInterrupted`, `TrapHandlersReadTheFrame`, `TrapsEndInExceptions`, `TrapsAcknowledgeInterrupts` | all the properties of the run `traps` |
| `KeyboardTypeOK`, `KeyboardNoLineBeforeEnter`, `KeyboardLineIsWhatWasTyped`, `KeyboardOnlyEnterOverruns` | all the safety properties of the run `keyboard` |
| `ConsoleTypeCorrect`, `ConsoleCursorStaysNear`, `ConsoleScreenShowsText`, `ConsoleKeepsPlainText` | all the properties of the run `console` |
| `TarfsKeepsTypes`, `TarfsOffsetFollowsP`, `TarfsListsEveryMember`, `TarfsParentHoldsChild`, `TarfsFindsUnlessSpeltBefore` | all the properties of the run `tarfs` |

Each of these follows from an inductive invariant, whose own theorem is named `...Invariant`.
TLC checked each invariant on the instance of the component's run before it was proved.

*Scheduler.* Assumed: two ticks or more a slice, a positive quantum, pcbs that are not
NULL. None of the properties is inductive: that the frame on top is the timer's needs
that the CPU's own stack pointer is at the top of the running stack, and that needs the
order of boot. `IInv` adds those parts: `BootOrder` (which variables are set after
which call), `CpuOnTop` (rsp points to the last frame of the current stack) and
`Suspended` (every process in the list, and the idle process before its first
dispatch, has its frame). Two ticks are needed because the first dispatch counts one.

*FreeList.* Assumed: the sizes are positive, a descriptor fits a page, maps are sorted
and a usable region does not end on the first page after the kernel. `IInv` says that
the list ascends, that what is still to be listed lies above it, and that what was
handed out are the consecutive elements between the table and the head: no page twice
then follows from the list ascending, and the table's pages from the position of the
first element handed out. Without `RegionsAreApart` both are false, as the run
`free_list_adjacent` shows. Types and `HandedOutPagesTouchMemory` need no such thing: they come
from `Counted`, the part of `IInv` that is about lengths and positions, and `MemoryInv`,
which gives each page listed its region.

*Paging.* Assumed: `PagingAssumption`, `RegionsAreApart`, and that addresses do not run out
(`Fits`), which holds if the memory of the machine fits between KERNBASE and the end of the
address space (`MemoryFits`, theorem `SpacesFit`). The properties say what is mapped; the
invariant has to say how tables hang together, and `SpacesInv` has one part for each fact:
`TablesInv`, each table is a page the allocator handed out, and how far `start` has come;
`Leveled`, there is a level for each table so that entries lead one level down, the recursive
slots apart; `TopsAreAlike`, top-level tables name themselves in one slot and share another;
`PagesAreOwned`, what two different entries name differs; `KernelTopIsFree`; `CallFits`, the loop in
progress stays within what its caller asked for; `InOrder`, what remains of a C function
opens a space, fills it and closes it. That an entry is made for one address and disturbs no
other follows from three lemmas: an address is determined by its four digits
(`DigitsDetermine`), two paths that meet in a table are the same above it (`PathsMeetOnce`), and a
path is only prolonged by a new table (`PathsGrow`). A new page cannot be one already
entered, because the allocator hands out a page once: `FreeListProofs` is part of this proof.

*Process creation.* Assumed: the same as of the address spaces. `SpacesInv` says nothing of which
task of `create_process` is next or of what was copied; `ProcessInv` does. The tasks of a file
are counted from their end (`Left`), since the end is always the same: the areas, the stack, done.
With m of them left the areas before that are mapped in the new space and filled with their
parts of the file, as far as the loop in progress has come, and nothing else is mapped below
`UserEnd` (`BuiltIn`): that is why a mapping there is refused only where two areas share a page, or an
area has the stack's.
The top-level tables of processes have entries for users on every path below `UserEnd`
(`UserPaths`). Pages written for one process are never pages of another because of
`PagesAreOwned`. That areas of different segments are disjoint unless the program headers share
a page is arithmetic of roundings (`ShiftedQuotient` and the lemmas after it).

*The account of pages.* `NoPageIsLost` also assumes that no file has a segment on the page of the
stack (`StackIsApart`): with `StackPage = 3` in `MCPaging.cfg`, where files have segments, TLC finds
the property violated. `Account` says beside it that the top-level table of the process being created
is entered as soon as its own call has come that far (`RootIsKept`), so that the next process may
replace it; that a call that has mapped all of its addresses holds no page (`HandsAreEmpty`); and that
the top lies above the direct map (`TopIsHigh`), whose entries are not counted. An entry once owned
stays owned (`OwnersRemain`), because the only entries written over are those of the direct map. That
only a segment is refused is `BuiltIn` once more: when the stack's turn comes nothing but the file's
areas is mapped below `UserEnd` (`OnlyASegmentIsRefused`).

*Traps.* Assumed: one word is pushed below the frames that `schedule.c` computes addresses of
(`OnePushAssumption`); with any other number the properties are false, and TLC shows it. `IInv`
describes the stack of every process word by word from what `context` remembers: the words
of each trap that has not returned (`Nested`), the frame of a process that does not run
(`Suspended`), the place in stub, handler or `getstring` the processor has come to
(`Running`), and which interrupt is in service (`ServiceFollows`). An interrupt of `getstring`
overwrites nothing the system call needs because it lies below it (`Below`). After an exception
`Stopping` is all that is claimed.

*Keyboard.* `NoLineBeforeEnter` is not inductive: a reader leaves its loop because of
a flag. `FlagMeansEnter` adds that a set flag implies a KB_ENTER in the call of every
process that is in `gets`. For the line itself, `LineInv` says of a reader whose buffer no
other process has emptied that the buffer holds what was typed since it called, as far as
it reaches, and that what it has counted and copied is the part before KB_ENTER.

*Console.* The first two properties are inductive together: since a scroll is pending exactly
when the cursor is behind the screen, a turn begins at most at its end, and moves on by
at most a line. Assumed: at least a line of memory is mapped behind the screen. `TextInv` says
of the text that each cell shows it or it was noted in `spilled`; what a scroll brings into
view was written behind the screen, so text there is noted when it is written. A line end
goes to the next multiple of the columns, which is where the text's own line begins because
`top` counts whole lines.

*Tarfs.* Assumed: `ArchivesAssumption`, words no longer than half a block. `ScanInv`: `p` is
before a header or before the end and never before contents, since `LaidOut` puts the next
header where `file_number` goes. `TableInv`: the table holds the members before `p`, at
their places, and each lies in the directory its name says, because `Tree` has that directory
before it and counting slashes from the end of a name finds the one behind which the last part
begins. `SearchInv`: the words before `at` were compared and are not the name. Nothing is assumed
of `Rest` or of what fields and contents spell: the first word of the file's header spells its
name, so the search ends there or in a block before it, and words are counted through blocks
(`Words`) to get from the word that matched to the address returned.

Model-checked only, and why:

* liveness: `EveryProcessKeepsRunning`, the fairness of `ImplementsFairDispatcher`,
  `EveryLineIsDelivered` (fairness and ENABLED are out of reach of the prover);
* `EveryDecisionShortensTheWait` of `Scheduler`: the length of a wait is a sum over the processes
  ahead, defined by recursion over a set, and needs induction over data;
* that the archives of `MCTarfs`, built of lists of members, are laid out as
  `ArchivesAssumption` says: TLC evaluates it for them. For all lists it would be an induction
  over members and over octal digits;
* the sentences that runs find violated.

## 6. Not modelled, and why

* The bytes of files beyond their places, and the contents of pcbs beyond the fields named.
  Tables are taken to be empty when their page is taken: memory that was zero at power-on.
  `append_free_list` clears only the first 512 bytes of a page, and nothing clears a table.
* `validate_elf_header`: both callers overwrite its result. Files are well-formed ELF
  files; of a file that is not one the kernel would read arbitrary program headers.
* `get_elf` of `Tarfs` and of `Paging` are joined by an input: `Paging` takes the files found
  as a constant. This tree builds only `bin/sbush`; `bin/ls`, which `execvpe` looks for, may
  be there or not. A name spelt before its file, which `get_elf` would return in place of it, is
  in `Tarfs` and not in `Paging`.
* A `kprintf` that is interrupted, as it can be in `getstring` after the `sti` and in the idle
  function (`main.c:29`), which runs with interrupts on: a turn of its
  loop reads and writes the cursor in several instructions, and a step of `Console` is a turn.
* The string literal that `tarfs_init` builds names in, the limit of 2048 entries,
  sizes of 2 GiB.
* Functions no live path reaches: `map_mem_to_pages`, `create_free_list`,
  `kmalloc_old`, `map_kernel_page`, `page_walk`, `add_ready_process`,
  `schedule_ready_process`, `first_process_switch`, the kernel threads of `task.c` and
  `mm.c`, `print_vfs`, `tar_ls`, `get_file_offset`, `test_offset`, `get_file_content`,
  `get_tarfs`, `open_tarfs`, the disabled `start`.
* The bits of descriptors and gates, the programming of the timer chip; libc and `sbush`; the vendored boot loader; the AHCI
  structures, for which there is no code.

## 7. Plan

Done, in the order of importance: Scheduler with its proofs and its abstract
specification; FreeList and Paging; Keyboard; Console; Tarfs; Elf, with the contents of
pages and the paths on which no file is found; TrapFrames.

Next, models:

1. Tables with arbitrary contents at power-on in `Paging`; where descriptors lie
   in `FreeList`.
2. `Scheduler` composed with `Keyboard`: readers that run only when dispatched, so that
   the delivery of lines follows from the fairness of the timer alone.
3. `TrapFrames` as an implementation of the stacks of `Scheduler`, a frame for its words.

Next, proofs: the bound of a wait in `Scheduler` for a fixed number of processes; then what the
models above add.

## 8. Running

    tlc -config MCScheduler.cfg MCScheduler.tla
    tlapm SchedulerProofs.tla

and likewise for each row of section 3 (`PROJECT.json`, `runs`, has the names) and
each `...Proofs` module.
