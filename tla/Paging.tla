------------------------------- MODULE Paging -------------------------------
(***************************************************************************)
(* Address spaces (sys/paging.c) and what builds them: start() in          *)
(* sys/main.c, load_elf_vmas in sys/elf64.c, create_process,               *)
(* create_dummy_process and exec_new_binary in sys/task.c.  What the files *)
(* say comes from Elf.                                                     *)
(*                                                                         *)
(* Every page comes from the allocator of FreeList, one allocation a step: *)
(* a step of this module that allocates is a step of FreeList.  All of it  *)
(* runs with interrupts off; the steps are not interleaved with anything.  *)
(*                                                                         *)
(* Virtual addresses are page numbers, read as four digits of base Fanout  *)
(* (512 in the hardware), one for each level of tables.  A page used as a  *)
(* table is all empty at first: append_free_list clears only the first     *)
(* 512 bytes of each page, so this is memory that was zero at power-on.    *)
(***************************************************************************)
EXTENDS Elf

CONSTANTS Fanout,
          KernBase,     \* KERNBASE's page; its top-level slot is KernelSlot
          Physbase,     \* first page of the kernel image
          VideoPage,    \* 0xb8000
          MapSlack,     \* pages start() maps past the descriptors (10)
          TopSlack,     \* pages from the image to top_virtual_address (200)
          StackPage,    \* the page of every user stack
          SmallPages,   \* pages of kmalloc_user(sizeof an mm or vma)
          PcbPages,     \* pages of kmalloc_user(sizeof(pcb))
          Binaries,     \* the files get_elf may find
          NoFile,       \* what it returns if it finds none
          MaxExecs      \* bound: binaries started after the first one

(***************************************************************************)
(* The screen lies below the kernel image, the image below physfree.  Top- *)
(* level slots 510 and 511 are the kernel's: the stack and the segments of *)
(* the files lie below them.                                               *)
(***************************************************************************)
ProgramHeader == [p_type : {"PT_LOAD"}, p_offset : Nat, p_vaddr : Nat, p_filesz : Nat, p_memsz : Nat]
Span(level) == << 1, Fanout, Fanout * Fanout, Fanout * Fanout * Fanout >>[level + 1]
AddressEnd  == Fanout * Span(3)
UserEnd     == (Fanout - 2) * Span(3)
ASSUME PagingAssumption ==
    /\ Fanout \in Nat /\ Fanout > 3
    /\ KernBase \in Nat /\ KernBase \div Span(3) = Fanout - 1
    /\ Physbase \in Nat /\ VideoPage \in Nat \ {0}
    /\ VideoPage + 1 < Physbase /\ Physbase * PAGESIZE <= Physfree
    /\ MapSlack \in Nat /\ TopSlack \in Nat /\ MapSlack < TopSlack
    /\ SmallPages \in Nat /\ PcbPages \in Nat
    /\ StackPage \in Nat \ {0} /\ StackPage < UserEnd
    /\ WordBytes \in Nat \ {0} /\ Readable \in Nat
    /\ NoFile \notin Binaries
    /\ \A b \in Binaries :
          /\ Loads(b) \in Seq(ProgramHeader)
          /\ \A i \in DOMAIN Loads(b) :
                /\ vmas(b)[i].vm_start \div PAGESIZE > 0
                /\ vm_start(vmas(b)[i]) + vm_size(vmas(b)[i]) <= UserEnd
                /\ Loads(b)[i].p_filesz \in 1 .. Loads(b)[i].p_memsz
                /\ Loads(b)[i].p_offset % PAGESIZE = Loads(b)[i].p_vaddr % PAGESIZE

VARIABLES
    tables,                 \* the pages in use as tables, each a function
    kernel_cr3,             \* 0 until create_kernel_pml4
    cr3,                    \* 0 while the boot loader's tables are in use
    top_virtual_address,
    todo,                   \* what the running C function still has to do
    call,                   \* the mapping loop in progress
    process_cr3,            \* of the process being created
    spaces,                 \* the processes created: [cr3, binary]
    file,                   \* p of start() or exec_new_binary, the file found
    contents                \* of the pages copied into: [file, from], the file and
                            \* the place in it of their first byte

files == <<file, contents>>
pagingVars == <<tables, kernel_cr3, cr3, top_virtual_address, todo, call,
                process_cr3, spaces, files>>
allVars == <<vars, pagingVars>>

Slots      == 0..(Fanout - 1)
SelfSlot   == Fanout - 2    \* 510, the recursive slot
KernelSlot == Fanout - 1    \* 511
Slot(v, level) == (v \div Span(level)) % Fanout

NoEntry == [page |-> 0, user |-> FALSE]
Entry(page, user) == [page |-> page, user |-> user]
EmptyTable == [s \in Slots |-> NoEntry]

(***************************************************************************)
(* A mapping loop: pages v, v + 1, ... up to beyond.  "page" is the page   *)
(* to map at v, 0 until it is there.  The kinds are map_all_kernel_pages   *)
(* (boot), kmalloc_user (heap), create_new_user_pml4 (pml4) and            *)
(* kmalloc_top_virtual_address_user for a segment or the stack.            *)
(***************************************************************************)
Mapping(kind, v, pages) ==
    [kind |-> kind, v |-> v, beyond |-> v + pages, page |-> 0, old_cr3 |-> cr3]
NoCall == [kind |-> "none", v |-> 0, beyond |-> 0, page |-> 0, old_cr3 |-> 0]

Mutant_MovesTop(c) == c.kind = "heap"
MovesTop(c) == c.kind \in {"heap", "pml4"}

PagingInit ==
    /\ Init
    /\ tables = << >>
    /\ kernel_cr3 = 0
    /\ cr3 = 0
    /\ top_virtual_address = 0
    /\ todo = << >>
    /\ call = NoCall
    /\ process_cr3 = 0
    /\ spaces = << >>
    /\ file = NoFile
    /\ contents = << >>

-----------------------------------------------------------------------------
(* Walking the tables *)

\* The table at each level on v's path from root; 0 where there is none.
Path(root, v) ==
    LET Below(table, level) == IF table = 0 THEN 0 ELSE tables[table][Slot(v, level)].page
        pdpt == Below(root, 3)
        pgd  == Below(pdpt, 2)
        pt   == Below(pgd, 1)
    IN  [level \in 0..3 |-> << pt, pgd, pdpt, root >>[level + 1]]

\* The lowest level with a table.
Deepest(path) == CHOOSE level \in 0..3 :
                    path[level] # 0 /\ (level = 0 \/ path[level - 1] = 0)

Translate(root, v) == LET pt == Path(root, v)[0]
                      IN  IF pt = 0 THEN 0 ELSE tables[pt][Slot(v, 0)].page

\* map_all_kernel_pages goes through kernel_pml4, the page walks through the
\* recursive slot of the loaded one.
Root == IF cr3 = 0 THEN kernel_cr3 ELSE tables[cr3][SelfSlot].page

User == call.kind # "boot"

Fresh == handed_out'[Len(handed_out')]

\* A missing table is taken from the allocator and entered in the one above.
AddTable(allocate) ==
    LET path == Path(Root, call.v)  level == Deepest(path)
    IN  /\ call.v < call.beyond
        /\ call.page # 0
        /\ level > 0
        /\ allocate
        /\ tables' = IF handed_out' = handed_out THEN tables ELSE
                     [t \in DOMAIN tables \union {Fresh} |->
                        IF t = Fresh THEN EmptyTable
                        ELSE IF t = path[level]
                        THEN [tables[t] EXCEPT ![Slot(call.v, level)] = Entry(Fresh, User)]
                        ELSE tables[t]]
        /\ UNCHANGED <<kernel_cr3, cr3, top_virtual_address, todo, call,
                       process_cr3, spaces, files>>

\* What the last level holds for v, once all tables are there.
AtLeaf == call.v < call.beyond /\ call.page # 0 /\ Path(Root, call.v)[0] # 0

Mutant_SetLeaf ==   \* the next level's index
    LET pt == Path(Root, call.v)[0]
    IN  [tables EXCEPT ![pt][Slot(call.v, 1)] = Entry(call.page, User)]

SetLeaf == LET pt == Path(Root, call.v)[0]
           IN  [tables EXCEPT ![pt][Slot(call.v, 0)] = Entry(call.page, User)]

-----------------------------------------------------------------------------
(* Boot *)

create_kernel_pml4 ==
    /\ kernel_cr3 = 0
    /\ get_next_free_page
    /\ kernel_cr3' = Fresh
    /\ tables' = [t \in {Fresh} |-> [EmptyTable EXCEPT ![SelfSlot] = Entry(Fresh, FALSE)]]
    /\ call' = [Mapping("boot", KernBase + Physbase, 0) EXCEPT
                   !.beyond = KernBase + Physfree \div PAGESIZE
                              + free_list_page_length + MapSlack + 1,
                   !.page = Physbase]
    /\ UNCHANGED <<cr3, top_virtual_address, todo, process_cr3, spaces, files>>

\* The loop's bounds are inclusive, and a valid entry is overwritten.
map_all_kernel_pages ==
    /\ call.kind = "boot"
    /\ \/ AddTable(get_next_free_page)
       \/ /\ AtLeaf
          /\ tables' = SetLeaf
          /\ call' = [call EXCEPT !.v = @ + 1, !.page = @ + 1]
          /\ UNCHANGED vars
          /\ UNCHANGED <<kernel_cr3, cr3, top_virtual_address, todo, process_cr3, spaces, files>>

map_video_memory ==
    /\ call.kind = "boot"
    /\ call.v = call.beyond
    /\ call.beyond # KernBase + VideoPage + 2
    /\ call' = [Mapping("boot", KernBase + VideoPage, 2) EXCEPT !.page = VideoPage]
    /\ UNCHANGED vars
    /\ UNCHANGED <<tables, kernel_cr3, cr3, top_virtual_address, todo, process_cr3, spaces, files>>

\* What a C function still has to do, one entry for each call in it.
NoVma          == [vm_start |-> 0, vm_end |-> 0, vm_offset |-> 0]
ToDo(op, start, pages) == [op |-> op, start |-> start, pages |-> pages, vma |-> NoVma]
Find           == ToDo("get_elf", 0, 0)
Heap(pages)    == ToDo("heap", 0, pages + 1)
Pml4           == ToDo("pml4", 0, 1)
Segment(vma)   == [op |-> "segment", start |-> vm_start(vma), pages |-> vm_size(vma), vma |-> vma]
Stack          == ToDo("stack", StackPage, 1)
Done(binary)   == [op |-> "done", binary |-> binary]

\* One mm, one vma a segment, one for the stack and one for the heap.
load_elf_vmas(binary) == [i \in 1..(Len(vmas(binary)) + 3) |-> Heap(SmallPages)]

create_process(binary) ==
    << Heap(PcbPages), Pml4 >>
    \o [i \in DOMAIN vmas(binary) |-> Segment(vmas(binary)[i])]
    \o << Stack, Done(binary) >>

create_dummy_process == << Heap(PcbPages), Pml4, Done(<< >>) >>

\* set_cr3, set_new_free_list_head, set_top_virtual_address, and start() goes on
\* to its first binary and the idle process.
LoadKernelTables ==
    /\ call.kind = "boot"
    /\ call.v = call.beyond
    /\ call.beyond = KernBase + VideoPage + 2
    /\ set_new_free_list_head
    /\ cr3' = kernel_cr3
    /\ top_virtual_address' = KernBase + Physfree \div PAGESIZE
                              + free_list_page_length + TopSlack
    /\ call' = NoCall
    /\ todo' = << Find >> \o create_dummy_process
    /\ UNCHANGED <<tables, kernel_cr3, process_cr3, spaces, files>>

BuildFreeList ==
    /\ append_free_list \/ set_free_list_head
    /\ UNCHANGED pagingVars

-----------------------------------------------------------------------------
(* kmalloc and the page walks *)

\* The running function comes to this kind of call.
Reaches(ops) == call = NoCall /\ ~faulting /\ todo # << >> /\ todo[1].op \in ops

\* The rest of FreeList's state, when the kernel uses an address that is not
\* mapped, or not.
FaultsIf(condition) ==
    /\ faulting' = condition
    /\ UNCHANGED <<phase, smap, entry, free_list, free_list_total_pages,
                   free_list_page_length, free_list_head, free_list_head_kmalloc,
                   allocated, handed_out>>

\* start() does not test what get_elf returns, and neither start() nor
\* exec_new_binary tests head, which stays NULL if nothing can be loaded.
StartsWith(b) == b # NoFile /\ check_elf_loadable(b)

get_elf ==
    /\ Reaches({"get_elf"})
    /\ \E b \in Binaries \union {NoFile} :
          /\ file' = b
          /\ FaultsIf(IF b = NoFile THEN spaces = << >> ELSE ~StartsWith(b))
          /\ todo' = IF StartsWith(b)
                     THEN load_elf_vmas(b) \o create_process(b) \o Tail(todo)
                     ELSE Tail(todo)
    /\ UNCHANGED <<tables, kernel_cr3, cr3, top_virtual_address, call, process_cr3,
                   spaces, contents>>

kmalloc_user ==
    /\ Reaches({"heap"})
    /\ call' = Mapping("heap", top_virtual_address, todo[1].pages)
    /\ UNCHANGED vars
    /\ UNCHANGED <<tables, kernel_cr3, cr3, top_virtual_address, todo, process_cr3, spaces, files>>

\* The caller takes the page of the new top-level table and has it mapped.
create_new_user_pml4 ==
    /\ Reaches({"pml4"})
    /\ get_next_free_page_kmalloc
    /\ IF faulting' THEN UNCHANGED <<process_cr3, call>>
       ELSE /\ process_cr3' = Fresh
            /\ call' = [Mapping("pml4", top_virtual_address, 1) EXCEPT !.page = Fresh]
    /\ UNCHANGED <<tables, kernel_cr3, cr3, top_virtual_address, todo, spaces, files>>

\* create_process loads the new tables, calls, and loads the old ones again.
kmalloc_top_virtual_address_user ==
    /\ Reaches({"segment", "stack"})
    /\ call' = Mapping(todo[1].op, todo[1].start, todo[1].pages)
    /\ cr3' = process_cr3
    /\ UNCHANGED vars
    /\ UNCHANGED <<tables, kernel_cr3, top_virtual_address, todo, process_cr3, spaces, files>>

TakePageToMap ==
    /\ call.kind \in {"heap", "segment", "stack"}
    /\ call.v < call.beyond /\ call.page = 0
    /\ get_next_free_page_kmalloc
    /\ call' = IF faulting' THEN call ELSE [call EXCEPT !.page = Fresh]
    /\ UNCHANGED <<tables, kernel_cr3, cr3, top_virtual_address, todo, process_cr3, spaces, files>>

Walking == call.kind \notin {"none", "boot"} /\ ~faulting

page_walk_user_AddTable == Walking /\ AddTable(get_next_free_page_kmalloc)

Mutant_page_walk_user_KeepsPage ==  \* the page just mapped is mapped again
    /\ Walking /\ AtLeaf
    /\ Translate(Root, call.v) = 0
    /\ tables' = SetLeaf
    /\ call' = [call EXCEPT !.v = @ + 1]
    /\ top_virtual_address' = top_virtual_address + (IF MovesTop(call) THEN 1 ELSE 0)
    /\ UNCHANGED vars
    /\ UNCHANGED <<kernel_cr3, cr3, todo, process_cr3, spaces, files>>

Mutant_page_walk_user_SetEntry ==   \* without the test of the entry
    /\ Walking /\ AtLeaf
    /\ tables' = SetLeaf
    /\ call' = [call EXCEPT !.v = @ + 1, !.page = 0]
    /\ top_virtual_address' = top_virtual_address + (IF MovesTop(call) THEN 1 ELSE 0)
    /\ UNCHANGED vars
    /\ UNCHANGED <<kernel_cr3, cr3, todo, process_cr3, spaces, files>>

page_walk_user_SetEntry ==
    /\ Walking /\ AtLeaf
    /\ Translate(Root, call.v) = 0
    /\ tables' = SetLeaf
    /\ call' = [call EXCEPT !.v = @ + 1, !.page = 0]
    /\ top_virtual_address' = top_virtual_address + (IF MovesTop(call) THEN 1 ELSE 0)
    /\ UNCHANGED vars
    /\ UNCHANGED <<kernel_cr3, cr3, todo, process_cr3, spaces, files>>

\* The virtual page is already mapped: the whole call returns 0, the page just
\* taken is dropped, and the caller goes on to use address 0, except for the
\* stack, whose address is not used, and a top-level table, whose two slots are
\* then not set.
page_walk_user_AlreadyMapped ==
    /\ Walking /\ AtLeaf
    /\ Translate(Root, call.v) # 0
    /\ call' = NoCall
    /\ FaultsIf(call.kind \in {"heap", "segment"})
    /\ cr3' = IF call.kind = "stack" THEN call.old_cr3 ELSE cr3
    /\ todo' = Tail(todo)
    /\ UNCHANGED <<tables, kernel_cr3, top_virtual_address, process_cr3, spaces, files>>

Mutant_CallReturns ==   \* the top-level table is left without its two slots
    /\ Walking /\ call.v = call.beyond /\ call.kind # "segment"
    /\ cr3' = IF call.kind = "stack" THEN call.old_cr3 ELSE cr3
    /\ todo' = Tail(todo)
    /\ call' = NoCall
    /\ UNCHANGED vars
    /\ UNCHANGED <<tables, kernel_cr3, top_virtual_address, process_cr3, spaces, files>>

\* The segment's pages, in the new address space, with what is copied there.
Copied(vma) ==
    [page \in DOMAIN contents \union {Translate(Root, v) : v \in PagesOf(vma)} |->
       IF \E v \in PagesOf(vma) : Translate(Root, v) = page
       THEN [file |-> file,
             from |-> PartFor(vma, CHOOSE v \in PagesOf(vma) : Translate(Root, v) = page)]
       ELSE contents[page]]

\* create_process copies a segment before it goes back to the old tables.
SegmentReturns ==
    /\ Walking /\ call.v = call.beyond /\ call.kind = "segment"
    /\ LET vma == todo[1].vma
       IN  IF CopyIsReadable(vma)
           THEN FaultsIf(FALSE) /\ contents' = Copied(vma) /\ cr3' = call.old_cr3
           ELSE FaultsIf(TRUE) /\ UNCHANGED <<contents, cr3>>
    /\ todo' = Tail(todo)
    /\ call' = NoCall
    /\ UNCHANGED <<tables, kernel_cr3, top_virtual_address, process_cr3, spaces, file>>

\* The other calls return.  create_new_user_pml4 writes the two slots first.
CallReturns ==
    /\ Walking /\ call.v = call.beyond /\ call.kind # "segment"
    /\ tables' = IF call.kind # "pml4" THEN tables ELSE
                 [t \in DOMAIN tables \union {process_cr3} |->
                    IF t # process_cr3 THEN tables[t]
                    ELSE [EmptyTable EXCEPT
                            ![KernelSlot] = tables[kernel_cr3][KernelSlot],
                            ![SelfSlot]   = Entry(process_cr3, TRUE)]]
    /\ cr3' = IF call.kind = "stack" THEN call.old_cr3 ELSE cr3
    /\ todo' = Tail(todo)
    /\ call' = NoCall
    /\ UNCHANGED vars
    /\ UNCHANGED <<kernel_cr3, top_virtual_address, process_cr3, spaces, files>>

ProcessCreated ==
    /\ Reaches({"done"})
    /\ spaces' = Append(spaces, [cr3 |-> process_cr3, binary |-> todo[1].binary])
    /\ todo' = Tail(todo)
    /\ UNCHANGED vars
    /\ UNCHANGED <<tables, kernel_cr3, cr3, top_virtual_address, call, process_cr3, files>>

-----------------------------------------------------------------------------
(* Running processes *)

Running == cr3 # 0 /\ todo = << >> /\ call = NoCall /\ ~faulting

\* The scheduler's set_cr3.
set_cr3 ==
    /\ Running
    /\ \E i \in 1..Len(spaces) : cr3' = spaces[i].cr3
    /\ UNCHANGED vars
    /\ UNCHANGED <<tables, kernel_cr3, top_virtual_address, todo, call, process_cr3, spaces, files>>

\* The system call runs in the caller's address space.
exec_new_binary ==
    /\ Running
    /\ \E i \in 1..Len(spaces) : spaces[i].cr3 = cr3 /\ spaces[i].binary # << >>
    /\ Len(spaces) < 2 + MaxExecs
    /\ todo' = << Find >>
    /\ UNCHANGED vars
    /\ UNCHANGED <<tables, kernel_cr3, cr3, top_virtual_address, call, process_cr3, spaces, files>>

PageFault == page_fault_handler /\ UNCHANGED pagingVars

PagingNext ==
    \/ BuildFreeList
    \/ create_kernel_pml4 \/ map_all_kernel_pages \/ map_video_memory \/ LoadKernelTables
    \/ get_elf \/ kmalloc_user \/ create_new_user_pml4 \/ kmalloc_top_virtual_address_user
    \/ TakePageToMap
    \/ page_walk_user_AddTable \/ page_walk_user_SetEntry \/ page_walk_user_AlreadyMapped
    \/ SegmentReturns \/ CallReturns \/ ProcessCreated
    \/ set_cr3 \/ exec_new_binary
    \/ PageFault

PagingSpec == PagingInit /\ [][PagingNext]_allVars

-----------------------------------------------------------------------------
(* Properties *)

\* Tables are tables, the roots in use are tables, addresses fit their width.
PagingTypeOK ==
    /\ DOMAIN tables \subseteq Nat \ {0}
    /\ \A t \in DOMAIN tables : tables[t] \in [Slots -> [page : Nat, user : BOOLEAN]]
    /\ kernel_cr3 \in DOMAIN tables \union {0}
    /\ cr3 \in DOMAIN tables \union {0}
    /\ top_virtual_address \in 0..(AddressEnd - 1)
    /\ call.v \in 0..AddressEnd

Roots == {kernel_cr3} \union {spaces[i].cr3 : i \in 1..Len(spaces)}

\* Every address from top_virtual_address on.
AboveTop == top_virtual_address..(AddressEnd - 1)

(***************************************************************************)
(* top_virtual_address is one counter for all processes, while each call   *)
(* maps in whatever address space is loaded: no space may have anything    *)
(* mapped from there on, or kmalloc would come back empty-handed.          *)
(***************************************************************************)
TopIsFresh ==
    cr3 # 0 => \A root \in Roots, v \in AboveTop : Translate(root, v) = 0

\* Where the kernel image, the descriptors, the slack and the screen are mapped.
DirectMap ==
    (KernBase + Physbase)
        .. (KernBase + Physfree \div PAGESIZE + free_list_page_length + MapSlack)
    \union {KernBase + VideoPage, KernBase + VideoPage + 1}

\* The entries that name a page, but for the recursive slots, the shared kernel
\* half and the direct map.
Owners ==
    { o \in (DOMAIN tables) \X Slots :
        /\ tables[o[1]][o[2]].page # 0
        /\ o[1] \in Roots \union {process_cr3} =>
              o[2] # SelfSlot /\ (o[2] = KernelSlot => o[1] = kernel_cr3) }
    \ { <<Path(kernel_cr3, v)[0], Slot(v, 0)>> : v \in DirectMap }

PageOf(o) == tables[o[1]][o[2]].page

(***************************************************************************)
(* Over all address spaces, a page is one table, or mapped at one address  *)
(* of one process, or at one kernel address all share: two processes never *)
(* reach the same page, and no page is both memory and a table.            *)
(***************************************************************************)
NoPageServesTwice ==
    cr3 # 0 => \A a, b \in Owners : a # b => PageOf(a) # PageOf(b)

(***************************************************************************)
(* create_process returns a process that has its memory: in its own space  *)
(* each page of each segment and of the stack is mapped, by entries that   *)
(* user mode may use at all four levels (task.c:229-293).                  *)
(***************************************************************************)
UserMayUse(root, v) ==
    LET path == Path(root, v)
    IN  \A level \in 0..3 :
            path[level] # 0 /\ LET e == tables[path[level]][Slot(v, level)]
                               IN  e.page # 0 /\ e.user

ProcessesHaveTheirMemory ==
    \A i \in 1..Len(spaces) :
        LET b == spaces[i].binary
        IN  b # << >> =>
              /\ UserMayUse(spaces[i].cr3, StackPage)
              /\ \A j \in 1..Len(Loads(b)) :
                    LET phdr == Loads(b)[j]
                    IN  \A byte \in phdr.p_vaddr .. (phdr.p_vaddr + phdr.p_memsz - 1) :
                           UserMayUse(spaces[i].cr3, byte \div PAGESIZE)

\* The pages the allocator returned that nothing refers to any more.
LostPages ==
    { handed_out[i] : i \in 1..Len(handed_out) }
    \ ({ PageOf(o) : o \in Owners } \union {kernel_cr3, process_cr3, call.page})

\* The byte of the file that a process finds at an address.
ByteAt(space, address) ==
    LET page == Translate(space.cr3, address \div PAGESIZE)
    IN  IF page \in DOMAIN contents
        THEN [file |-> contents[page].file, place |-> contents[page].from + (address % PAGESIZE)]
        ELSE [file |-> NoFile, place |-> 0]

Arrives(space, phdr) ==
    \A k \in 0 .. phdr.p_filesz - 1 :
        ByteAt(space, phdr.p_vaddr + k) = [file |-> space.binary, place |-> phdr.p_offset + k]

(***************************************************************************)
(* A process that has been created finds at their addresses, and keeps,    *)
(* the bytes of each segment that starts with its file, whatever else is   *)
(* mapped, created or executed: for other segments the copy starts at      *)
(* eight times their offset.                                               *)
(***************************************************************************)
FirstSegmentsArrive ==
    \A i \in 1..Len(spaces) :
        LET b == spaces[i].binary
        IN  b # << >> =>
              \A j \in DOMAIN Loads(b) :
                 Loads(b)[j].p_offset = 0 => Arrives(spaces[i], Loads(b)[j])

(***************************************************************************)
(* task.c:249, 259 "Copy values from p_offset to the virtual address       *)
(* vm_start in the current paging structure".                              *)
(***************************************************************************)
SegmentsAreCopiedFromTheirOffset ==
    \A i \in 1..Len(spaces) : \A j \in DOMAIN Loads(spaces[i].binary) :
        Arrives(spaces[i], Loads(spaces[i].binary)[j])

\* By what the program headers say of two segments.
PagesNeeded(phdr) ==
    phdr.p_vaddr \div PAGESIZE .. (phdr.p_vaddr + phdr.p_memsz - 1) \div PAGESIZE
SharesAPage(b) ==
    \E i, j \in DOMAIN Loads(b) :
        i < j /\ PagesNeeded(Loads(b)[i]) \intersect PagesNeeded(Loads(b)[j]) # {}

(***************************************************************************)
(* The kernel faults, which stops the machine, only for want of memory or  *)
(* because of the file it is creating a process of: a file that is not     *)
(* there at boot or has nothing to load, two segments on one page, or a    *)
(* copy from beyond what is mapped.  What was created before is never the  *)
(* reason.                                                                 *)
(***************************************************************************)
OnlyABadFileHalts ==
    faulting =>
        \/ free_list_head_kmalloc = Null
        \/ file = NoFile /\ spaces = << >>
        \/ /\ file # NoFile
           /\ \/ ~check_elf_loadable(file)
              \/ SharesAPage(file)
              \/ \E i \in DOMAIN vmas(file) : ~CopyIsReadable(vmas(file)[i])

(***************************************************************************)
(* A page is lost only where a mapping is refused and its caller goes on   *)
(* with address 0, and only the one page it had taken: whatever is created *)
(* before, and however a call is left, every other page is accounted for.  *)
(* Said of files that have no segment on the page of the stack: the stack  *)
(* of one that has is refused and its page lost, and nothing faults.       *)
(***************************************************************************)
OnlyARefusalLosesAPage ==
    cr3 # 0 =>
        /\ LostPages # {} => faulting
        /\ \A p, q \in LostPages : p = q

(***************************************************************************)
(* Nothing is ever unmapped: once the kernel's own tables are loaded a     *)
(* step that maps a page leaves every valid entry of every space as it is. *)
(***************************************************************************)
MappingsStay ==
    [][cr3 # 0 =>
        \A t \in DOMAIN tables :
            /\ t \in DOMAIN tables'
            /\ \A s \in Slots : tables[t][s].page # 0 => tables'[t][s] = tables[t][s]]_allVars
=============================================================================
