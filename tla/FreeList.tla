------------------------------ MODULE FreeList ------------------------------
(***************************************************************************)
(* The physical page allocator of sys/paging.c: the list of page           *)
(* descriptors that start() builds from the boot loader's memory map, and  *)
(* the two functions that take pages from it.                              *)
(*                                                                         *)
(* A descriptor (struct Page) is 24 bytes; descriptor k of the list lies at *)
(* physfree + (k - 1) * sizeof(Page), so the list IS the array "free_list"  *)
(* here, element k being p_addr as a page number.  "next" of element k is   *)
(* k + 1, and the index after the last stands for NULL.  The list heads are *)
(* such indices.                                                           *)
(*                                                                         *)
(* Boot has two allocators over the same list.  Until cr3 is loaded,       *)
(* get_next_free_page follows physical pointers; set_new_free_list_head    *)
(* then copies the head into free_list_head_kmalloc, which                 *)
(* get_next_free_page_kmalloc advances from there on.                      *)
(***************************************************************************)
EXTENDS Integers, Sequences

CONSTANTS PAGESIZE,     \* bytes of a page
          DescSize,     \* sizeof(struct Page)
          Physfree,     \* first byte after the kernel image
          Smaps         \* the memory maps the firmware may report: sequences
                        \* of [base, length, usable], bytes

round_up(addr) == (addr + PAGESIZE - 1) \div PAGESIZE

(***************************************************************************)
(* Firmware maps are sorted and do not overlap, and the page after the     *)
(* kernel image is not the one on which a usable region ends: otherwise    *)
(* the first loop of append_free_list would run zero times and the store   *)
(* through "last" behind it would go to address 0.                         *)
(***************************************************************************)
Region == [base : Nat, length : Nat, usable : BOOLEAN]
End(r) == r.base + r.length
ASSUME SizesAssumption ==
    /\ PAGESIZE \in Nat \ {0}
    /\ DescSize \in 1..PAGESIZE
    /\ Physfree \in Nat
ASSUME SmapsAssumption ==
    \A m \in Smaps :
        /\ m \in Seq(Region)
        /\ \A i \in 1..Len(m) : m[i].usable => round_up(End(m[i])) # round_up(Physfree)
        /\ \A i, j \in 1..Len(m) : i < j => End(m[i]) <= m[j].base

VARIABLES
    phase,                  \* how far start() has got: "smap", "early", "late"
    smap,                   \* the firmware's map
    entry,                  \* the map entry start()'s loop reads next
    free_list,              \* page number of each descriptor; <<>> is NULL
    free_list_total_pages,
    free_list_page_length,
    free_list_head,
    free_list_head_kmalloc,
    allocated,              \* descriptors whose status is ALLOCATED
    handed_out,             \* the pages returned so far, in order
    faulting                \* the kernel has used an address that is not mapped

vars == <<phase, smap, entry, free_list, free_list_total_pages,
          free_list_page_length, free_list_head, free_list_head_kmalloc,
          allocated, handed_out, faulting>>

Null == Len(free_list) + 1

Init ==
    /\ phase = "smap"
    /\ smap \in Smaps
    /\ entry = 1
    /\ free_list = << >>
    /\ free_list_total_pages = 0
    /\ free_list_page_length = 0
    /\ free_list_head = 1
    /\ free_list_head_kmalloc = 1
    /\ allocated = {}
    /\ handed_out = << >>
    /\ faulting = FALSE

-----------------------------------------------------------------------------

Mutant_PagesFrom(first, beyond) == [k \in 1..(beyond - first + 1) |-> first + k - 1]

\* The pages from page "first" up to, not including, page "beyond".
PagesFrom(first, beyond) ==
    [k \in 1..(IF first < beyond THEN beyond - first ELSE 0) |-> first + k - 1]

(***************************************************************************)
(* The region that holds physfree starts the list, from physfree on; a     *)
(* region met once the list exists is appended if it starts above          *)
(* physfree.  The first loop runs while i < end, the second while          *)
(* i <= end.                                                               *)
(***************************************************************************)
appended(list, r) ==
    LET start    == round_up(r.base)
        end      == round_up(End(r))
        physfree == round_up(Physfree)
    IN  IF list = << >>
        THEN IF start <= physfree /\ end >= physfree THEN PagesFrom(physfree, end) ELSE list
        ELSE IF start >= physfree THEN list \o PagesFrom(start, end + 1) ELSE list

Counts(r) == r.usable /\ r.length # 0

append_free_list ==
    /\ phase = "smap"
    /\ entry <= Len(smap)
    /\ entry' = entry + 1
    /\ free_list' = IF Counts(smap[entry])
                    THEN appended(free_list, smap[entry])
                    ELSE free_list
    /\ free_list_total_pages' = Len(free_list')
    /\ UNCHANGED <<phase, smap, free_list_page_length, free_list_head,
                   free_list_head_kmalloc, allocated, handed_out, faulting>>

Mutant_TablePages(n) == (n * DescSize) \div PAGESIZE

\* Pages that hold n descriptors.
TablePages(n) ==
    LET size == n * DescSize
    IN  IF size % PAGESIZE # 0 THEN size \div PAGESIZE + 1 ELSE size \div PAGESIZE

Mutant_set_free_list_head ==    \* i <= free_list_pages_reqd
    /\ phase = "smap"
    /\ entry > Len(smap)
    /\ phase' = "early"
    /\ LET reqd == TablePages(free_list_total_pages)
       IN  /\ free_list_head' = reqd + 2
           /\ free_list_page_length' = reqd
           /\ free_list_total_pages' = free_list_total_pages - reqd
    /\ UNCHANGED <<smap, entry, free_list, free_list_head_kmalloc, allocated,
                   handed_out, faulting>>

set_free_list_head ==
    /\ phase = "smap"
    /\ entry > Len(smap)
    /\ phase' = "early"
    /\ LET reqd == TablePages(free_list_total_pages)
       IN  /\ free_list_head' = reqd + 1
           /\ free_list_page_length' = reqd
           /\ free_list_total_pages' = free_list_total_pages - reqd
    /\ UNCHANGED <<smap, entry, free_list, free_list_head_kmalloc, allocated,
                   handed_out, faulting>>

\* With nothing left it returns -1 and changes nothing.
get_next_free_page ==
    /\ phase = "early"
    /\ free_list_head # Null
    /\ allocated' = allocated \union {free_list_head}
    /\ handed_out' = Append(handed_out, free_list[free_list_head])
    /\ free_list_head' = free_list_head + 1
    /\ UNCHANGED <<phase, smap, entry, free_list, free_list_total_pages,
                   free_list_page_length, free_list_head_kmalloc, faulting>>

Mutant_set_new_free_list_head ==    \* from the first free page again
    /\ phase = "early"
    /\ phase' = "late"
    /\ free_list_head_kmalloc' = free_list_page_length + 1
    /\ UNCHANGED <<smap, entry, free_list, free_list_total_pages, allocated,
                   free_list_page_length, free_list_head, handed_out, faulting>>

set_new_free_list_head ==
    /\ phase = "early"
    /\ phase' = "late"
    /\ free_list_head_kmalloc' = free_list_head
    /\ UNCHANGED <<smap, entry, free_list, free_list_total_pages, allocated,
                   free_list_page_length, free_list_head, handed_out, faulting>>

(***************************************************************************)
(* The head is KERNBASE + next: after the last page it is KERNBASE + NULL, *)
(* which is not NULL and is not mapped, so the NULL test is never taken    *)
(* and the store to status faults instead.                                 *)
(***************************************************************************)
TakePage ==
    /\ free_list_head_kmalloc # Null
    /\ allocated' = allocated \union {free_list_head_kmalloc}
    /\ handed_out' = Append(handed_out, free_list[free_list_head_kmalloc])
    /\ free_list_head_kmalloc' = free_list_head_kmalloc + 1
    /\ UNCHANGED faulting

Fault ==
    /\ free_list_head_kmalloc = Null
    /\ faulting' = TRUE
    /\ UNCHANGED <<allocated, handed_out, free_list_head_kmalloc>>

get_next_free_page_kmalloc ==
    /\ phase = "late"
    /\ ~faulting
    /\ TakePage \/ Fault
    /\ UNCHANGED <<phase, smap, entry, free_list, free_list_total_pages,
                   free_list_page_length, free_list_head>>

\* page_fault_handler prints and returns, into a frame with a word too many: the
\* exception that raises stops the machine (TrapFrames).
page_fault_handler ==
    /\ faulting
    /\ UNCHANGED vars

Next ==
    \/ append_free_list
    \/ set_free_list_head
    \/ get_next_free_page
    \/ set_new_free_list_head
    \/ get_next_free_page_kmalloc
    \/ page_fault_handler

Spec == Init /\ [][Next]_vars

-----------------------------------------------------------------------------
(* Properties *)

\* The usable regions of a map leave a gap, once their ends are rounded up.
RegionsAreApart ==
    \A m \in Smaps : \A i, j \in 1..Len(m) :
        i < j /\ Counts(m[i]) /\ Counts(m[j]) => round_up(End(m[i])) < round_up(m[j].base)

\* Every variable stays in the set its C type and its use in the code give it;
\* the counts and indices stay within the list.
TypeOK ==
    /\ phase \in {"smap", "early", "late"}
    /\ smap \in Smaps
    /\ entry \in 1..(Len(smap) + 1)
    /\ free_list \in Seq(Nat)
    /\ free_list_total_pages \in 0..Len(free_list)
    /\ free_list_page_length \in 0..Len(free_list)
    /\ free_list_head \in 1..Null
    /\ free_list_head_kmalloc \in 1..Null
    /\ allocated \subseteq 1..Len(free_list)
    /\ handed_out \in Seq(Nat)
    /\ faulting \in BOOLEAN

(***************************************************************************)
(* paging.c:201, 278 "returns PHYSICAL address of the next free page": no  *)
(* page is returned twice, over both allocators and across the change from *)
(* one to the other.  It holds when the regions of the map lie apart.      *)
(***************************************************************************)
NoPageHandedOutTwice ==
    \A i, j \in 1..Len(handed_out) : i # j => handed_out[i] # handed_out[j]

\* The pages the descriptors themselves lie in.
DescriptorPages ==
    round_up(Physfree) .. (round_up(Physfree)
                           + (Len(free_list) * DescSize - 1) \div PAGESIZE)

(***************************************************************************)
(* A page the allocators return holds neither the kernel image nor a       *)
(* descriptor of the list itself: set_free_list_head skips as many list    *)
(* elements as the descriptors take pages.                                 *)
(***************************************************************************)
KernelAndListAreNeverHandedOut ==
    \A i \in 1..Len(handed_out) :
        /\ handed_out[i] >= round_up(Physfree)
        /\ handed_out[i] \notin DescriptorPages

(***************************************************************************)
(* main.c:143 lists what the map calls "memory" (type 1): what the         *)
(* allocators return lies, from its first to its last byte, in such a      *)
(* region.                                                                 *)
(***************************************************************************)
OnlyMemoryIsHandedOut ==
    \A i \in 1..Len(handed_out) :
        \E r \in 1..Len(smap) :
            /\ smap[r].usable
            /\ smap[r].base <= handed_out[i] * PAGESIZE
            /\ (handed_out[i] + 1) * PAGESIZE <= End(smap[r])

(***************************************************************************)
(* What round_up and the inclusive end of the second loop leave of that:   *)
(* every page handed out starts in a usable region of the map or where it  *)
(* ends, and a map whose regions above the kernel are one and aligned      *)
(* gives out memory only.                                                  *)
(***************************************************************************)
OneAlignedRegion ==
    \A r \in 1..Len(smap) : Counts(smap[r]) =>
        smap[r].base <= Physfree /\ End(smap[r]) % PAGESIZE = 0

HandedOutPagesTouchMemory ==
    /\ OneAlignedRegion => OnlyMemoryIsHandedOut
    /\ \A i \in 1..Len(handed_out) :
          \E r \in 1..Len(smap) :
              /\ Counts(smap[r])
              /\ smap[r].base <= handed_out[i] * PAGESIZE
              /\ handed_out[i] <= round_up(End(smap[r]))

(***************************************************************************)
(* kmalloc, paging.c:440-443, tests for "no free pages left!" and returns  *)
(* 0: the allocator must come back to be tested.                           *)
(***************************************************************************)
ExhaustionIsReported == ~faulting
=============================================================================
