---------------------------- MODULE PagingProofs ----------------------------
(***************************************************************************)
(* The tables of Paging, for every machine whose regions lie apart, every  *)
(* set of files and every number of processes: types, MappingsStay,        *)
(* TopIsFresh and NoPageServesTwice, from one invariant, SpacesInv; and    *)
(* that memory and kernel never outgrow their half of the addresses when   *)
(* they fit in it at first (SpacesFit).                                    *)
(***************************************************************************)
EXTENDS Paging, FreeListProofs

\* The pages the allocator has returned.
HandedOut == {handed_out[k] : k \in 1..Len(handed_out)}

\* The sets the variables stay in.
Vma    == [vm_start : Nat, vm_end : Nat, vm_offset : Nat]
Files  == Binaries \union {<< >>}
Task   == [op : {"get_elf", "heap", "pml4", "segment", "stack"},
           start : Nat, pages : Nat, vma : Vma]
          \union [op : {"done"}, binary : Files]
Kinds  == {"none", "boot", "heap", "pml4", "segment", "stack"}
Call   == [kind : Kinds, v : Nat, beyond : Nat, page : Nat, old_cr3 : Nat]
Table  == [Slots -> [page : Nat, user : BOOLEAN]]

Typed ==
    /\ \A t \in DOMAIN tables : tables[t] \in Table
    /\ kernel_cr3 \in Nat /\ cr3 \in Nat /\ top_virtual_address \in Nat
    /\ call \in Call
    /\ todo \in Seq(Task)
    /\ spaces \in Seq([cr3 : Nat, binary : Files])

(***************************************************************************)
(* The tables themselves, whatever addresses are mapped: each is a page of *)
(* its own, taken from the allocator, and so is the top-level table that   *)
(* is to become one; and how far start() has come.                         *)
(***************************************************************************)
TablesInv ==
    /\ IInv
    /\ Typed
    /\ DOMAIN tables \subseteq HandedOut
    /\ process_cr3 \in HandedOut \union {0}
    /\ call.kind = "pml4" => process_cr3 \in HandedOut \ DOMAIN tables
    /\ phase # "late" => cr3 = 0 /\ todo = << >> /\ process_cr3 = 0 /\ spaces = << >>
    /\ phase = "late" => kernel_cr3 \in DOMAIN tables /\ call.kind # "boot"
    /\ phase # "late" /\ kernel_cr3 = 0 => DOMAIN tables = {} /\ call = NoCall
    /\ phase # "late" /\ kernel_cr3 # 0 =>
          phase = "early" /\ kernel_cr3 \in DOMAIN tables /\ call.kind = "boot"

\* Top-level tables.
Tops == (Roots \union {process_cr3}) \intersect DOMAIN tables

\* The entries that do not lead back to the table itself.
Down(t, s) == tables[t][s].page # 0 /\ ~(t \in Tops /\ s = SelfSlot)

\* The places of the direct map.
Direct == { <<Path(kernel_cr3, v)[0], Slot(v, 0)>> : v \in DirectMap }

(***************************************************************************)
(* Every table has a level: top-level tables 3, and what an entry of a     *)
(* table above level 0 names is a table one level below.                   *)
(***************************************************************************)
Leveled(lev) ==
    /\ lev \in [DOMAIN tables -> 0..3]
    /\ \A t \in Tops : lev[t] = 3
    /\ \A t \in DOMAIN tables, s \in Slots :
          Down(t, s) /\ lev[t] > 0 =>
             tables[t][s].page \in DOMAIN tables /\ lev[tables[t][s].page] = lev[t] - 1
    /\ phase # "late" =>
          \A t \in DOMAIN tables, s \in Slots :
             lev[t] = 0 /\ tables[t][s].page # 0 => <<t, s>> \in Direct

\* Every top-level table names itself, and all share the kernel's part.
TopsAreAlike ==
    /\ \A i \in 1..Len(spaces) : spaces[i].cr3 \in DOMAIN tables
    /\ \A r \in Tops :
          /\ tables[r][SelfSlot].page = r
          /\ tables[r][KernelSlot] = tables[kernel_cr3][KernelSlot]
    /\ phase = "late" => cr3 \in Tops

\* What is entered comes from the allocator, once.
PagesAreOwned ==
    /\ \A o \in Owners : PageOf(o) \in HandedOut
    /\ \A a, b \in Owners : a # b => PageOf(a) # PageOf(b)

\* The kernel's part of the address space is there, and from the top on it is empty.
KernelPartIsThere == tables[kernel_cr3][KernelSlot].page # 0
KernelTopIsFree ==
    phase = "late" =>
        /\ KernelPartIsThere
        /\ top_virtual_address > KernBase
        /\ \A v \in AboveTop : Translate(kernel_cr3, v) = 0

\* The mapping loop in progress.
CallFits ==
    /\ call.v <= call.beyond
    /\ call.kind = "boot" =>
          /\ call.page = call.v - KernBase
          /\ \/ /\ call.v >= KernBase + Physbase
                /\ call.beyond = KernBase + Physfree \div PAGESIZE
                                 + free_list_page_length + MapSlack + 1
                /\ call.v > KernBase + Physbase => KernelPartIsThere
             \/ /\ call.v >= KernBase + VideoPage
                /\ call.beyond = KernBase + VideoPage + 2
                /\ KernelPartIsThere
    /\ call.kind \notin {"none", "boot"} => todo # << >> /\ todo[1].op = call.kind
    /\ call.kind \in {"heap", "pml4"} => call.v = top_virtual_address
    /\ call.kind = "pml4" => call.page \in {0, process_cr3}
    /\ call.kind \in {"segment", "stack"} =>
          cr3 = process_cr3 /\ call.old_cr3 \in Tops /\ call.beyond <= UserEnd
    /\ call.kind # "boot" /\ call.page # 0 =>
          call.page \in HandedOut /\ \A o \in Owners : PageOf(o) # call.page

\* Whether a process is being created: its top-level table is one already.
Open == IF process_cr3 \in DOMAIN tables \ Roots THEN 1 ELSE 0

(***************************************************************************)
(* What is to do is in order: a space is opened by "pml4", filled, and     *)
(* closed by "done"; open[k] tells whether one is before the k-th thing.   *)
(***************************************************************************)
InOrder(open) ==
    /\ open \in [1..(Len(todo) + 1) -> {0, 1}]
    /\ open[1] = Open
    /\ open[Len(todo) + 1] = 0
    /\ \A k \in 1..Len(todo) :
          /\ todo[k].op = "get_elf" => open[k] = 0 /\ open[k + 1] = 0
          /\ todo[k].op = "heap" => open[k] = open[k + 1]
          /\ todo[k].op = "pml4" => open[k] = 0 /\ open[k + 1] = 1 /\ todo[k].pages = 1
          /\ todo[k].op \in {"segment", "stack"} =>
                /\ open[k] = 1 /\ open[k + 1] = 1
                /\ todo[k].start + todo[k].pages <= UserEnd
          /\ todo[k].op = "done" => open[k] = 1 /\ open[k + 1] = 0

(***************************************************************************)
(* The machine: the kernel's part has room for everything that is mapped   *)
(* in it.                                                                  *)
(***************************************************************************)
Fits ==
    /\ top_virtual_address < AddressEnd
    /\ KernBase + Physfree \div PAGESIZE + free_list_page_length + TopSlack < AddressEnd

SpacesInv ==
    /\ TablesInv
    /\ \E lev : Leveled(lev)
    /\ kernel_cr3 # 0 => TopsAreAlike
    /\ PagesAreOwned
    /\ KernelTopIsFree
    /\ CallFits
    /\ \E open : InOrder(open)

-----------------------------------------------------------------------------
(* The allocator under the tables *)

\* A fault of the kernel changes nothing of the allocator.
LEMMA FaultKeepsFreeList ==
    ASSUME IInv, NEW condition \in BOOLEAN, FaultsIf(condition)
    PROVE  IInv' /\ HandedOut' = HandedOut /\ phase' = phase
  <1>1. /\ UNCHANGED <<phase, smap, entry, free_list, free_list_total_pages,
                       free_list_page_length, free_list_head, free_list_head_kmalloc,
                       allocated, handed_out>>
        /\ faulting' = condition
    BY DEF FaultsIf
  <1>2. TypeOK'
    BY <1>1 DEF IInv, Counted, TypeOK, Null
  <1>3. HeadFollowsTheHandedOut' /\ ListAscends' /\ ListIsBelowTheRest'
    BY <1>1 DEF IInv, Counted, HeadFollowsTheHandedOut, ListAscends, ListIsBelowTheRest
  <1> QED
    BY <1>1, <1>2, <1>3 DEF IInv, Counted, HandedOut

LEMMA UnchangedKeepsFreeList ==
    ASSUME RegionsAreApart, IInv, UNCHANGED vars
    PROVE  IInv' /\ HandedOut' = HandedOut /\ phase' = phase
  <1>1. IInv'
    BY NextKeepsIInv
  <1> QED
    BY <1>1 DEF vars, HandedOut

\* Page 0 lies below the kernel.
LEMMA HandedOutIsAPage == IInv => HandedOut \subseteq Nat \ {0}
  <1> SUFFICES ASSUME IInv, NEW k \in 1..Len(handed_out)
               PROVE  handed_out[k] \in Nat /\ handed_out[k] # 0
    BY DEF HandedOut
  <1>1. handed_out[k] \in Nat
    BY DEF IInv, Counted, TypeOK
  <1>2. handed_out[k] >= round_up(Physfree)
    BY IInvImpliesTableKept DEF KernelAndListAreNeverHandedOut
  <1>3. round_up(Physfree) \in Nat /\ round_up(Physfree) # 0
    <2>1. Physfree \in Nat /\ Physfree > 0 /\ PAGESIZE \in Nat /\ PAGESIZE > 0
      <3>1. Physbase \in Nat /\ Physbase > 0 /\ Physbase * PAGESIZE <= Physfree
        BY PagingAssumption
      <3>2. PAGESIZE \in Nat /\ PAGESIZE > 0 /\ Physfree \in Nat
        BY SizesAssumption
      <3>3. Physbase * PAGESIZE > 0
        BY <3>1, <3>2
      <3> QED
        BY <3>1, <3>2, <3>3
    <2>2. round_up(Physfree) \in Nat /\ Physfree <= round_up(Physfree) * PAGESIZE
      BY <2>1, RoundUpIsAPage, RoundUpBounds
    <2>3. round_up(Physfree) = 0 => round_up(Physfree) * PAGESIZE = 0
      BY <2>1
    <2> QED
      BY <2>1, <2>2, <2>3
  <1> QED
    BY <1>1, <1>2, <1>3

\* An allocation returns a page that was not returned before, or finds none.
LEMMA Allocates ==
    ASSUME RegionsAreApart, IInv,
           get_next_free_page \/ get_next_free_page_kmalloc
    PROVE  /\ IInv' /\ phase' = phase
           /\ \/ handed_out' = handed_out /\ HandedOut' = HandedOut
                 /\ faulting' = TRUE /\ get_next_free_page_kmalloc
              \/ /\ Fresh \in Nat \ {0} /\ Fresh \notin HandedOut
                 /\ HandedOut' = HandedOut \union {Fresh}
                 /\ handed_out' # handed_out
                 /\ faulting' = faulting
  <1>1. Next
    BY DEF Next
  <1>2. IInv'
    BY <1>1, NextKeepsIInv
  <1>3. phase' = phase
    BY DEF get_next_free_page, get_next_free_page_kmalloc
  <1>4. CASE handed_out' = handed_out
    <2>1. handed_out \in Seq(Nat)
      BY DEF IInv, Counted, TypeOK
    <2>2. \A e : Append(handed_out, e) # handed_out
      <3> SUFFICES ASSUME NEW e, Append(handed_out, e) = handed_out PROVE FALSE
        OBVIOUS
      <3>1. Len(Append(handed_out, e)) = Len(handed_out) + 1
        BY <2>1
      <3> QED
        BY <2>1, <3>1
    <2>3. get_next_free_page_kmalloc /\ faulting' = TRUE
      BY <1>4, <2>2 DEF get_next_free_page, get_next_free_page_kmalloc, TakePage, Fault
    <2> QED
      BY <1>2, <1>3, <1>4, <2>3 DEF HandedOut
  <1>5. CASE handed_out' # handed_out
    <2>1. \E e : handed_out' = Append(handed_out, e)
      BY <1>5 DEF get_next_free_page, get_next_free_page_kmalloc, TakePage, Fault
    <2>2. PICK e : handed_out' = Append(handed_out, e)
      BY <2>1
    <2> DEFINE n == Len(handed_out)
    <2>a. handed_out \in Seq(Nat) /\ handed_out' \in Seq(Nat) /\ n \in Nat
      BY <1>2 DEF IInv, Counted, TypeOK
    <2>3. /\ handed_out \in Seq(Nat) /\ handed_out' \in Seq(Nat) /\ n \in Nat
          /\ Len(handed_out') = n + 1
          /\ handed_out'[n + 1] = e
          /\ \A k \in 1..n : handed_out'[k] = handed_out[k]
      BY <2>2, <2>a
    <2>4. Fresh = e
      BY <2>3 DEF Fresh
    <2>5. HandedOut' = HandedOut \union {e}
      <3>1. HandedOut' = {handed_out'[k] : k \in 1..(n + 1)}
        BY <2>3 DEF HandedOut
      <3>2. \A k \in 1..(n + 1) : k \in 1..n \/ k = n + 1
        BY <2>3
      <3>3. 1..n \subseteq 1..(n + 1) /\ n + 1 \in 1..(n + 1)
        BY <2>3
      <3> QED
        BY <2>3, <3>1, <3>2, <3>3 DEF HandedOut
    <2>6. e \notin HandedOut
      <3>1. NoPageHandedOutTwice'
        BY <1>2, IInvImpliesNoPageTwice, PTL
      <3>2. \A k \in 1..n : handed_out'[k] # handed_out'[n + 1]
        BY <2>3, <3>1 DEF NoPageHandedOutTwice
      <3> QED
        BY <2>3, <3>2 DEF HandedOut
    <2>7. e \in Nat \ {0}
      <3>1. (HandedOut \subseteq Nat \ {0})'
        BY <1>2, HandedOutIsAPage, PTL
      <3> QED
        BY <2>5, <3>1
    <2>8. faulting' = faulting
      BY <1>5 DEF get_next_free_page, get_next_free_page_kmalloc, TakePage, Fault
    <2> QED
      BY <1>2, <1>3, <1>5, <2>4, <2>5, <2>6, <2>7, <2>8
  <1> QED
    BY <1>4, <1>5

-----------------------------------------------------------------------------
(* Addresses as digits *)

\* A quotient is known by its bounds.
LEMMA QuotientIs ==
    ASSUME NEW a \in Nat, NEW b \in Nat \ {0}, NEW q \in Int, b * q <= a, a < b * (q + 1)
    PROVE  a \div b = q
  <1> DEFINE p == a \div b
             r == a % b
  <1>1. p \in Int /\ r \in 0..(b - 1) /\ a = b * p + r
    OBVIOUS
  <1> HIDE DEF p, r
  <1>2. b * p \in Int /\ b * q \in Int /\ b * (q + 1) \in Int /\ b * (p + 1) \in Int
    BY <1>1
  <1>3. b * (p + 1) = b * p + b /\ b * (q + 1) = b * q + b
    BY <1>1
  <1>4. ASSUME p + 1 <= q PROVE FALSE
    <2>1. b * (p + 1) <= b * q
      BY <1>1, <1>4
    <2> QED
      BY <1>1, <1>2, <1>3, <2>1
  <1>5. ASSUME q + 1 <= p PROVE FALSE
    <2>1. b * (q + 1) <= b * p
      BY <1>1, <1>5
    <2> QED
      BY <1>1, <1>2, <1>3, <2>1
  <1>6. p = q
    BY <1>1, <1>4, <1>5
  <1> QED
    BY <1>6 DEF p

\* To divide by a product is to divide twice.
LEMMA DivisionByProduct ==
    ASSUME NEW a \in Nat, NEW b \in Nat \ {0}, NEW c \in Nat \ {0}
    PROVE  a \div (b * c) = (a \div b) \div c
  <1> DEFINE p == a \div b
             r == a % b
             q == p \div c
             t == p % c
  <1>1. p \in Nat /\ r \in 0..(b - 1) /\ a = b * p + r
    OBVIOUS
  <1> HIDE DEF p, r
  <1>2. q \in Nat /\ t \in 0..(c - 1) /\ p = c * q + t
    BY <1>1
  <1> HIDE DEF q, t
  <1>3. b * p \in Nat /\ b * (c * q) \in Nat /\ b * t \in Nat /\ c * q \in Nat /\ b * c \in Nat \ {0}
    BY <1>1, <1>2
  <1>4. b * p = b * (c * q) + b * t
    BY <1>2, <1>3
  <1>5. b * t <= b * (c - 1) /\ b * (c - 1) = b * c - b /\ b * t >= 0
    BY <1>2
  <1>6. b * (c * q) = (b * c) * q /\ (b * c) * (q + 1) = (b * c) * q + b * c
    BY <1>2
  <1>7. (b * c) * q <= a /\ a < (b * c) * (q + 1)
    BY <1>1, <1>2, <1>3, <1>4, <1>5, <1>6
  <1>8. a \div (b * c) = q
    BY <1>2, <1>3, <1>7, QuotientIs
  <1> QED
    BY <1>8 DEF p, q

LEMMA Spans ==
    /\ Fanout \in Nat \ {0}
    /\ Span(0) = 1 /\ Span(1) = Fanout /\ Span(2) = Span(1) * Fanout /\ Span(3) = Span(2) * Fanout
    /\ \A level \in 0..3 : Span(level) \in Nat \ {0}
    /\ AddressEnd \in Nat /\ UserEnd \in Nat
  <1>1. Fanout \in Nat \ {0} /\ Fanout > 3
    BY PagingAssumption
  <1>2. Fanout * Fanout \in Nat \ {0}
    BY <1>1
  <1>3. (Fanout * Fanout) * Fanout \in Nat \ {0}
    BY <1>1, <1>2
  <1>4. /\ Span(0) = 1 /\ Span(1) = Fanout /\ Span(2) = Fanout * Fanout
        /\ Span(3) = (Fanout * Fanout) * Fanout
    BY DEF Span
  <1>5. AddressEnd \in Nat /\ UserEnd \in Nat
    BY <1>1, <1>3, <1>4 DEF AddressEnd, UserEnd
  <1>6. \A level \in 0..3 : level = 0 \/ level = 1 \/ level = 2 \/ level = 3
    OBVIOUS
  <1> QED
    BY <1>1, <1>2, <1>3, <1>4, <1>5, <1>6

LEMMA SlotIsASlot == \A v \in Nat, level \in 0..3 : Slot(v, level) \in Slots
  <1> SUFFICES ASSUME NEW v \in Nat, NEW level \in 0..3 PROVE Slot(v, level) \in Slots
    OBVIOUS
  <1>1. Span(level) \in Nat \ {0} /\ Fanout \in Nat \ {0}
    BY Spans
  <1>2. v \div Span(level) \in Nat
    BY <1>1
  <1> QED
    BY <1>1, <1>2 DEF Slot, Slots

\* The first digit of an address: below SelfSlot for the user's, KernelSlot for the
\* kernel's.
LEMMA FirstDigit ==
    ASSUME NEW v \in Nat
    PROVE  /\ v < AddressEnd => Slot(v, 3) = v \div Span(3) /\ v \div Span(3) < Fanout
           /\ v < UserEnd => Slot(v, 3) \in Slots /\ Slot(v, 3) # SelfSlot /\ Slot(v, 3) # KernelSlot
           /\ KernBase <= v /\ v < AddressEnd => Slot(v, 3) = KernelSlot
           /\ v < AddressEnd /\ Slot(v, 3) = KernelSlot => v >= UserEnd
  <1> DEFINE s == Span(3)
             q == v \div s
             r == v % s
             f == Fanout
  <1>1. s \in Nat \ {0} /\ f \in Nat /\ f > 3
    BY Spans, PagingAssumption
  <1>2. q \in Nat /\ r \in 0..(s - 1) /\ v = s * q + r
    BY <1>1
  <1>3. AddressEnd = f * s /\ UserEnd = (f - 2) * s
    BY DEF AddressEnd, UserEnd
  <1>4. Slot(v, 3) = q % f
    BY DEF Slot
  <1>5. KernBase \in Nat /\ KernBase \div s = f - 1
    BY PagingAssumption
  <1> DEFINE k == KernBase % s
  <1>6. k \in 0..(s - 1) /\ KernBase = s * (f - 1) + k
    BY <1>1, <1>5
  <1> HIDE DEF s, q, r, f, k
  <1>7. s * q \in Nat /\ s * f \in Nat /\ s * (f - 1) \in Nat /\ s * (f - 2) \in Nat
    BY <1>1, <1>2
  <1>8. q >= f => s * q >= s * f
    BY <1>1, <1>2
  <1>9. v < AddressEnd => q < f
    <2>1. AddressEnd = s * f
      BY <1>1, <1>3
    <2> QED
      BY <1>1, <1>2, <1>7, <1>8, <2>1
  <1>10. q < f => q % f = q
    BY <1>1, <1>2
  <1>11. v < UserEnd => q < f - 2
    <2>1. UserEnd = s * (f - 2)
      BY <1>1, <1>3
    <2>2. q >= f - 2 => s * q >= s * (f - 2)
      BY <1>1, <1>2
    <2> QED
      BY <1>1, <1>2, <1>7, <2>1, <2>2
  <1>12. KernBase <= v => q >= f - 1
    <2>1. q + 1 <= f - 1 => s * (q + 1) <= s * (f - 1)
      BY <1>1, <1>2
    <2>2. s * (q + 1) = s * q + s /\ s * (q + 1) \in Nat
      BY <1>1, <1>2
    <2> QED
      BY <1>1, <1>2, <1>6, <1>7, <2>1, <2>2
  <1>13. v >= UserEnd \/ q < f - 2
    BY <1>1, <1>3, <1>7, <1>11
  <1> QED
    BY <1>1, <1>2, <1>4, <1>9, <1>10, <1>11, <1>12, <1>13 DEF Slots, SelfSlot, KernelSlot, q, f, s

\* The digits tell addresses apart.
LEMMA DigitsDetermine ==
    ASSUME NEW v \in 0..(AddressEnd - 1), NEW w \in 0..(AddressEnd - 1),
           \A level \in 0..3 : Slot(v, level) = Slot(w, level)
    PROVE  v = w
  <1> DEFINE f == Fanout
  <1>1. /\ v \in Nat /\ w \in Nat /\ v < AddressEnd /\ w < AddressEnd
        /\ f \in Nat \ {0} /\ Span(1) \in Nat \ {0} /\ Span(2) \in Nat \ {0}
    BY Spans
  <1>2. ASSUME NEW a \in Nat, NEW b \in Nat, a \div f = b \div f, a % f = b % f PROVE a = b
    <2>1. /\ a = f * (a \div f) + (a % f)
          /\ b = f * (b \div f) + (b % f)
      BY <1>1
    <2> QED
      BY <1>2, <2>1
  <1>3. v \div Span(3) = w \div Span(3)
    BY <1>1, FirstDigit
  <1>4. v \div Span(2) = w \div Span(2)
    <2>1. v \div Span(3) = (v \div Span(2)) \div f /\ w \div Span(3) = (w \div Span(2)) \div f
      BY <1>1, Spans, DivisionByProduct
    <2>2. v \div Span(2) \in Nat /\ w \div Span(2) \in Nat
      BY <1>1
    <2>3. (v \div Span(2)) % f = (w \div Span(2)) % f
      BY DEF Slot
    <2> QED
      BY <1>2, <1>3, <2>1, <2>2, <2>3
  <1>5. v \div Span(1) = w \div Span(1)
    <2>1. v \div Span(2) = (v \div Span(1)) \div f /\ w \div Span(2) = (w \div Span(1)) \div f
      BY <1>1, Spans, DivisionByProduct
    <2>2. v \div Span(1) \in Nat /\ w \div Span(1) \in Nat
      BY <1>1
    <2>3. (v \div Span(1)) % f = (w \div Span(1)) % f
      BY DEF Slot
    <2> QED
      BY <1>2, <1>4, <2>1, <2>2, <2>3
  <1>6. v % f = w % f
    <2>1. v \div Span(0) = v /\ w \div Span(0) = w
      BY <1>1, Spans
    <2>2. Slot(v, 0) = v % f /\ Slot(w, 0) = w % f
      BY <2>1 DEF Slot
    <2> QED
      BY <2>2
  <1> QED
    BY <1>1, <1>2, <1>5, <1>6, Spans

-----------------------------------------------------------------------------
(* Paths *)

\* A path goes down from the root, entry by entry.
LEMMA PathSteps ==
    ASSUME NEW root, NEW v
    PROVE  /\ Path(root, v)[3] = root
           /\ \A l \in 0..2 :
                 Path(root, v)[l] = IF Path(root, v)[l + 1] = 0 THEN 0
                                    ELSE tables[Path(root, v)[l + 1]][Slot(v, l + 1)].page
  <1> DEFINE Below(table, level) == IF table = 0 THEN 0 ELSE tables[table][Slot(v, level)].page
             pdpt == Below(root, 3)
             pgd  == Below(pdpt, 2)
             pt   == Below(pgd, 1)
             path == [level \in 0..3 |-> << pt, pgd, pdpt, root >>[level + 1]]
  <1>1. Path(root, v) = path
    BY DEF Path
  <1> HIDE DEF Below, pt, pgd, pdpt
  <1>2. path[3] = root /\ path[2] = pdpt /\ path[1] = pgd /\ path[0] = pt
    OBVIOUS
  <1> HIDE DEF path
  <1>3. \A l \in 0..2 : l = 0 \/ l = 1 \/ l = 2
    OBVIOUS
  <1>4. path[0] = IF path[0 + 1] = 0 THEN 0 ELSE tables[path[0 + 1]][Slot(v, 0 + 1)].page
    BY <1>2 DEF pt, Below
  <1>5. path[1] = IF path[1 + 1] = 0 THEN 0 ELSE tables[path[1 + 1]][Slot(v, 1 + 1)].page
    BY <1>2 DEF pgd, Below
  <1>6. path[2] = IF path[2 + 1] = 0 THEN 0 ELSE tables[path[2 + 1]][Slot(v, 2 + 1)].page
    BY <1>2 DEF pdpt, Below
  <1> QED
    BY <1>1, <1>2, <1>3, <1>4, <1>5, <1>6

\* Levels of a path, one by one.
LEMMA LevelsOfAPath == \A l \in 0..3 : l = 0 \/ l = 1 \/ l = 2 \/ l = 3
  OBVIOUS

LEMMA TablesAreNumbers ==
    ASSUME TablesInv
    PROVE  /\ DOMAIN tables \subseteq Nat \ {0}
           /\ \A t \in DOMAIN tables, s \in Slots :
                 tables[t][s].page \in Nat /\ tables[t][s].user \in BOOLEAN
  BY HandedOutIsAPage DEF TablesInv, Typed, Table

\* The next table on a path of a leveled tree.
LEMMA NextIsLeveled ==
    ASSUME TablesInv, NEW lev, Leveled(lev), NEW t \in DOMAIN tables, NEW s \in Slots,
           lev[t] > 0, ~(t \in Tops /\ s = SelfSlot), tables[t][s].page # 0
    PROVE  tables[t][s].page \in DOMAIN tables /\ lev[tables[t][s].page] = lev[t] - 1
  BY DEF Leveled, Down

\* What lies on a path is a table of its level.
LEMMA PathIsLeveled ==
    ASSUME TablesInv, NEW lev, Leveled(lev), NEW r \in Tops, NEW v \in Nat, Slot(v, 3) # SelfSlot,
           NEW l \in 0..3, Path(r, v)[l] # 0
    PROVE  Path(r, v)[l] \in DOMAIN tables /\ lev[Path(r, v)[l]] = l
  <1> DEFINE p == Path(r, v)
             Good(k) == p[k] # 0 => p[k] \in DOMAIN tables /\ lev[p[k]] = k
  <1>1. Good(3) /\ p[3] = r
    BY PathSteps DEF Tops, Leveled
  <1>2. ASSUME NEW k \in 0..2, Good(k + 1) PROVE Good(k)
    <2>1. SUFFICES ASSUME p[k] # 0 PROVE p[k] \in DOMAIN tables /\ lev[p[k]] = k
      OBVIOUS
    <2>2. p[k + 1] # 0 /\ p[k] = tables[p[k + 1]][Slot(v, k + 1)].page
      BY <2>1, PathSteps
    <2>3. p[k + 1] \in DOMAIN tables /\ lev[p[k + 1]] = k + 1
      BY <1>2, <2>2
    <2>4. Slot(v, k + 1) \in Slots
      BY SlotIsASlot
    <2>5. p[k + 1] \in Tops => k + 1 = 3
      BY <2>3 DEF Leveled
    <2>6. ~(p[k + 1] \in Tops /\ Slot(v, k + 1) = SelfSlot)
      BY <2>5
    <2> HIDE DEF p
    <2>7. lev[p[k + 1]] > 0 /\ tables[p[k + 1]][Slot(v, k + 1)].page # 0
      BY <2>1, <2>2, <2>3
    <2>8. p[k] \in DOMAIN tables /\ lev[p[k]] = lev[p[k + 1]] - 1
      BY <2>2, <2>3, <2>4, <2>6, <2>7, NextIsLeveled
    <2> QED
      BY <2>3, <2>8
  <1> HIDE DEF p, Good
  <1>3. Good(2)
    <2>1. 2 \in 0..2 /\ 2 + 1 = 3
      OBVIOUS
    <2> QED
      BY <1>1, <1>2, <2>1
  <1>4. Good(1)
    <2>1. 1 \in 0..2 /\ 1 + 1 = 2
      OBVIOUS
    <2> QED
      BY <1>2, <1>3, <2>1
  <1>5. Good(0)
    <2>1. 0 \in 0..2 /\ 0 + 1 = 1
      OBVIOUS
    <2> QED
      BY <1>2, <1>4, <2>1
  <1>6. Good(l)
    BY <1>1, <1>3, <1>4, <1>5, LevelsOfAPath
  <1> QED
    BY <1>6 DEF Good, p

\* The kernel's addresses: those of the direct map, and those from the top on.
LEMMA DirectMapIsTheKernels ==
    ASSUME TablesInv, Fits, NEW v \in DirectMap
    PROVE  /\ v \in Nat /\ KernBase <= v /\ v < AddressEnd
           /\ Slot(v, 3) = KernelSlot /\ Slot(v, 3) # SelfSlot
           /\ v < KernBase + Physfree \div PAGESIZE + free_list_page_length + TopSlack
  <1> DEFINE p == Physfree \div PAGESIZE
             n == free_list_page_length
  <1>1. /\ p \in Nat /\ KernBase \in Nat /\ Physbase \in Nat /\ VideoPage \in Nat
        /\ MapSlack \in Nat /\ TopSlack \in Nat /\ MapSlack < TopSlack /\ VideoPage + 1 < Physbase
        /\ Fanout \in Nat
    BY PagingAssumption, SizesAssumption
  <1>2. n \in Nat
    BY TypeFacts DEF TablesInv, IInv, Counted
  <1>3. Physbase <= p
    <2>1. Physbase * PAGESIZE <= Physfree /\ PAGESIZE \in Nat \ {0} /\ Physfree \in Nat
      BY PagingAssumption, SizesAssumption
    <2> DEFINE r == Physfree % PAGESIZE
    <2>2. Physfree = PAGESIZE * p + r /\ r \in 0..(PAGESIZE - 1)
      BY <2>1
    <2> HIDE DEF r, p
    <2>3. p + 1 <= Physbase => PAGESIZE * (p + 1) <= PAGESIZE * Physbase
      BY <1>1, <2>1
    <2>4. PAGESIZE * (p + 1) = PAGESIZE * p + PAGESIZE /\ PAGESIZE * Physbase = Physbase * PAGESIZE
          /\ PAGESIZE * p \in Nat /\ Physbase * PAGESIZE \in Nat
      BY <1>1, <2>1
    <2> QED
      BY <1>1, <2>1, <2>2, <2>3, <2>4
  <1> HIDE DEF p, n
  <1>4. \/ v \in (KernBase + Physbase) .. (KernBase + p + n + MapSlack)
        \/ v = KernBase + VideoPage
        \/ v = KernBase + VideoPage + 1
    BY DEF DirectMap, p, n
  <1>5. v \in Nat /\ KernBase <= v /\ v < KernBase + p + n + TopSlack
    BY <1>1, <1>2, <1>3, <1>4
  <1>6. v < AddressEnd
    BY <1>1, <1>2, <1>5, Spans DEF Fits, p, n
  <1>7. Slot(v, 3) = KernelSlot
    BY <1>5, <1>6, FirstDigit
  <1> QED
    BY <1>1, <1>5, <1>6, <1>7 DEF KernelSlot, SelfSlot, p, n

\* The direct map's places are in tables of the last level.
LEMMA DirectIsAtTheLeaves ==
    ASSUME TablesInv, Fits, NEW lev, Leveled(lev), kernel_cr3 # 0,
           NEW t, NEW s, <<t, s>> \in Direct, t # 0
    PROVE  t \in DOMAIN tables /\ lev[t] = 0
  <1>1. PICK v \in DirectMap : t = Path(kernel_cr3, v)[0]
    BY DEF Direct
  <1>2. kernel_cr3 \in Tops
    BY DEF Tops, Roots, TablesInv
  <1>3. v \in Nat /\ Slot(v, 3) # SelfSlot
    BY DirectMapIsTheKernels
  <1>4. 0 \in 0..3
    OBVIOUS
  <1> QED
    BY <1>1, <1>2, <1>3, <1>4, PathIsLeveled

\* An entry and its place among the owners.
LEMMA OwnersAre ==
    ASSUME NEW t, NEW s
    PROVE  <<t, s>> \in Owners <=>
              /\ t \in DOMAIN tables /\ s \in Slots /\ tables[t][s].page # 0
              /\ t \in Roots \union {process_cr3} =>
                    s # SelfSlot /\ (s = KernelSlot => t = kernel_cr3)
              /\ <<t, s>> \notin Direct
  BY DEF Owners, Direct

\* An entry above the last level that leads down is an owner, but for the kernel's part
\* of a process, which is that of the kernel's own tables.
LEMMA DownIsOwned ==
    ASSUME TablesInv, Fits, NEW lev, Leveled(lev), kernel_cr3 # 0,
           NEW t \in DOMAIN tables, NEW s \in Slots, lev[t] > 0, Down(t, s),
           t \in Tops /\ s = KernelSlot => t = kernel_cr3
    PROVE  <<t, s>> \in Owners
  <1>1. t # 0
    BY TablesAreNumbers
  <1>2. <<t, s>> \notin Direct
    BY <1>1, DirectIsAtTheLeaves
  <1> QED
    BY <1>2, OwnersAre DEF Down, Tops

\* Two paths that meet above the leaves have come the same way.
LEMMA PathsMeetOnce ==
    ASSUME TablesInv, Fits, NEW lev, Leveled(lev), kernel_cr3 # 0, TopsAreAlike, PagesAreOwned,
           NEW q \in Tops, NEW v \in Nat, Slot(v, 3) # SelfSlot,
           NEW r \in Tops, NEW w \in Nat, Slot(w, 3) # SelfSlot,
           NEW l \in 0..2, Path(q, v)[l] = Path(r, w)[l], Path(q, v)[l] # 0
    PROVE  /\ Slot(v, l + 1) = Slot(w, l + 1)
           /\ Path(q, v)[l + 1] # 0
           /\ \/ Path(q, v)[l + 1] = Path(r, w)[l + 1]
              \/ l = 2 /\ Slot(v, 3) = KernelSlot
  <1> DEFINE p1 == Path(q, v)[l + 1]
             p2 == Path(r, w)[l + 1]
             s1 == Slot(v, l + 1)
             s2 == Slot(w, l + 1)
  <1>1. /\ p1 # 0 /\ p2 # 0
        /\ Path(q, v)[l] = tables[p1][s1].page /\ Path(r, w)[l] = tables[p2][s2].page
    BY PathSteps
  <1>2. /\ p1 \in DOMAIN tables /\ lev[p1] = l + 1
        /\ p2 \in DOMAIN tables /\ lev[p2] = l + 1
        /\ s1 \in Slots /\ s2 \in Slots
    <2>1. l + 1 \in 0..3
      OBVIOUS
    <2> QED
      BY <1>1, <2>1, PathIsLeveled, SlotIsASlot
  <1>3. CASE l = 2
    <2> DEFINE c1 == IF s1 = KernelSlot THEN kernel_cr3 ELSE p1
               c2 == IF s2 = KernelSlot THEN kernel_cr3 ELSE p2
    <2>1. p1 = q /\ p2 = r /\ s1 = Slot(v, 3) /\ s2 = Slot(w, 3)
      BY <1>3, PathSteps
    <2>2. kernel_cr3 \in Tops
      BY DEF Tops, Roots, TablesInv
    <2>3. c1 \in Tops /\ c2 \in Tops /\ lev[c1] = 3 /\ lev[c2] = 3
      BY <2>1, <2>2 DEF Leveled
    <2>4. tables[c1][s1].page = tables[p1][s1].page /\ tables[c2][s2].page = tables[p2][s2].page
      BY <2>1 DEF TopsAreAlike
    <2>5. s1 # SelfSlot /\ s2 # SelfSlot
      BY <2>1
    <2> HIDE DEF p1, p2, s1, s2
    <2>6. Down(c1, s1) /\ Down(c2, s2)
      BY <1>1, <2>4, <2>5 DEF Down
    <2>7. c1 \in DOMAIN tables /\ c2 \in DOMAIN tables
      BY <2>3 DEF Tops
    <2>8. <<c1, s1>> \in Owners
      <3>1. c1 \in Tops /\ s1 = KernelSlot => c1 = kernel_cr3
        OBVIOUS
      <3> HIDE DEF c1
      <3> QED
        BY <1>2, <2>3, <2>6, <2>7, <3>1, DownIsOwned
    <2>9. <<c2, s2>> \in Owners
      <3>1. c2 \in Tops /\ s2 = KernelSlot => c2 = kernel_cr3
        OBVIOUS
      <3> HIDE DEF c2
      <3> QED
        BY <1>2, <2>3, <2>6, <2>7, <3>1, DownIsOwned
    <2>10. PageOf(<<c1, s1>>) = PageOf(<<c2, s2>>)
      BY <1>1, <2>4 DEF PageOf
    <2>11. c1 = c2 /\ s1 = s2
      <3>1. <<c1, s1>> = <<c2, s2>>
        BY <2>8, <2>9, <2>10 DEF PagesAreOwned
      <3> HIDE DEF c1, c2
      <3> QED
        BY <3>1
    <2> QED
      BY <1>1, <1>3, <2>1, <2>11 DEF p1, p2, s1, s2
  <1>4. CASE l # 2
    <2>1. p1 \notin Tops /\ p2 \notin Tops
      BY <1>2, <1>4 DEF Leveled
    <2> HIDE DEF p1, p2, s1, s2
    <2>2. Down(p1, s1) /\ Down(p2, s2)
      BY <1>1, <2>1 DEF Down
    <2>3. <<p1, s1>> \in Owners /\ <<p2, s2>> \in Owners
      BY <1>2, <2>1, <2>2, DownIsOwned
    <2>4. PageOf(<<p1, s1>>) = PageOf(<<p2, s2>>)
      BY <1>1 DEF PageOf
    <2>5. <<p1, s1>> = <<p2, s2>>
      BY <2>3, <2>4 DEF PagesAreOwned
    <2>6. p1 = p2 /\ s1 = s2
      BY <2>5
    <2> QED
      BY <1>1, <2>6 DEF p1, p2, s1, s2
  <1> QED
    BY <1>3, <1>4

\* Paths that meet at the last level are those of addresses that differ in the last
\* digit at most.
LEMMA PathsOfLeaves ==
    ASSUME TablesInv, Fits, NEW lev, Leveled(lev), kernel_cr3 # 0, TopsAreAlike, PagesAreOwned,
           NEW q \in Tops, NEW v \in Nat, Slot(v, 3) # SelfSlot,
           NEW r \in Tops, NEW w \in Nat, Slot(w, 3) # SelfSlot,
           Path(q, v)[0] = Path(r, w)[0], Path(q, v)[0] # 0
    PROVE  \A l \in 1..3 : Slot(v, l) = Slot(w, l)
  <1>1. /\ Slot(v, 1) = Slot(w, 1) /\ Path(q, v)[1] # 0 /\ Path(q, v)[1] = Path(r, w)[1]
    <2>1. 0 \in 0..2 /\ 0 + 1 = 1 /\ 0 # 2
      OBVIOUS
    <2> QED
      BY <2>1, PathsMeetOnce
  <1>2. /\ Slot(v, 2) = Slot(w, 2) /\ Path(q, v)[2] # 0 /\ Path(q, v)[2] = Path(r, w)[2]
    <2>1. 1 \in 0..2 /\ 1 + 1 = 2 /\ 1 # 2
      OBVIOUS
    <2> QED
      BY <1>1, <2>1, PathsMeetOnce
  <1>3. Slot(v, 3) = Slot(w, 3)
    <2>1. 2 \in 0..2 /\ 2 + 1 = 3
      OBVIOUS
    <2> QED
      BY <1>2, <2>1, PathsMeetOnce
  <1>4. \A l \in 1..3 : l = 1 \/ l = 2 \/ l = 3
    OBVIOUS
  <1> QED
    BY <1>1, <1>2, <1>3, <1>4

PathsGoDown ==
    \A root, v :
        /\ Path(root, v)[3] = root
        /\ \A l \in 0..2 :
              Path(root, v)[l] = IF Path(root, v)[l + 1] = 0 THEN 0
                                 ELSE tables[Path(root, v)[l + 1]][Slot(v, l + 1)].page

LEMMA PathsStepNow == PathsGoDown
  BY PathSteps DEF PathsGoDown

LEMMA PathsStepNext == PathsGoDown'
  BY PathsStepNow, PTL

-----------------------------------------------------------------------------
(* One entry more *)

\* What holds of the tables from the kernel's top-level table on.
Sound(lev) ==
    TablesInv /\ Fits /\ Leveled(lev) /\ kernel_cr3 # 0 /\ TopsAreAlike /\ PagesAreOwned

(***************************************************************************)
(* A step enters e at slot s0 of table t0.  Above the last level, e names  *)
(* a table the step adds, empty, for "added" holds its page; at the last   *)
(* level nothing is added, and an entry of the direct map may be renewed.  *)
(***************************************************************************)
Enters(lev, t0, s0, e, added) ==
    /\ tables' = [t \in DOMAIN tables \union added |->
                    IF t \in added THEN EmptyTable
                    ELSE IF t = t0 THEN [tables[t] EXCEPT ![s0] = e]
                    ELSE tables[t]]
    /\ UNCHANGED <<phase, free_list_page_length, kernel_cr3, cr3, process_cr3, spaces>>
    /\ HandedOut \subseteq HandedOut'
    /\ t0 \in DOMAIN tables /\ s0 \in Slots
    /\ e \in [page : Nat, user : BOOLEAN] /\ e.page # 0
    /\ added \intersect HandedOut = {} /\ added \subseteq Nat \ {0}
    /\ lev[t0] > 0 => added = {e.page} /\ tables[t0][s0].page = 0
    /\ lev[t0] = 0 => added = {} /\ (tables[t0][s0].page = 0 \/ <<t0, s0>> \in Direct)
    /\ t0 \in Tops => s0 # SelfSlot /\ (s0 = KernelSlot => Tops = {kernel_cr3})
    /\ \/ <<t0, s0>> \in Direct
       \/ e.page \in HandedOut' /\ \A o \in Owners : PageOf(o) # e.page
    /\ phase # "late" /\ lev[t0] = 0 => <<t0, s0>> \in Direct

LEMMA TablesAreAdded ==
    ASSUME NEW lev, Sound(lev), NEW t0, NEW s0, NEW e, NEW added, Enters(lev, t0, s0, e, added)
    PROVE  DOMAIN tables' = DOMAIN tables \union added /\ added \intersect DOMAIN tables = {}
  BY DEF Enters, Sound, TablesInv

LEMMA EntryIsSet ==
    ASSUME NEW lev, Sound(lev), NEW t0, NEW s0, NEW e, NEW added, Enters(lev, t0, s0, e, added)
    PROVE  /\ tables'[t0][s0] = e
           /\ \A t \in DOMAIN tables, s \in Slots :
                 (t = t0 /\ s = s0) \/ tables'[t][s] = tables[t][s]
           /\ \A t \in added : tables'[t] = EmptyTable
  <1>1. \A t \in DOMAIN tables : tables[t] \in Table
    BY DEF Sound, TablesInv, Typed
  <1>2. added \intersect DOMAIN tables = {}
    BY TablesAreAdded
  <1> QED
    BY <1>1, <1>2 DEF Enters, Table

LEMMA EntryKeepsTypes ==
    ASSUME NEW lev, Sound(lev), NEW t0, NEW s0, NEW e, NEW added, Enters(lev, t0, s0, e, added)
    PROVE  \A t \in DOMAIN tables' : tables'[t] \in Table
  <1>1. \A t \in DOMAIN tables : tables[t] \in Table
    BY DEF Sound, TablesInv, Typed
  <1>2. EmptyTable \in Table
    BY DEF EmptyTable, NoEntry, Table
  <1>3. [tables[t0] EXCEPT ![s0] = e] \in Table
    <2>1. tables[t0] \in Table /\ s0 \in Slots /\ e \in [page : Nat, user : BOOLEAN]
      BY <1>1 DEF Enters
    <2> QED
      BY <2>1 DEF Table
  <1> QED
    BY <1>1, <1>2, <1>3 DEF Enters

LEMMA TopsStay ==
    ASSUME NEW lev, Sound(lev), NEW t0, NEW s0, NEW e, NEW added, Enters(lev, t0, s0, e, added)
    PROVE  Roots' = Roots /\ Tops' = Tops /\ DirectMap' = DirectMap
  <1>1. Roots \subseteq DOMAIN tables
    <2>1. kernel_cr3 \in DOMAIN tables
      BY DEF Sound, TablesInv
    <2> QED
      BY <2>1 DEF Roots, Sound, TopsAreAlike
  <1>2. process_cr3' = process_cr3 /\ Roots' = Roots
    BY DEF Enters, Roots
  <1>3. Tops' = Tops
    <2>1. process_cr3 \notin added
      BY DEF Enters, Sound, TablesInv
    <2>2. DOMAIN tables' = DOMAIN tables \union added
      BY TablesAreAdded
    <2>3. added \intersect Roots = {}
      BY <1>1, TablesAreAdded
    <2> QED
      BY <1>2, <2>1, <2>2, <2>3 DEF Tops
  <1>4. DirectMap' = DirectMap
    BY DEF Enters, DirectMap
  <1> QED
    BY <1>2, <1>3, <1>4

\* A path changes only where it ended, and there leads to the table added.
LEMMA PathsGrow ==
    ASSUME NEW lev, Sound(lev), NEW t0, NEW s0, NEW e, NEW added, Enters(lev, t0, s0, e, added),
           NEW r \in Tops, NEW v \in Nat, Slot(v, 3) # SelfSlot
    PROVE  \A l \in 0..3 : \/ Path(r, v)'[l] = Path(r, v)[l]
                           \/ Path(r, v)[l] = 0 /\ Path(r, v)'[l] \in added
  <1>0. /\ tables'[t0][s0] = e
        /\ \A t \in DOMAIN tables, s \in Slots :
              (t = t0 /\ s = s0) \/ tables'[t][s] = tables[t][s]
        /\ \A t \in added : tables'[t] = EmptyTable
    BY EntryIsSet
  <1> DEFINE p == Path(r, v)
             n == Path(r, v)'
             Good(k) == n[k] = p[k] \/ (p[k] = 0 /\ n[k] \in added)
  <1>1. Good(3)
    BY PathsStepNow, PathsStepNext DEF PathsGoDown
  <1>2. ASSUME NEW k \in 0..2, Good(k + 1) PROVE Good(k)
    <2> DEFINE s == Slot(v, k + 1)
    <2>1. /\ p[k] = IF p[k + 1] = 0 THEN 0 ELSE tables[p[k + 1]][s].page
          /\ n[k] = IF n[k + 1] = 0 THEN 0 ELSE tables'[n[k + 1]][s].page
      BY PathsStepNow, PathsStepNext DEF PathsGoDown
    <2>2. s \in Slots /\ k + 1 \in 0..3 /\ k + 1 > 0
      BY SlotIsASlot
    <2>3. p[k + 1] # 0 => p[k + 1] \in DOMAIN tables /\ lev[p[k + 1]] = k + 1
      BY <2>2, PathIsLeveled DEF Sound
    <2> HIDE DEF p, n, s
    <2>4. CASE n[k + 1] # p[k + 1]
      <3>1. p[k + 1] = 0 /\ n[k + 1] \in added
        BY <1>2, <2>4
      <3>2. tables'[n[k + 1]][s].page = 0
        BY <1>0, <2>2, <3>1 DEF EmptyTable, NoEntry
      <3> QED
        BY <2>1, <3>1, <3>2
    <2>5. CASE n[k + 1] = p[k + 1] /\ p[k + 1] = 0
      BY <2>1, <2>5
    <2>6. CASE n[k + 1] = p[k + 1] /\ p[k + 1] # 0
      <3>1. /\ p[k] = tables[p[k + 1]][s].page /\ n[k] = tables'[p[k + 1]][s].page
        BY <2>1, <2>6
      <3>2. CASE p[k + 1] = t0 /\ s = s0
        <4>1. lev[t0] > 0
          BY <2>2, <2>3, <2>6, <3>2
        <4>2. added = {e.page} /\ tables[t0][s0].page = 0
          BY <4>1 DEF Enters
        <4> QED
          BY <1>0, <3>1, <3>2, <4>2
      <3>3. CASE ~(p[k + 1] = t0 /\ s = s0)
        <4>1. tables'[p[k + 1]][s] = tables[p[k + 1]][s]
          BY <1>0, <2>2, <2>3, <2>6, <3>3
        <4> QED
          BY <3>1, <4>1
      <3> QED
        BY <3>2, <3>3
    <2> QED
      BY <2>4, <2>5, <2>6
  <1> HIDE DEF p, n, Good
  <1>3. Good(2)
    <2>1. 2 \in 0..2 /\ 2 + 1 = 3
      OBVIOUS
    <2> QED
      BY <1>1, <1>2, <2>1
  <1>4. Good(1)
    <2>1. 1 \in 0..2 /\ 1 + 1 = 2
      OBVIOUS
    <2> QED
      BY <1>2, <1>3, <2>1
  <1>5. Good(0)
    <2>1. 0 \in 0..2 /\ 0 + 1 = 1
      OBVIOUS
    <2> QED
      BY <1>2, <1>4, <2>1
  <1>6. \A l \in 0..3 : Good(l)
    BY <1>1, <1>3, <1>4, <1>5, LevelsOfAPath
  <1> QED
    BY <1>6 DEF Good, p, n

\* The direct map stays where it is.
LEMMA DirectStays ==
    ASSUME NEW lev, Sound(lev), NEW t0, NEW s0, NEW e, NEW added, Enters(lev, t0, s0, e, added),
           NEW t, NEW s, <<t, s>> \in Direct, t # 0
    PROVE  <<t, s>> \in Direct'
  <1>1. PICK v \in DirectMap : t = Path(kernel_cr3, v)[0] /\ s = Slot(v, 0)
    BY DEF Direct
  <1>2. kernel_cr3 \in Tops /\ v \in Nat /\ Slot(v, 3) # SelfSlot
    BY <1>1, DirectMapIsTheKernels DEF Sound, TablesInv, Tops, Roots
  <1>3. \A r \in Tops : r = kernel_cr3 => Path(r, v)'[0] = Path(r, v)[0]
    <2> SUFFICES ASSUME NEW r \in Tops, r = kernel_cr3 PROVE Path(r, v)'[0] = Path(r, v)[0]
      OBVIOUS
    <2>1. \/ Path(r, v)'[0] = Path(r, v)[0]
          \/ Path(r, v)[0] = 0 /\ Path(r, v)'[0] \in added
      <3>1. 0 \in 0..3
        OBVIOUS
      <3> QED
        BY <1>2, <3>1, PathsGrow
    <2> QED
      BY <1>1, <2>1
  <1>4. kernel_cr3' = kernel_cr3
    BY DEF Enters
  <1>5. Path(kernel_cr3, v)'[0] = t
    BY <1>1, <1>2, <1>3, <1>4
  <1>6. v \in DirectMap'
    BY TopsStay
  <1> QED
    BY <1>1, <1>5, <1>6 DEF Direct

LEMMA EntryKeepsLevels ==
    ASSUME NEW lev, Sound(lev), NEW t0, NEW s0, NEW e, NEW added, Enters(lev, t0, s0, e, added)
    PROVE  \E m : Leveled(m)'
  <1>1. PICK m : m = [t \in DOMAIN tables \union added |-> IF t \in added THEN lev[t0] - 1 ELSE lev[t]]
    OBVIOUS
  <1>2. /\ DOMAIN tables' = DOMAIN tables \union added
        /\ added \intersect DOMAIN tables = {}
        /\ Tops' = Tops
    BY TablesAreAdded, TopsStay
  <1>3. lev \in [DOMAIN tables -> 0..3] /\ t0 \in DOMAIN tables
    BY DEF Sound, Leveled, Enters
  <1>4. /\ \A t \in DOMAIN tables : m[t] = lev[t]
        /\ \A t \in added : m[t] = lev[t0] - 1
    BY <1>1, <1>2
  <1>5. lev[t0] # 0 \/ added = {}
    BY DEF Enters
  <1>6. m \in [DOMAIN tables' -> 0..3]
    <2>1. \A t \in DOMAIN tables \union added : m[t] \in 0..3
      BY <1>3, <1>4, <1>5
    <2> QED
      BY <1>1, <1>2, <2>1
  <1>7. \A t \in Tops' : m[t] = 3
    <2>1. \A t \in Tops : t \in DOMAIN tables /\ lev[t] = 3
      BY DEF Tops, Sound, Leveled
    <2> QED
      BY <1>2, <1>4, <2>1
  <1>8. ASSUME NEW t \in DOMAIN tables', NEW s \in Slots, tables'[t][s].page # 0
        PROVE  /\ t \in DOMAIN tables
               /\ t = t0 /\ s = s0 => tables'[t][s] = e
               /\ ~(t = t0 /\ s = s0) => tables'[t][s] = tables[t][s]
    <2>1. t \notin added
      <3>1. t \in added => tables'[t] = EmptyTable
        BY EntryIsSet
      <3> QED
        BY <1>8, <3>1 DEF EmptyTable, NoEntry
    <2>2. tables'[t0][s0] = e
      BY EntryIsSet
    <2>3. t \in DOMAIN tables
      BY <1>2, <2>1
    <2>4. (t = t0 /\ s = s0) \/ tables'[t][s] = tables[t][s]
      BY <2>3, EntryIsSet
    <2> QED
      BY <2>2, <2>3, <2>4
  <1>9. ASSUME NEW t \in DOMAIN tables', NEW s \in Slots,
               tables'[t][s].page # 0, ~(t \in Tops' /\ s = SelfSlot), m[t] > 0
        PROVE  tables'[t][s].page \in DOMAIN tables' /\ m[tables'[t][s].page] = m[t] - 1
    <2>1. t \in DOMAIN tables /\ m[t] = lev[t]
      BY <1>4, <1>8, <1>9
    <2>2. CASE t = t0 /\ s = s0
      <3>1. added = {e.page}
        BY <1>9, <2>1, <2>2 DEF Enters
      <3>2. tables'[t][s] = e
        BY <1>8, <1>9, <2>2
      <3> QED
        BY <1>2, <1>4, <2>1, <2>2, <3>1, <3>2
    <2>3. CASE ~(t = t0 /\ s = s0)
      <3>1. tables'[t][s] = tables[t][s]
        BY <1>8, <1>9, <2>3
      <3>2. Down(t, s)
        BY <1>2, <1>9, <3>1 DEF Down
      <3>3. tables[t][s].page \in DOMAIN tables /\ lev[tables[t][s].page] = lev[t] - 1
        BY <1>9, <2>1, <3>2 DEF Sound, Leveled
      <3> QED
        BY <1>2, <1>4, <2>1, <3>1, <3>3
    <2> QED
      BY <2>2, <2>3
  <1>10. ASSUME phase' # "late", NEW t \in DOMAIN tables', NEW s \in Slots,
                m[t] = 0, tables'[t][s].page # 0
         PROVE  <<t, s>> \in Direct'
    <2>1. t \in DOMAIN tables /\ lev[t] = 0 /\ phase # "late" /\ t # 0
      <3>1. phase' = phase
        BY DEF Enters
      <3>2. 0 \notin DOMAIN tables
        BY TablesAreNumbers DEF Sound
      <3> QED
        BY <1>4, <1>8, <1>10, <3>1, <3>2
    <2>2. <<t, s>> \in Direct
      <3>1. CASE t = t0 /\ s = s0
        BY <2>1, <3>1 DEF Enters
      <3>2. CASE ~(t = t0 /\ s = s0)
        <4>1. tables'[t][s] = tables[t][s]
          BY <1>8, <1>10, <3>2
        <4> QED
          BY <1>10, <2>1, <4>1 DEF Sound, Leveled
      <3> QED
        BY <3>1, <3>2
    <2> QED
      BY <2>1, <2>2, DirectStays
  <1>11. Leveled(m)'
    BY <1>6, <1>7, <1>9, <1>10 DEF Leveled, Down
  <1> QED
    BY <1>11

LEMMA EntryKeepsTops ==
    ASSUME NEW lev, Sound(lev), NEW t0, NEW s0, NEW e, NEW added, Enters(lev, t0, s0, e, added)
    PROVE  TopsAreAlike'
  <1>1. UNCHANGED <<phase, kernel_cr3, cr3, spaces>>
    BY DEF Enters
  <1>2. /\ \A i \in 1..Len(spaces) : spaces[i].cr3 \in DOMAIN tables
        /\ phase = "late" => cr3 \in Tops
    BY DEF Sound, TopsAreAlike
  <1>3. DOMAIN tables \subseteq DOMAIN tables' /\ Tops' = Tops
    BY TablesAreAdded, TopsStay
  <1>4. SelfSlot \in Slots /\ KernelSlot \in Slots
    BY PagingAssumption DEF SelfSlot, KernelSlot, Slots
  <1>5. kernel_cr3 \in Tops /\ \A r \in Tops : r \in DOMAIN tables
    BY DEF Tops, Roots, Sound, TablesInv
  <1>6. \A r \in Tops : tables'[r][SelfSlot] = tables[r][SelfSlot]
    <2> SUFFICES ASSUME NEW r \in Tops PROVE tables'[r][SelfSlot] = tables[r][SelfSlot]
      OBVIOUS
    <2>1. (r = t0 /\ SelfSlot = s0) \/ tables'[r][SelfSlot] = tables[r][SelfSlot]
      BY <1>4, <1>5, EntryIsSet
    <2>2. ~(r = t0 /\ SelfSlot = s0)
      BY DEF Enters
    <2> QED
      BY <2>1, <2>2
  <1>7. \A r \in Tops : tables'[r][KernelSlot] = tables'[kernel_cr3][KernelSlot]
    <2>1. CASE \E r \in Tops : r = t0 /\ KernelSlot = s0
      BY <2>1 DEF Enters
    <2>2. CASE \A r \in Tops : ~(r = t0 /\ KernelSlot = s0)
      <3>1. \A r \in Tops : tables'[r][KernelSlot] = tables[r][KernelSlot]
        <4> SUFFICES ASSUME NEW r \in Tops PROVE tables'[r][KernelSlot] = tables[r][KernelSlot]
          OBVIOUS
        <4>1. (r = t0 /\ KernelSlot = s0) \/ tables'[r][KernelSlot] = tables[r][KernelSlot]
          BY <1>4, <1>5, EntryIsSet
        <4> QED
          BY <2>2, <4>1
      <3>2. \A r \in Tops : tables[r][KernelSlot] = tables[kernel_cr3][KernelSlot]
        BY DEF Sound, TopsAreAlike
      <3> QED
        BY <1>5, <3>1, <3>2
    <2> QED
      BY <2>1, <2>2
  <1>8. \A r \in Tops : tables[r][SelfSlot].page = r
    BY DEF Sound, TopsAreAlike
  <1>9. \A r \in Tops' : /\ tables'[r][SelfSlot].page = r
                         /\ tables'[r][KernelSlot] = tables'[kernel_cr3'][KernelSlot]
    <2>1. \A r \in Tops : tables'[r][SelfSlot].page = r
      BY <1>6, <1>8
    <2> QED
      BY <1>1, <1>3, <1>7, <2>1
  <1>10. \A i \in 1..Len(spaces') : spaces'[i].cr3 \in DOMAIN tables'
    BY <1>1, <1>2, <1>3
  <1>11. phase' = "late" => cr3' \in Tops'
    BY <1>1, <1>2, <1>3
  <1> QED
    BY <1>9, <1>10, <1>11 DEF TopsAreAlike

LEMMA OwnersGrow ==
    ASSUME NEW lev, Sound(lev), NEW t0, NEW s0, NEW e, NEW added, Enters(lev, t0, s0, e, added),
           NEW o \in Owners'
    PROVE  \/ o = <<t0, s0>> /\ o \notin Direct /\ PageOf(o)' = e.page
           \/ o \in Owners /\ PageOf(o)' = PageOf(o)
  <1>1. PICK t \in DOMAIN tables', s \in Slots : o = <<t, s>>
    BY DEF Owners
  <1>2. /\ tables'[t][s].page # 0
        /\ t \in Roots' \union {process_cr3'} =>
              s # SelfSlot /\ (s = KernelSlot => t = kernel_cr3')
        /\ <<t, s>> \notin Direct'
    BY <1>1 DEF Owners, Direct
  <1>3. t \notin added
    <2>1. t \in added => tables'[t] = EmptyTable
      BY EntryIsSet
    <2> QED
      BY <1>2, <2>1 DEF EmptyTable, NoEntry
  <1>4. t \in DOMAIN tables
    <2>1. DOMAIN tables' = DOMAIN tables \union added
      BY TablesAreAdded
    <2> QED
      BY <1>3, <2>1
  <1>5. t # 0
    BY <1>4, TablesAreNumbers DEF Sound
  <1>6. <<t, s>> \notin Direct
    BY <1>2, <1>5, DirectStays
  <1>7. CASE t = t0 /\ s = s0
    <2>1. tables'[t0][s0] = e
      BY EntryIsSet
    <2> QED
      BY <1>1, <1>6, <1>7, <2>1 DEF PageOf
  <1>8. CASE ~(t = t0 /\ s = s0)
    <2>1. (t = t0 /\ s = s0) \/ tables'[t][s] = tables[t][s]
      BY <1>4, EntryIsSet
    <2>2. tables'[t][s] = tables[t][s]
      BY <1>8, <2>1
    <2>3. Roots' = Roots
      BY TopsStay
    <2>4. process_cr3' = process_cr3 /\ kernel_cr3' = kernel_cr3
      BY DEF Enters
    <2>5. <<t, s>> \in Owners
      BY <1>2, <1>4, <1>6, <2>2, <2>3, <2>4, OwnersAre
    <2> QED
      BY <1>1, <2>2, <2>5 DEF PageOf
  <1> QED
    BY <1>7, <1>8

LEMMA EntryKeepsOwners ==
    ASSUME NEW lev, Sound(lev), NEW t0, NEW s0, NEW e, NEW added, Enters(lev, t0, s0, e, added)
    PROVE  PagesAreOwned'
  <1>1. \A o \in Owners : PageOf(o) \in HandedOut
    BY DEF Sound, PagesAreOwned
  <1>2. HandedOut \subseteq HandedOut'
    BY DEF Enters
  <1>3. \A o \in Owners' : \/ o = <<t0, s0>> /\ o \notin Direct /\ PageOf(o)' = e.page
                           \/ o \in Owners /\ PageOf(o)' = PageOf(o)
    BY OwnersGrow
  <1>4. <<t0, s0>> \notin Direct => e.page \in HandedOut' /\ \A o \in Owners : PageOf(o) # e.page
    BY DEF Enters
  <1>5. \A o \in Owners' : PageOf(o)' \in HandedOut'
    BY <1>1, <1>2, <1>3, <1>4
  <1>6. ASSUME NEW a \in Owners', NEW b \in Owners', a # b PROVE PageOf(a)' # PageOf(b)'
    <2>1. a \in Owners /\ b \in Owners => PageOf(a) # PageOf(b)
      BY <1>6 DEF Sound, PagesAreOwned
    <2> QED
      BY <1>3, <1>4, <1>6, <2>1
  <1> QED
    BY <1>5, <1>6 DEF PagesAreOwned

\* What an address is translated to changes only where the entry is.
LEMMA TranslationsGrow ==
    ASSUME NEW lev, Sound(lev), NEW t0, NEW s0, NEW e, NEW added, Enters(lev, t0, s0, e, added),
           NEW r \in Tops, NEW v \in Nat, Slot(v, 3) # SelfSlot
    PROVE  \/ Translate(r, v)' = Translate(r, v)
           \/ Path(r, v)[0] = t0 /\ Slot(v, 0) = s0 /\ lev[t0] = 0 /\ t0 # 0
  <1> DEFINE p == Path(r, v)[0]
             n == Path(r, v)'[0]
             s == Slot(v, 0)
  <1>1. 0 \in 0..3
    OBVIOUS
  <1>2. n = p \/ (p = 0 /\ n \in added)
    BY <1>1, PathsGrow
  <1>3. s \in Slots
    BY <1>1, SlotIsASlot
  <1>4. p # 0 => p \in DOMAIN tables /\ lev[p] = 0
    BY <1>1, PathIsLeveled DEF Sound
  <1>5. /\ Translate(r, v) = IF p = 0 THEN 0 ELSE tables[p][s].page
        /\ Translate(r, v)' = IF n = 0 THEN 0 ELSE tables'[n][s].page
    BY DEF Translate
  <1> HIDE DEF p, n, s
  <1>6. CASE p = 0 /\ n \in added
    <2>1. tables'[n] = EmptyTable
      BY <1>6, EntryIsSet
    <2> QED
      BY <1>3, <1>5, <1>6, <2>1 DEF EmptyTable, NoEntry
  <1>7. CASE n = p /\ p = 0
    BY <1>5, <1>7
  <1>8. CASE n = p /\ p # 0
    <2>1. (p = t0 /\ s = s0) \/ tables'[p][s] = tables[p][s]
      BY <1>3, <1>4, <1>8, EntryIsSet
    <2> QED
      BY <1>4, <1>5, <1>8, <2>1 DEF p, s
  <1> QED
    BY <1>2, <1>6, <1>7, <1>8

LEMMA EntryKeepsTables ==
    ASSUME NEW lev, Sound(lev), NEW t0, NEW s0, NEW e, NEW added, Enters(lev, t0, s0, e, added),
           IInv', added \subseteq HandedOut', UNCHANGED todo, top_virtual_address' \in Nat,
           call' \in Call, call'.kind = call.kind
    PROVE  TablesInv'
  <1>1. UNCHANGED <<phase, kernel_cr3, cr3, process_cr3, spaces, todo>>
    BY DEF Enters
  <1>2. Typed'
    <2>1. \A t \in DOMAIN tables' : tables'[t] \in Table
      BY EntryKeepsTypes
    <2>2. kernel_cr3' \in Nat /\ cr3' \in Nat
      BY <1>1 DEF Sound, TablesInv, Typed
    <2>3. todo' \in Seq(Task) /\ spaces' \in Seq([cr3 : Nat, binary : Files])
      BY <1>1 DEF Sound, TablesInv, Typed
    <2> QED
      BY <2>1, <2>2, <2>3 DEF Typed
  <1>3. DOMAIN tables' \subseteq HandedOut' /\ HandedOut \subseteq HandedOut'
    <2>1. DOMAIN tables' = DOMAIN tables \union added
      BY TablesAreAdded
    <2>2. DOMAIN tables \subseteq HandedOut /\ HandedOut \subseteq HandedOut'
      BY DEF Sound, TablesInv, Enters
    <2> QED
      BY <2>1, <2>2
  <1>4. process_cr3' \in HandedOut' \union {0}
    BY <1>1, <1>3 DEF Sound, TablesInv
  <1>5. process_cr3 \in DOMAIN tables' => process_cr3 \in DOMAIN tables
    <2>1. DOMAIN tables' = DOMAIN tables \union added
      BY TablesAreAdded
    <2>2. process_cr3 \notin added
      BY DEF Enters, Sound, TablesInv
    <2> QED
      BY <2>1, <2>2
  <1>6. call'.kind = "pml4" => process_cr3' \in HandedOut' \ DOMAIN tables'
    BY <1>1, <1>3, <1>5 DEF Sound, TablesInv
  <1>7. DOMAIN tables \subseteq DOMAIN tables'
    BY TablesAreAdded
  <1>8. /\ phase # "late" => cr3 = 0 /\ todo = << >> /\ process_cr3 = 0 /\ spaces = << >>
        /\ phase = "late" => kernel_cr3 \in DOMAIN tables /\ call.kind # "boot"
        /\ phase # "late" /\ kernel_cr3 # 0 =>
              phase = "early" /\ kernel_cr3 \in DOMAIN tables /\ call.kind = "boot"
        /\ kernel_cr3 # 0
    BY DEF Sound, TablesInv
  <1>9. /\ phase' # "late" => cr3' = 0 /\ todo' = << >> /\ process_cr3' = 0 /\ spaces' = << >>
        /\ phase' = "late" => kernel_cr3' \in DOMAIN tables' /\ call'.kind # "boot"
        /\ phase' # "late" /\ kernel_cr3' # 0 =>
              phase' = "early" /\ kernel_cr3' \in DOMAIN tables' /\ call'.kind = "boot"
        /\ kernel_cr3' # 0
    BY <1>1, <1>7, <1>8
  <1> QED
    BY <1>2, <1>3, <1>4, <1>6, <1>9 DEF TablesInv

LEMMA EntryKeepsOrder ==
    ASSUME NEW lev, Sound(lev), NEW t0, NEW s0, NEW e, NEW added, Enters(lev, t0, s0, e, added),
           UNCHANGED todo, NEW open, InOrder(open)
    PROVE  InOrder(open)'
  <1>1. DOMAIN tables' = DOMAIN tables \union added
    BY TablesAreAdded
  <1>2. process_cr3 \notin added /\ process_cr3' = process_cr3
    BY DEF Enters, Sound, TablesInv
  <1>3. Roots' = Roots
    BY TopsStay
  <1>4. Open' = Open
    BY <1>1, <1>2, <1>3 DEF Open
  <1> QED
    BY <1>4 DEF InOrder

LEMMA EntryKeepsKernelPart ==
    ASSUME NEW lev, Sound(lev), NEW t0, NEW s0, NEW e, NEW added, Enters(lev, t0, s0, e, added)
    PROVE  KernelPartIsThere \/ (t0 = kernel_cr3 /\ s0 = KernelSlot) => KernelPartIsThere'
  <1>1. kernel_cr3' = kernel_cr3 /\ e.page # 0
    BY DEF Enters
  <1>2. kernel_cr3 \in DOMAIN tables /\ KernelSlot \in Slots
    BY PagingAssumption DEF Sound, TablesInv, KernelSlot, Slots
  <1>3. (kernel_cr3 = t0 /\ KernelSlot = s0) \/ tables'[kernel_cr3][KernelSlot] = tables[kernel_cr3][KernelSlot]
    BY <1>2, EntryIsSet
  <1>4. tables'[t0][s0] = e
    BY EntryIsSet
  <1> QED
    BY <1>1, <1>3, <1>4 DEF KernelPartIsThere

-----------------------------------------------------------------------------
(* The mapping loops *)

LEMMA RootIsATop ==
    ASSUME NEW lev, Sound(lev)
    PROVE  /\ Root \in Tops
           /\ phase = "late" => Root = cr3
           /\ phase # "late" => Root = kernel_cr3 /\ Tops = {kernel_cr3}
  <1>1. kernel_cr3 \in DOMAIN tables /\ 0 \notin DOMAIN tables
    BY TablesAreNumbers DEF Sound, TablesInv
  <1>2. CASE phase = "late"
    <2>1. cr3 \in Tops /\ cr3 # 0
      BY <1>1, <1>2 DEF Sound, TopsAreAlike, Tops
    <2>2. tables[cr3][SelfSlot].page = cr3
      BY <2>1 DEF Sound, TopsAreAlike
    <2> QED
      BY <1>2, <2>1, <2>2 DEF Root
  <1>3. CASE phase # "late"
    <2>1. cr3 = 0 /\ process_cr3 = 0 /\ spaces = << >>
      BY <1>3 DEF Sound, TablesInv
    <2>2. Roots = {kernel_cr3}
      BY <2>1 DEF Roots
    <2>3. Tops = {kernel_cr3}
      BY <1>1, <2>1, <2>2 DEF Tops
    <2> QED
      BY <1>3, <2>1, <2>3 DEF Root
  <1> QED
    BY <1>2, <1>3

\* The addresses of the loops: start() maps the direct map, the kernel's calls map what
\* is above the top, a process' own pages lie below.
LEMMA CallsAddress ==
    ASSUME NEW lev, Sound(lev), CallFits, KernelTopIsFree, call.v < call.beyond, call.kind # "none"
    PROVE  /\ call.v \in 0..(AddressEnd - 1) /\ Slot(call.v, 3) # SelfSlot
           /\ call.kind = "boot" => call.v \in DirectMap
           /\ call.kind \in {"heap", "pml4"} => call.v = top_virtual_address /\ phase = "late"
           /\ call.kind \in {"segment", "stack"} => Slot(call.v, 3) # KernelSlot /\ phase = "late"
  <1>1. call.v \in Nat /\ call.beyond \in Nat /\ call.kind \in Kinds
    BY DEF Sound, TablesInv, Typed, Call
  <1>2. phase = "late" <=> call.kind # "boot"
    BY DEF Sound, TablesInv
  <1>3. AddressEnd \in Nat /\ UserEnd \in Nat /\ KernBase \in Nat /\ Physbase \in Nat /\ VideoPage \in Nat
    BY Spans, PagingAssumption
  <1>4. CASE call.kind = "boot"
    <2>1. call.v \in DirectMap
      <3> DEFINE p == Physfree \div PAGESIZE
                 n == free_list_page_length
      <3>1. p \in Nat /\ MapSlack \in Nat
        <4>1. PAGESIZE \in Nat \ {0} /\ Physfree \in Nat
          BY SizesAssumption
        <4>2. p \in Nat
          BY <4>1, SMT
        <4>3. MapSlack \in Nat
          BY PagingAssumption
        <4> QED
          BY <4>2, <4>3
      <3>2. n \in Nat
        BY TypeFacts DEF Sound, TablesInv, IInv, Counted
      <3>3. \/ call.v >= KernBase + Physbase /\ call.beyond = KernBase + p + n + MapSlack + 1
            \/ call.v >= KernBase + VideoPage /\ call.beyond = KernBase + VideoPage + 2
        BY <1>4 DEF CallFits
      <3> HIDE DEF p, n
      <3>4. \/ call.v \in (KernBase + Physbase) .. (KernBase + p + n + MapSlack)
            \/ call.v \in {KernBase + VideoPage, KernBase + VideoPage + 1}
        BY <1>1, <1>3, <3>1, <3>2, <3>3
      <3> QED
        BY <3>4 DEF DirectMap, p, n
    <2>2. call.v < AddressEnd /\ Slot(call.v, 3) # SelfSlot
      BY <2>1, DirectMapIsTheKernels DEF Sound
    <2> QED
      BY <1>1, <1>3, <1>4, <2>1, <2>2
  <1>5. CASE call.kind \in {"heap", "pml4"}
    <2>1. call.v = top_virtual_address /\ phase = "late"
      BY <1>2, <1>5 DEF CallFits
    <2>2. KernBase <= call.v /\ call.v < AddressEnd
      BY <1>1, <1>3, <2>1 DEF KernelTopIsFree, Sound, Fits
    <2>3. Slot(call.v, 3) = KernelSlot
      BY <1>1, <2>2, FirstDigit
    <2>4. KernelSlot # SelfSlot
      BY PagingAssumption DEF KernelSlot, SelfSlot
    <2> QED
      BY <1>1, <1>3, <1>5, <2>1, <2>2, <2>3, <2>4
  <1>6. CASE call.kind \in {"segment", "stack"}
    <2>1. call.v < UserEnd
      BY <1>1, <1>3, <1>6 DEF CallFits
    <2>2. Slot(call.v, 3) # SelfSlot /\ Slot(call.v, 3) # KernelSlot
      BY <1>1, <2>1, FirstDigit
    <2>3. UserEnd <= AddressEnd
      <3>1. Fanout \in Nat /\ Span(3) \in Nat
        BY Spans
      <3>2. UserEnd = Fanout * Span(3) - 2 * Span(3) /\ AddressEnd = Fanout * Span(3)
        BY <3>1 DEF UserEnd, AddressEnd
      <3> QED
        BY <1>3, <3>1, <3>2
    <2> QED
      BY <1>1, <1>2, <1>3, <1>6, <2>1, <2>2, <2>3
  <1> QED
    BY <1>1, <1>4, <1>5, <1>6 DEF Kinds

\* The lowest table on a path: the entry below it is missing.
LEMMA DeepestIs ==
    ASSUME NEW lev, Sound(lev), NEW r \in Tops, NEW v \in Nat, Slot(v, 3) # SelfSlot
    PROVE  LET l == Deepest(Path(r, v))
               t == Path(r, v)[l]
           IN  /\ l \in 0..3 /\ t \in DOMAIN tables /\ t # 0 /\ lev[t] = l
               /\ Slot(v, l) \in Slots
               /\ l > 0 => tables[t][Slot(v, l)].page = 0
               /\ l = 3 => t = r
  <1> DEFINE p == Path(r, v)
             Is(k) == p[k] # 0 /\ (k = 0 \/ p[k - 1] = 0)
             l == Deepest(p)
  <1>1. p[3] # 0
    <2>1. p[3] = r
      BY PathSteps
    <2>2. r # 0
      BY TablesAreNumbers DEF Sound, Tops
    <2> QED
      BY <2>1, <2>2
  <1>2. \A k \in 0..2 : p[k] = IF p[k + 1] = 0 THEN 0 ELSE tables[p[k + 1]][Slot(v, k + 1)].page
    BY PathSteps
  <1>3. l = CHOOSE k \in 0..3 : Is(k)
    BY DEF Deepest
  <1> HIDE DEF p, l
  <1>4. \E k \in 0..3 : Is(k)
    <2>1. 0 \in 0..3 /\ 1 \in 0..3 /\ 2 \in 0..3 /\ 3 \in 0..3
      OBVIOUS
    <2>2. 1 - 1 = 0 /\ 2 - 1 = 1 /\ 3 - 1 = 2
      OBVIOUS
    <2> QED
      BY <1>1, <2>1, <2>2
  <1>5. l \in 0..3 /\ Is(l)
    BY <1>3, <1>4
  <1>6. p[l] \in DOMAIN tables /\ lev[p[l]] = l
    BY <1>5, PathIsLeveled DEF Sound, p
  <1>7. l > 0 => tables[p[l]][Slot(v, l)].page = 0
    <2> SUFFICES ASSUME l > 0 PROVE tables[p[l]][Slot(v, l)].page = 0
      OBVIOUS
    <2>1. l - 1 \in 0..2 /\ (l - 1) + 1 = l
      BY <1>5
    <2>2. p[l - 1] = IF p[l] = 0 THEN 0 ELSE tables[p[l]][Slot(v, l)].page
      BY <1>2, <2>1
    <2> QED
      BY <1>5, <2>2
  <1>8. l = 3 => p[l] = r
    BY PathSteps DEF p
  <1>9. Slot(v, l) \in Slots
    BY <1>5, SlotIsASlot
  <1> QED
    BY <1>5, <1>6, <1>7, <1>8, <1>9 DEF p, l

-----------------------------------------------------------------------------
(* Steps that leave the tables as they are *)

LEMMA PlacesStay ==
    ASSUME UNCHANGED <<tables, kernel_cr3, free_list_page_length>>, Tops' = Tops
    PROVE  /\ Direct' = Direct /\ Owners' = Owners
           /\ \A o : PageOf(o)' = PageOf(o)
           /\ \A v : Translate(kernel_cr3, v)' = Translate(kernel_cr3, v)
           /\ KernelPartIsThere' = KernelPartIsThere
  <1>1. \A v : Path(kernel_cr3, v)' = Path(kernel_cr3, v)
    BY DEF Path
  <1>2. DirectMap' = DirectMap
    BY DEF DirectMap
  <1>3. Direct' = Direct
    BY <1>1, <1>2 DEF Direct
  <1>4. Owners' = Owners
    <2>1. \A t, s : <<t, s>> \in Owners <=>
              /\ t \in DOMAIN tables /\ s \in Slots /\ tables[t][s].page # 0
              /\ t \in Tops => s # SelfSlot /\ (s = KernelSlot => t = kernel_cr3)
              /\ <<t, s>> \notin Direct
      BY OwnersAre DEF Tops
    <2>2. \A t, s : <<t, s>> \in Owners' <=>
              /\ t \in DOMAIN tables' /\ s \in Slots /\ tables'[t][s].page # 0
              /\ t \in Tops' => s # SelfSlot /\ (s = KernelSlot => t = kernel_cr3')
              /\ <<t, s>> \notin Direct'
      <3> SUFFICES ASSUME NEW t, NEW s
                   PROVE  <<t, s>> \in Owners' <=>
                            /\ t \in DOMAIN tables' /\ s \in Slots /\ tables'[t][s].page # 0
                            /\ t \in Tops' => s # SelfSlot /\ (s = KernelSlot => t = kernel_cr3')
                            /\ <<t, s>> \notin Direct'
        OBVIOUS
      <3>1. <<t, s>> \in Owners' <=>
              /\ t \in DOMAIN tables' /\ s \in Slots /\ tables'[t][s].page # 0
              /\ t \in Roots' \union {process_cr3'} =>
                    s # SelfSlot /\ (s = KernelSlot => t = kernel_cr3')
              /\ <<t, s>> \notin Direct'
        BY DEF Owners, Direct
      <3>2. Tops' = (Roots' \union {process_cr3'}) \intersect DOMAIN tables'
        BY DEF Tops
      <3> QED
        BY <3>1, <3>2
    <2>3. \A t, s : <<t, s>> \in Owners' <=> <<t, s>> \in Owners
      BY <1>3, <2>1, <2>2
    <2>4. \A o \in Owners : \E t, s : o = <<t, s>>
      BY DEF Owners
    <2>5. \A o \in Owners' : \E t, s : o = <<t, s>>
      BY DEF Owners
    <2> QED
      BY <2>3, <2>4, <2>5
  <1>5. \A v : Translate(kernel_cr3, v)' = Translate(kernel_cr3, v)
    BY <1>1 DEF Translate
  <1> QED
    BY <1>3, <1>4, <1>5 DEF PageOf, KernelPartIsThere

LEMMA LevelsStay ==
    ASSUME UNCHANGED <<tables, kernel_cr3, free_list_page_length>>, Tops' = Tops,
           phase' \in {phase, "late"}, NEW lev, Leveled(lev)
    PROVE  Leveled(lev)'
  <1>1. Direct' = Direct
    BY PlacesStay
  <1> QED
    BY <1>1 DEF Leveled, Down

LEMMA OwnersStay ==
    ASSUME UNCHANGED <<tables, kernel_cr3, free_list_page_length>>, Tops' = Tops,
           HandedOut \subseteq HandedOut', PagesAreOwned
    PROVE  PagesAreOwned'
  <1>1. Owners' = Owners /\ \A o : PageOf(o)' = PageOf(o)
    BY PlacesStay
  <1> QED
    BY <1>1 DEF PagesAreOwned

\* Only the allocator takes a step.
LEMMA AllocatorKeepsSpaces ==
    ASSUME SpacesInv, IInv', HandedOut \subseteq HandedOut',
           UNCHANGED <<phase, free_list_page_length, pagingVars>>
    PROVE  SpacesInv'
  <1>1. UNCHANGED <<tables, kernel_cr3, cr3, top_virtual_address, todo, call, process_cr3, spaces>>
    BY DEF pagingVars
  <1>2. Roots' = Roots
    BY <1>1 DEF Roots
  <1>3. Tops' = Tops
    BY <1>1, <1>2 DEF Tops
  <1>4. TablesInv'
    <2>1. Typed'
      BY <1>1 DEF SpacesInv, TablesInv, Typed
    <2> QED
      BY <1>1, <2>1 DEF SpacesInv, TablesInv
  <1>5. \E lev : Leveled(lev)'
    BY <1>1, <1>3, LevelsStay DEF SpacesInv
  <1>6. kernel_cr3' # 0 => TopsAreAlike'
    BY <1>1, <1>3 DEF SpacesInv, TopsAreAlike
  <1>7. PagesAreOwned'
    BY <1>1, <1>3, OwnersStay DEF SpacesInv
  <1>8. /\ Owners' = Owners /\ KernelPartIsThere' = KernelPartIsThere
        /\ \A o : PageOf(o)' = PageOf(o)
        /\ \A v : Translate(kernel_cr3, v)' = Translate(kernel_cr3, v)
    BY <1>1, <1>3, PlacesStay
  <1>9. KernelTopIsFree'
    BY <1>1, <1>8 DEF SpacesInv, KernelTopIsFree, AboveTop
  <1>10. CallFits'
    BY <1>1, <1>3, <1>8 DEF SpacesInv, CallFits
  <1>11. \E open : InOrder(open)'
    BY <1>1, <1>2 DEF SpacesInv, InOrder, Open
  <1> QED
    BY <1>4, <1>5, <1>6, <1>7, <1>9, <1>10, <1>11 DEF SpacesInv

-----------------------------------------------------------------------------
(* Walking the tables *)

\* What MappingsStay says of a step.
EntriesStay ==
    cr3 # 0 =>
        \A t \in DOMAIN tables :
            /\ t \in DOMAIN tables'
            /\ \A s \in Slots : tables[t][s].page # 0 => tables'[t][s] = tables[t][s]

LEMMA SameTablesStay == ASSUME UNCHANGED tables PROVE EntriesStay
  BY DEF EntriesStay

LEMMA SpacesAreSound ==
    ASSUME SpacesInv, Fits, kernel_cr3 # 0
    PROVE  \E lev : Sound(lev)
  BY DEF SpacesInv, Sound

\* From the tables on which it stands, a loop keeps the tables below it.
LEMMA EntryKeepsEntries ==
    ASSUME NEW lev, Sound(lev), NEW t0, NEW s0, NEW e, NEW added, Enters(lev, t0, s0, e, added),
           cr3 # 0 => tables[t0][s0].page = 0
    PROVE  EntriesStay
  <1> SUFFICES ASSUME cr3 # 0, NEW t \in DOMAIN tables
               PROVE  /\ t \in DOMAIN tables'
                      /\ \A s \in Slots : tables[t][s].page # 0 => tables'[t][s] = tables[t][s]
    BY DEF EntriesStay
  <1>1. t \in DOMAIN tables'
    BY TablesAreAdded
  <1>2. ASSUME NEW s \in Slots, tables[t][s].page # 0 PROVE tables'[t][s] = tables[t][s]
    <2>1. (t = t0 /\ s = s0) \/ tables'[t][s] = tables[t][s]
      BY EntryIsSet
    <2> QED
      BY <1>2, <2>1
  <1> QED
    BY <1>1, <1>2

LEMMA TableIsEntered ==
    ASSUME RegionsAreApart, NEW lev, Sound(lev), CallFits, KernelTopIsFree, call.kind # "none",
           AddTable(get_next_free_page) \/ AddTable(get_next_free_page_kmalloc),
           handed_out' # handed_out
    PROVE  /\ \E t0, s0 : Enters(lev, t0, s0, Entry(Fresh, User), {Fresh}) /\ lev[t0] > 0
                          /\ tables[t0][s0].page = 0
           /\ IInv' /\ Fresh \in HandedOut' /\ Fresh \notin HandedOut /\ faulting' = faulting
  <1> DEFINE v    == call.v
             path == Path(Root, v)
             l    == Deepest(path)
             t0   == path[l]
             s0   == Slot(v, l)
  <1>1. /\ v < call.beyond /\ call.page # 0 /\ l > 0
        /\ get_next_free_page \/ get_next_free_page_kmalloc
        /\ tables' = [t \in DOMAIN tables \union {Fresh} |->
                        IF t = Fresh THEN EmptyTable
                        ELSE IF t = t0 THEN [tables[t] EXCEPT ![s0] = Entry(Fresh, User)]
                        ELSE tables[t]]
        /\ UNCHANGED <<kernel_cr3, cr3, process_cr3, spaces>>
    BY DEF AddTable
  <1>2. /\ IInv' /\ phase' = phase
        /\ Fresh \in Nat \ {0} /\ Fresh \notin HandedOut
        /\ HandedOut' = HandedOut \union {Fresh} /\ faulting' = faulting
    BY <1>1, Allocates DEF Sound, TablesInv
  <1>3. UNCHANGED free_list_page_length
    BY <1>1 DEF get_next_free_page, get_next_free_page_kmalloc
  <1>4. Root \in Tops /\ (phase # "late" => Tops = {kernel_cr3})
    BY RootIsATop
  <1>5. v \in Nat /\ Slot(v, 3) # SelfSlot
    BY <1>1, CallsAddress
  <1>6. /\ l \in 0..3 /\ t0 \in DOMAIN tables /\ t0 # 0 /\ lev[t0] = l /\ s0 \in Slots
        /\ l > 0 => tables[t0][s0].page = 0
    BY <1>4, <1>5, DeepestIs
  <1> HIDE DEF path, l
  <1>7. t0 \in Tops => s0 # SelfSlot /\ (s0 = KernelSlot => Tops = {kernel_cr3})
    <2> SUFFICES ASSUME t0 \in Tops
                 PROVE  s0 # SelfSlot /\ (s0 = KernelSlot => Tops = {kernel_cr3})
      OBVIOUS
    <2>1. l = 3
      BY <1>6 DEF Sound, Leveled
    <2>2. s0 # SelfSlot
      BY <1>5, <2>1
    <2>3. phase = "late" => s0 # KernelSlot
      <3>1. phase = "late" => tables[kernel_cr3][KernelSlot].page # 0
        BY DEF KernelTopIsFree, KernelPartIsThere
      <3>2. tables[t0][KernelSlot] = tables[kernel_cr3][KernelSlot]
        BY DEF Sound, TopsAreAlike
      <3> QED
        BY <1>1, <1>6, <3>1, <3>2
    <2> QED
      BY <1>4, <2>2, <2>3
  <1>8. \A o \in Owners : PageOf(o) # Fresh
    BY <1>2 DEF Sound, PagesAreOwned
  <1>9. User \in BOOLEAN
    BY DEF User
  <1>10. Enters(lev, t0, s0, Entry(Fresh, User), {Fresh})
    <2>1. Entry(Fresh, User) \in [page : Nat, user : BOOLEAN] /\ Entry(Fresh, User).page = Fresh
      BY <1>2, <1>9 DEF Entry
    <2> DEFINE e == Entry(Fresh, User)
    <2> HIDE DEF e, t0, s0
    <2>2. \A t : t \in {Fresh} <=> t = Fresh
      OBVIOUS
    <2>3. tables' = [t \in DOMAIN tables \union {Fresh} |->
                        IF t \in {Fresh} THEN EmptyTable
                        ELSE IF t = t0 THEN [tables[t] EXCEPT ![s0] = e]
                        ELSE tables[t]]
      BY <1>1 DEF e
    <2>4. {Fresh} \intersect HandedOut = {} /\ {Fresh} \subseteq Nat \ {0}
      BY <1>2
    <2>5. e \in [page : Nat, user : BOOLEAN] /\ e.page = Fresh /\ Fresh # 0
      BY <1>2, <2>1 DEF e
    <2>6. Enters(lev, t0, s0, e, {Fresh})
      BY <1>1, <1>2, <1>3, <1>6, <1>7, <1>8, <2>3, <2>4, <2>5 DEF Enters
    <2> QED
      BY <2>6 DEF e
  <1> HIDE DEF t0, s0
  <1> QED
    BY <1>1, <1>2, <1>6, <1>10

LEMMA AddTableKeepsSpaces ==
    ASSUME RegionsAreApart, SpacesInv, Fits, call.kind # "none",
           AddTable(get_next_free_page) \/ AddTable(get_next_free_page_kmalloc)
    PROVE  SpacesInv' /\ EntriesStay
  <1>1. get_next_free_page \/ get_next_free_page_kmalloc
    BY DEF AddTable
  <1>2. UNCHANGED <<kernel_cr3, cr3, top_virtual_address, todo, call, process_cr3, spaces, files>>
    BY DEF AddTable
  <1>3. kernel_cr3 # 0
    <2>1. 0 \notin DOMAIN tables
      BY TablesAreNumbers DEF SpacesInv
    <2> QED
      BY <2>1 DEF SpacesInv, TablesInv, NoCall
  <1>4. PICK lev : Sound(lev)
    BY <1>3, SpacesAreSound
  <1>5. phase' = phase /\ free_list_page_length' = free_list_page_length
    BY <1>1 DEF get_next_free_page, get_next_free_page_kmalloc
  <1>6. CallFits /\ KernelTopIsFree
    BY DEF SpacesInv
  <1>7. CASE handed_out' = handed_out
    <2>1. tables' = tables
      BY <1>7 DEF AddTable
    <2>2. UNCHANGED pagingVars
      BY <1>2, <2>1 DEF pagingVars
    <2>3. IInv'
      BY <1>1, Allocates DEF SpacesInv, TablesInv
    <2>4. HandedOut' = HandedOut
      BY <1>7 DEF HandedOut
    <2>5. SpacesInv'
      BY <1>5, <2>2, <2>3, <2>4, AllocatorKeepsSpaces
    <2> QED
      BY <2>1, <2>5, SameTablesStay
  <1>8. CASE handed_out' # handed_out
    <2>1. /\ \E t0, s0 : Enters(lev, t0, s0, Entry(Fresh, User), {Fresh}) /\ lev[t0] > 0
                          /\ tables[t0][s0].page = 0
          /\ IInv' /\ Fresh \in HandedOut' /\ Fresh \notin HandedOut /\ faulting' = faulting
      BY <1>4, <1>6, <1>8, TableIsEntered
    <2>2. PICK t0, s0, e, added :
             /\ Enters(lev, t0, s0, e, added) /\ lev[t0] > 0 /\ tables[t0][s0].page = 0
             /\ e.page \notin HandedOut /\ added \subseteq HandedOut'
      <3>1. PICK t0, s0 : /\ Enters(lev, t0, s0, Entry(Fresh, User), {Fresh}) /\ lev[t0] > 0
                          /\ tables[t0][s0].page = 0
        BY <2>1
      <3>2. Entry(Fresh, User).page \notin HandedOut /\ {Fresh} \subseteq HandedOut'
        BY <2>1 DEF Entry
      <3> QED
        BY <3>1, <3>2
    <2>3. TablesInv'
      <3>1. top_virtual_address' \in Nat /\ call' \in Call /\ call'.kind = call.kind
        BY <1>2 DEF SpacesInv, TablesInv, Typed
      <3> QED
        BY <1>2, <1>4, <2>1, <2>2, <3>1, EntryKeepsTables
    <2>4. \E m : Leveled(m)'
      BY <1>4, <2>2, EntryKeepsLevels
    <2>5. TopsAreAlike'
      BY <1>4, <2>2, EntryKeepsTops
    <2>6. PagesAreOwned'
      BY <1>4, <2>2, EntryKeepsOwners
    <2>7. Tops' = Tops
      BY <1>4, <2>2, TopsStay
    <2>8. KernelPartIsThere => KernelPartIsThere'
      BY <1>4, <2>2, EntryKeepsKernelPart
    <2>9. KernelTopIsFree'
      <3> SUFFICES ASSUME phase = "late", KernelPartIsThere, top_virtual_address > KernBase,
                          \A v \in AboveTop : Translate(kernel_cr3, v) = 0
                   PROVE  \A v \in AboveTop : Translate(kernel_cr3, v)' = 0
        BY <1>2, <1>5, <2>8 DEF SpacesInv, KernelTopIsFree, AboveTop
      <3> TAKE v \in AboveTop
      <3>1. v \in Nat /\ KernBase <= v /\ v < AddressEnd
        BY PagingAssumption, Spans DEF AboveTop, SpacesInv, TablesInv, Typed
      <3>2. Slot(v, 3) # SelfSlot
        <4>1. Slot(v, 3) = KernelSlot
          BY <3>1, FirstDigit
        <4> QED
          BY <4>1, PagingAssumption DEF KernelSlot, SelfSlot
      <3>3. \A r \in Tops : Translate(r, v)' = Translate(r, v)
        <4> SUFFICES ASSUME NEW r \in Tops PROVE Translate(r, v)' = Translate(r, v)
          OBVIOUS
        <4>1. \/ Translate(r, v)' = Translate(r, v)
              \/ Path(r, v)[0] = t0 /\ Slot(v, 0) = s0 /\ lev[t0] = 0 /\ t0 # 0
          BY <1>4, <2>2, <3>1, <3>2, TranslationsGrow
        <4> QED
          BY <2>2, <4>1
      <3>4. kernel_cr3 \in Tops
        BY <1>4 DEF Sound, TablesInv, Tops, Roots
      <3> QED
        BY <1>2, <3>3, <3>4
    <2>10. CallFits'
      <3>1. call.kind # "boot" /\ call.page # 0 =>
               call.page \in HandedOut /\ \A o \in Owners : PageOf(o) # call.page
        BY <1>6 DEF CallFits
      <3>2. \A o \in Owners' : \/ PageOf(o)' = e.page
                               \/ o \in Owners /\ PageOf(o)' = PageOf(o)
        BY <1>4, <2>2, OwnersGrow
      <3>3. HandedOut \subseteq HandedOut'
        BY <2>2 DEF Enters
      <3>4. call.kind # "boot" /\ call.page # 0 =>
               call.page \in HandedOut' /\ \A o \in Owners' : PageOf(o)' # call.page
        BY <2>2, <3>1, <3>2, <3>3
      <3> QED
        BY <1>2, <1>5, <1>6, <2>7, <2>8, <3>4 DEF CallFits
    <2>11. \E open : InOrder(open)'
      <3>1. PICK open : InOrder(open)
        BY DEF SpacesInv
      <3>2. InOrder(open)'
        BY <1>2, <1>4, <2>2, <3>1, EntryKeepsOrder
      <3> QED
        BY <3>2
    <2>12. SpacesInv'
      BY <2>3, <2>4, <2>5, <2>6, <2>9, <2>10, <2>11 DEF SpacesInv
    <2>13. EntriesStay
      BY <1>4, <2>2, EntryKeepsEntries
    <2> QED
      BY <2>12, <2>13
  <1> QED
    BY <1>7, <1>8

LEMMA LeafIsEntered ==
    ASSUME NEW lev, Sound(lev), CallFits, KernelTopIsFree, call.kind # "none",
           AtLeaf, tables' = SetLeaf, UNCHANGED <<vars, kernel_cr3, cr3, process_cr3, spaces>>,
           call.kind # "boot" => Translate(Root, call.v) = 0
    PROVE  LET t0 == Path(Root, call.v)[0]
               s0 == Slot(call.v, 0)
           IN  /\ Enters(lev, t0, s0, Entry(call.page, User), {})
               /\ lev[t0] = 0 /\ t0 # 0
               /\ call.kind # "boot" => tables[t0][s0].page = 0
               /\ call.kind = "boot" => Path(kernel_cr3, call.v)[0] # 0
  <1> DEFINE v  == call.v
             t0 == Path(Root, v)[0]
             s0 == Slot(v, 0)
             e  == Entry(call.page, User)
  <1>1. v < call.beyond /\ call.page # 0 /\ t0 # 0
    BY DEF AtLeaf
  <1>2. Root \in Tops /\ (phase # "late" => Root = kernel_cr3)
    BY RootIsATop
  <1>3. v \in Nat /\ Slot(v, 3) # SelfSlot /\ (call.kind = "boot" => v \in DirectMap)
    BY <1>1, CallsAddress
  <1>4. t0 \in DOMAIN tables /\ lev[t0] = 0 /\ s0 \in Slots
    <2>1. 0 \in 0..3
      OBVIOUS
    <2> QED
      BY <1>1, <1>2, <1>3, <2>1, PathIsLeveled, SlotIsASlot DEF Sound
  <1>5. e \in [page : Nat, user : BOOLEAN] /\ e.page = call.page
    <2>1. call.page \in Nat /\ User \in BOOLEAN
      BY DEF Sound, TablesInv, Typed, Call, User
    <2> QED
      BY <2>1 DEF Entry
  <1>6. phase = "late" <=> call.kind # "boot"
    BY DEF Sound, TablesInv
  <1>7. call.kind = "boot" => <<t0, s0>> \in Direct
    BY <1>2, <1>3, <1>6 DEF Direct
  <1>8. call.kind # "boot" => tables[t0][s0].page = 0
    BY <1>1 DEF Translate
  <1>9. t0 \notin Tops
    BY <1>4 DEF Sound, Leveled
  <1>10. HandedOut' = HandedOut /\ UNCHANGED <<phase, free_list_page_length>>
    BY DEF HandedOut, vars
  <1>11. call.kind # "boot" => e.page \in HandedOut /\ \A o \in Owners : PageOf(o) # e.page
    BY <1>1, <1>5 DEF CallFits
  <1>12. tables' = [tables EXCEPT ![t0][s0] = e]
    BY DEF SetLeaf
  <1>13. call.kind = "boot" => Path(kernel_cr3, v)[0] # 0
    BY <1>1, <1>2, <1>6
  <1> HIDE DEF t0, s0, e, v
  <1>14. tables' = [t \in DOMAIN tables \union {} |->
                      IF t \in {} THEN EmptyTable
                      ELSE IF t = t0 THEN [tables[t] EXCEPT ![s0] = e]
                      ELSE tables[t]]
    BY <1>12
  <1>15. Enters(lev, t0, s0, e, {})
    BY <1>1, <1>4, <1>5, <1>6, <1>7, <1>8, <1>9, <1>10, <1>11, <1>14 DEF Enters
  <1> QED
    BY <1>1, <1>4, <1>8, <1>13, <1>15 DEF t0, s0, e, v

\* The part of the kernel leads on if one of its addresses has a table of the last level.
LEMMA KernelPathIsThere ==
    ASSUME NEW v \in Nat, KernBase <= v, v < AddressEnd, Path(kernel_cr3, v)[0] # 0
    PROVE  KernelPartIsThere
  <1> DEFINE p == Path(kernel_cr3, v)
  <1>1. /\ \A l \in 0..2 : p[l] = IF p[l + 1] = 0 THEN 0 ELSE tables[p[l + 1]][Slot(v, l + 1)].page
        /\ p[3] = kernel_cr3
    BY PathSteps
  <1>2. Slot(v, 3) = KernelSlot
    BY FirstDigit
  <1>3. p[0] # 0
    OBVIOUS
  <1> HIDE DEF p
  <1>4. p[1] # 0
    <2>1. 0 \in 0..2 /\ 0 + 1 = 1
      OBVIOUS
    <2> QED
      BY <1>1, <1>3, <2>1
  <1>5. p[2] # 0
    <2>1. 1 \in 0..2 /\ 1 + 1 = 2
      OBVIOUS
    <2> QED
      BY <1>1, <1>4, <2>1
  <1>6. tables[p[3]][Slot(v, 3)].page # 0
    <2>1. 2 \in 0..2 /\ 2 + 1 = 3
      OBVIOUS
    <2> QED
      BY <1>1, <1>5, <2>1
  <1> QED
    BY <1>1, <1>2, <1>6 DEF KernelPartIsThere

\* The top's address is the only one that is mapped from the top on, and the top moves on.
LEMMA LeafKeepsTheTopFree ==
    ASSUME SpacesInv, Fits, page_walk_user_SetEntry,
           NEW lev, Sound(lev), NEW t0, NEW s0, NEW e, Enters(lev, t0, s0, e, {}),
           t0 = Path(Root, call.v)[0], s0 = Slot(call.v, 0)
    PROVE  KernelTopIsFree'
  <1>1. /\ call.v < call.beyond /\ call.page # 0 /\ Path(Root, call.v)[0] # 0
        /\ call.kind \notin {"none", "boot"}
        /\ top_virtual_address' = top_virtual_address + (IF MovesTop(call) THEN 1 ELSE 0)
        /\ kernel_cr3' = kernel_cr3 /\ phase' = phase
    BY DEF page_walk_user_SetEntry, Walking, AtLeaf, vars
  <1>2. phase = "late" /\ call.kind \in {"heap", "pml4", "segment", "stack"}
    <2>1. call.kind \in Kinds /\ phase \in {"smap", "early", "late"}
      BY DEF SpacesInv, TablesInv, Typed, Call, IInv, Counted, TypeOK
    <2>2. phase = "late"
      BY <1>1, <2>1 DEF SpacesInv, TablesInv, NoCall
    <2> QED
      BY <1>1, <2>1, <2>2 DEF Kinds
  <1>3. /\ KernelPartIsThere /\ top_virtual_address > KernBase
        /\ \A v \in AboveTop : Translate(kernel_cr3, v) = 0
    BY <1>2 DEF SpacesInv, KernelTopIsFree
  <1>4. /\ call.v \in 0..(AddressEnd - 1) /\ Slot(call.v, 3) # SelfSlot
        /\ call.kind \in {"heap", "pml4"} => call.v = top_virtual_address
        /\ call.kind \in {"segment", "stack"} => Slot(call.v, 3) # KernelSlot
    BY <1>1, CallsAddress DEF SpacesInv
  <1>5. KernelPartIsThere'
    BY <1>3, EntryKeepsKernelPart
  <1>6. top_virtual_address \in Nat /\ KernBase \in Nat /\ AddressEnd \in Nat
    BY PagingAssumption, Spans DEF SpacesInv, TablesInv, Typed
  <1>7. top_virtual_address' > KernBase /\ top_virtual_address' >= top_virtual_address
        /\ (call.kind \in {"heap", "pml4"} => top_virtual_address' > call.v)
    BY <1>1, <1>3, <1>4, <1>6 DEF MovesTop
  <1>8. ASSUME NEW v \in AboveTop' PROVE Translate(kernel_cr3, v)' = 0
    <2>1. /\ v \in top_virtual_address'..(AddressEnd - 1) /\ top_virtual_address' \in Int
      BY <1>1, <1>6, <1>8 DEF AboveTop
    <2>2. /\ v \in Nat /\ KernBase <= v /\ v < AddressEnd /\ v \in 0..(AddressEnd - 1)
          /\ v \in top_virtual_address..(AddressEnd - 1)
          /\ call.kind \in {"heap", "pml4"} => v # call.v
      <3> HIDE DEF AboveTop
      <3> QED
        BY <1>4, <1>6, <1>7, <2>1
    <2>3. Slot(v, 3) = KernelSlot /\ Slot(v, 3) # SelfSlot
      <3>1. Slot(v, 3) = KernelSlot
        BY <2>2, FirstDigit
      <3> QED
        BY <3>1, PagingAssumption DEF KernelSlot, SelfSlot
    <2>4. PICK k \in Tops : k = kernel_cr3
      BY DEF Sound, TablesInv, Tops, Roots
    <2>5. ~(Path(k, v)[0] = t0 /\ Slot(v, 0) = s0)
      <3> SUFFICES ASSUME Path(k, v)[0] = t0, Slot(v, 0) = s0 PROVE FALSE
        OBVIOUS
      <3>1. PICK r \in Tops : r = Root
        BY RootIsATop
      <3>2. \A l \in 1..3 : Slot(v, l) = Slot(call.v, l)
        <4>1. Path(k, v)[0] = Path(r, call.v)[0] /\ Path(k, v)[0] # 0
          BY <1>1, <3>1
        <4> QED
          BY <1>4, <2>2, <2>3, <3>1, <4>1, PathsOfLeaves DEF Sound
      <3>3. CASE call.kind \in {"heap", "pml4"}
        <4>1. \A l \in 0..3 : Slot(v, l) = Slot(call.v, l)
          <5>1. \A l \in 0..3 : l = 0 \/ l \in 1..3
            OBVIOUS
          <5> QED
            BY <3>2, <5>1
        <4>2. v = call.v
          BY <1>4, <2>2, <4>1, DigitsDetermine
        <4> QED
          BY <2>2, <3>3, <4>2
      <3>4. CASE call.kind \in {"segment", "stack"}
        <4>1. 3 \in 1..3
          OBVIOUS
        <4> QED
          BY <1>4, <2>3, <3>2, <3>4, <4>1
      <3> QED
        BY <1>2, <3>3, <3>4
    <2>6. Translate(k, v)' = Translate(k, v)
      BY <2>2, <2>3, <2>5, TranslationsGrow
    <2>7. Translate(kernel_cr3, v) = 0
      BY <1>3, <2>2 DEF AboveTop
    <2> QED
      BY <1>1, <2>4, <2>6, <2>7
  <1>9. \A v \in AboveTop' : Translate(kernel_cr3, v)' = 0
    BY <1>8
  <1> QED
    BY <1>5, <1>7, <1>9 DEF KernelTopIsFree

\* What all the steps that set an entry of the last level have in common.
LEMMA LeafKeepsTheRest ==
    ASSUME RegionsAreApart, SpacesInv, NEW lev, Sound(lev), NEW t0, NEW s0, NEW e, Enters(lev, t0, s0, e, {}),
           UNCHANGED <<vars, todo>>, top_virtual_address' \in Nat,
           call' \in Call, call'.kind = call.kind, KernelTopIsFree', CallFits'
    PROVE  SpacesInv'
  <1>1. TablesInv'
    <2>1. IInv'
      BY UnchangedKeepsFreeList DEF SpacesInv, TablesInv
    <2> QED
      BY <2>1, EntryKeepsTables
  <1>2. \E m : Leveled(m)'
    BY EntryKeepsLevels
  <1>3. TopsAreAlike'
    BY EntryKeepsTops
  <1>4. PagesAreOwned'
    BY EntryKeepsOwners
  <1>5. \E open : InOrder(open)'
    <2>1. PICK open : InOrder(open)
      BY DEF SpacesInv
    <2>2. InOrder(open)'
      BY <2>1, EntryKeepsOrder
    <2> QED
      BY <2>2
  <1> QED
    BY <1>1, <1>2, <1>3, <1>4, <1>5 DEF SpacesInv

\* The loop goes on to the next page.
LEMMA CallGoesOn ==
    ASSUME call \in Call, NEW page \in Nat, call' = [call EXCEPT !.v = @ + 1, !.page = page]
    PROVE  /\ call' \in Call /\ call'.kind = call.kind /\ call'.v = call.v + 1
           /\ call'.page = page /\ call'.beyond = call.beyond /\ call'.old_cr3 = call.old_cr3
  <1>1. call.v + 1 \in Nat
    BY DEF Call
  <1> QED
    BY <1>1 DEF Call

LEMMA SetEntryKeepsSpaces ==
    ASSUME RegionsAreApart, SpacesInv, Fits, page_walk_user_SetEntry
    PROVE  SpacesInv' /\ EntriesStay
  <1>1. /\ call.kind \notin {"none", "boot"} /\ AtLeaf /\ call.v < call.beyond
        /\ Translate(Root, call.v) = 0
        /\ tables' = SetLeaf
        /\ call' = [call EXCEPT !.v = @ + 1, !.page = 0]
        /\ top_virtual_address' = top_virtual_address + (IF MovesTop(call) THEN 1 ELSE 0)
        /\ UNCHANGED vars
        /\ UNCHANGED <<kernel_cr3, cr3, todo, process_cr3, spaces, files>>
    BY DEF page_walk_user_SetEntry, Walking, AtLeaf
  <1>2. kernel_cr3 # 0
    <2>1. 0 \notin DOMAIN tables
      BY TablesAreNumbers DEF SpacesInv
    <2> QED
      BY <1>1, <2>1 DEF SpacesInv, TablesInv, NoCall
  <1>3. PICK lev : Sound(lev)
    BY <1>2, SpacesAreSound
  <1>4. CallFits /\ KernelTopIsFree
    BY DEF SpacesInv
  <1>5. PICK t0, s0, e :
           /\ t0 = Path(Root, call.v)[0] /\ s0 = Slot(call.v, 0)
           /\ Enters(lev, t0, s0, e, {})
           /\ lev[t0] = 0 /\ tables[t0][s0].page = 0
    BY <1>1, <1>3, <1>4, LeafIsEntered
  <1>6. KernelTopIsFree'
    BY <1>3, <1>5, LeafKeepsTheTopFree
  <1>7. top_virtual_address \in Nat /\ call \in Call
    BY DEF SpacesInv, TablesInv, Typed
  <1>8. /\ call' \in Call /\ call'.kind = call.kind /\ call'.v = call.v + 1
        /\ call'.page = 0 /\ call'.beyond = call.beyond /\ call'.old_cr3 = call.old_cr3
    <2>1. call' = [call EXCEPT !.v = @ + 1, !.page = 0]
      BY <1>1
    <2> QED
      BY <1>7, <2>1, CallGoesOn
  <1>9. top_virtual_address' \in Nat
    BY <1>1, <1>7
  <1>10. CallFits'
    <2>1. call'.v <= call'.beyond
      BY <1>1, <1>7, <1>8 DEF Call
    <2>2. call'.kind \in {"heap", "pml4"} => call'.v = top_virtual_address'
      BY <1>1, <1>4, <1>7, <1>8 DEF CallFits, MovesTop
    <2>3. call'.kind \in {"segment", "stack"} =>
             cr3' = process_cr3' /\ call'.old_cr3 \in Tops' /\ call'.beyond <= UserEnd
      <3>1. Tops' = Tops
        BY <1>3, <1>5, TopsStay
      <3> QED
        BY <1>1, <1>4, <1>8, <3>1 DEF CallFits
    <2>4. call'.kind \notin {"none", "boot"} => todo' # << >> /\ todo'[1].op = call'.kind
      BY <1>1, <1>4, <1>8 DEF CallFits
    <2>5. call'.kind # "boot"
      BY <1>1, <1>8
    <2> QED
      BY <1>8, <2>1, <2>2, <2>3, <2>4, <2>5 DEF CallFits
  <1>11. SpacesInv'
    BY <1>1, <1>3, <1>5, <1>6, <1>8, <1>9, <1>10, LeafKeepsTheRest
  <1>12. EntriesStay
    BY <1>3, <1>5, EntryKeepsEntries
  <1> QED
    BY <1>11, <1>12

\* The loops of start(), before the kernel's tables are loaded.
LEMMA BootKeepsSpaces ==
    ASSUME RegionsAreApart, SpacesInv, Fits, map_all_kernel_pages
    PROVE  SpacesInv' /\ EntriesStay
  <1>1. call.kind = "boot"
    BY DEF map_all_kernel_pages
  <1>2. CASE AddTable(get_next_free_page)
    BY <1>1, <1>2, AddTableKeepsSpaces
  <1>3. CASE /\ AtLeaf
             /\ tables' = SetLeaf
             /\ call' = [call EXCEPT !.v = @ + 1, !.page = @ + 1]
             /\ UNCHANGED vars
             /\ UNCHANGED <<kernel_cr3, cr3, top_virtual_address, todo, process_cr3, spaces, files>>
    <2>1. phase # "late" /\ phase = "early" /\ kernel_cr3 # 0 /\ cr3 = 0
      BY <1>1 DEF SpacesInv, TablesInv, NoCall
    <2>2. PICK lev : Sound(lev)
      BY <2>1, SpacesAreSound
    <2>3. CallFits /\ KernelTopIsFree
      BY DEF SpacesInv
    <2>4. PICK t0, s0, e : Enters(lev, t0, s0, e, {}) /\ Path(kernel_cr3, call.v)[0] # 0
      BY <1>1, <1>3, <2>2, <2>3, LeafIsEntered
    <2>5. /\ call \in Call /\ top_virtual_address \in Nat
      BY DEF SpacesInv, TablesInv, Typed
    <2>6. /\ call' \in Call /\ call'.kind = call.kind /\ call'.v = call.v + 1
          /\ call'.page = call.page + 1 /\ call'.beyond = call.beyond
      <3>1. call' = [call EXCEPT !.v = @ + 1, !.page = call.page + 1]
        BY <1>3
      <3>2. call.page + 1 \in Nat
        BY <2>5 DEF Call
      <3> QED
        BY <2>5, <3>1, <3>2, CallGoesOn
    <2>7. call.v < call.beyond
      BY <1>3 DEF AtLeaf
    <2>8. KernelPartIsThere'
      <3>1. call.v \in DirectMap
        BY <1>1, <2>2, <2>3, <2>7, CallsAddress
      <3>2. call.v \in Nat /\ KernBase <= call.v /\ call.v < AddressEnd
        BY <3>1, DirectMapIsTheKernels DEF SpacesInv
      <3>3. KernelPartIsThere
        BY <2>4, <3>2, KernelPathIsThere
      <3> QED
        BY <2>2, <2>4, <3>3, EntryKeepsKernelPart
    <2>9. KernelTopIsFree'
      BY <1>3, <2>1 DEF KernelTopIsFree, vars
    <2>10. CallFits'
      <3>1. free_list_page_length' = free_list_page_length
        BY <1>3 DEF vars
      <3>2. /\ call.v \in Nat /\ call.beyond \in Nat /\ call.page \in Nat
            /\ KernBase \in Nat /\ Physbase \in Nat /\ VideoPage \in Nat
        BY <2>5, PagingAssumption DEF Call
      <3>3. call'.v <= call'.beyond /\ call'.page = call'.v - KernBase
        BY <1>1, <2>3, <2>6, <2>7, <3>2 DEF CallFits
      <3>4. \/ call.v >= KernBase + Physbase
               /\ call.beyond = KernBase + Physfree \div PAGESIZE + free_list_page_length + MapSlack + 1
            \/ call.v >= KernBase + VideoPage /\ call.beyond = KernBase + VideoPage + 2
        BY <1>1, <2>3 DEF CallFits
      <3>5. \/ call'.v >= KernBase + Physbase
               /\ call'.beyond = KernBase + Physfree \div PAGESIZE + free_list_page_length' + MapSlack + 1
            \/ call'.v >= KernBase + VideoPage /\ call'.beyond = KernBase + VideoPage + 2
        <4>1. /\ call.v >= KernBase + Physbase => call'.v >= KernBase + Physbase
              /\ call.v >= KernBase + VideoPage => call'.v >= KernBase + VideoPage
          BY <2>6, <3>2
        <4> QED
          BY <2>6, <3>1, <3>4, <4>1
      <3> QED
        BY <1>1, <2>6, <2>8, <3>3, <3>5 DEF CallFits
    <2>11. SpacesInv'
      BY <1>3, <2>2, <2>4, <2>5, <2>6, <2>9, <2>10, LeafKeepsTheRest
    <2> QED
      BY <2>1, <2>11 DEF EntriesStay
  <1> QED
    BY <1>2, <1>3 DEF map_all_kernel_pages

-----------------------------------------------------------------------------
(* Boot *)

\* With no table, there is nothing to keep.
EmptySpaces == TablesInv /\ phase # "late" /\ kernel_cr3 = 0

LEMMA EmptySpacesHold == EmptySpaces => SpacesInv
  <1> SUFFICES ASSUME EmptySpaces PROVE SpacesInv
    OBVIOUS
  <1>1. /\ TablesInv /\ phase # "late" /\ kernel_cr3 = 0
        /\ DOMAIN tables = {} /\ call = NoCall
        /\ cr3 = 0 /\ todo = << >> /\ process_cr3 = 0 /\ spaces = << >>
    BY DEF EmptySpaces, TablesInv
  <1>2. Tops = {} /\ Owners = {}
    BY <1>1 DEF Tops, Owners
  <1>3. \E lev : Leveled(lev)
    <2> DEFINE lev == [t \in {} |-> 0]
    <2>1. lev \in [DOMAIN tables -> 0..3]
      BY <1>1
    <2> HIDE DEF lev
    <2>2. Leveled(lev)
      BY <1>1, <1>2, <2>1 DEF Leveled
    <2> QED
      BY <2>2
  <1>4. PagesAreOwned
    BY <1>2 DEF PagesAreOwned
  <1>5. KernelTopIsFree
    BY <1>1 DEF KernelTopIsFree
  <1>6. CallFits
    BY <1>1 DEF CallFits, NoCall
  <1>7. \E open : InOrder(open)
    <2> DEFINE open == [k \in 1..1 |-> 0]
    <2>1. Open = 0 /\ Len(todo) = 0
      BY <1>1 DEF Open
    <2>2. open \in [1..(Len(todo) + 1) -> {0, 1}] /\ open[1] = 0
      BY <2>1
    <2> HIDE DEF open
    <2>3. InOrder(open)
      BY <2>1, <2>2 DEF InOrder
    <2> QED
      BY <2>3
  <1> QED
    BY <1>1, <1>3, <1>4, <1>5, <1>6, <1>7 DEF SpacesInv

LEMMA InitHasSpaces ==
    ASSUME RegionsAreApart, PagingInit
    PROVE  SpacesInv
  <1>1. IInv
    BY InitEstablishesIInv DEF PagingInit
  <1>2. /\ tables = << >> /\ kernel_cr3 = 0 /\ cr3 = 0 /\ top_virtual_address = 0 /\ todo = << >>
        /\ call = NoCall /\ process_cr3 = 0 /\ spaces = << >> /\ phase = "smap"
    BY DEF PagingInit, Init
  <1>3. NoCall \in Call /\ NoCall.kind = "none"
    BY DEF NoCall, Call, Kinds
  <1>4. DOMAIN tables = {}
    BY <1>2
  <1>5. Typed
    BY <1>2, <1>3, <1>4 DEF Typed
  <1>6. TablesInv
    BY <1>1, <1>2, <1>3, <1>4, <1>5 DEF TablesInv
  <1> QED
    BY <1>2, <1>6, EmptySpacesHold DEF EmptySpaces

LEMMA BuildFreeListKeepsSpaces ==
    ASSUME RegionsAreApart, SpacesInv, BuildFreeList
    PROVE  SpacesInv' /\ EntriesStay
  <1>1. /\ append_free_list \/ set_free_list_head
        /\ UNCHANGED <<tables, kernel_cr3, cr3, top_virtual_address, todo, call, process_cr3, spaces>>
    BY DEF BuildFreeList, pagingVars
  <1>2. phase = "smap" /\ phase' \in {"smap", "early"} /\ handed_out' = handed_out
    BY <1>1 DEF append_free_list, set_free_list_head
  <1>3. IInv'
    <2>1. Next
      BY <1>1 DEF Next
    <2> QED
      BY <2>1, NextKeepsIInv DEF SpacesInv, TablesInv
  <1>4. kernel_cr3 = 0
    BY <1>2 DEF SpacesInv, TablesInv
  <1>5. Typed'
    BY <1>1 DEF SpacesInv, TablesInv, Typed
  <1>6. HandedOut' = HandedOut
    BY <1>2 DEF HandedOut
  <1>7. TablesInv'
    BY <1>1, <1>2, <1>3, <1>4, <1>5, <1>6 DEF SpacesInv, TablesInv
  <1>8. EmptySpaces'
    BY <1>1, <1>2, <1>4, <1>7 DEF EmptySpaces
  <1>9. SpacesInv'
    BY <1>8, EmptySpacesHold, PTL
  <1> QED
    BY <1>1, <1>9, SameTablesStay

LEMMA ImageIsBelowPhysfree ==
    Physbase \in Nat /\ Physfree \div PAGESIZE \in Nat /\ Physbase <= Physfree \div PAGESIZE
  <1> DEFINE p == Physfree \div PAGESIZE
             r == Physfree % PAGESIZE
  <1>1. Physbase * PAGESIZE <= Physfree /\ Physbase \in Nat
    BY PagingAssumption
  <1>2. PAGESIZE \in Nat \ {0} /\ Physfree \in Nat
    BY SizesAssumption
  <1>3. Physfree = PAGESIZE * p + r /\ r \in 0..(PAGESIZE - 1) /\ p \in Nat
    BY <1>2
  <1> HIDE DEF p, r
  <1>4. p + 1 <= Physbase => PAGESIZE * (p + 1) <= PAGESIZE * Physbase
    BY <1>1, <1>2, <1>3
  <1>5. /\ PAGESIZE * (p + 1) = PAGESIZE * p + PAGESIZE /\ PAGESIZE * Physbase = Physbase * PAGESIZE
        /\ PAGESIZE * p \in Nat /\ Physbase * PAGESIZE \in Nat
    BY <1>1, <1>2, <1>3
  <1>6. Physbase <= p
    BY <1>1, <1>2, <1>3, <1>4, <1>5
  <1> QED
    BY <1>1, <1>3, <1>6 DEF p

\* A loop of start() that has ended has built the kernel's part.
LEMMA BootEnds ==
    ASSUME SpacesInv, call.kind = "boot", call.v = call.beyond
    PROVE  KernelPartIsThere
  <1>1. Physbase \in Nat /\ Physfree \div PAGESIZE \in Nat /\ Physbase <= Physfree \div PAGESIZE
    BY ImageIsBelowPhysfree
  <1>2. free_list_page_length \in Nat
    BY TypeFacts DEF SpacesInv, TablesInv, IInv, Counted
  <1>3. MapSlack \in Nat /\ KernBase \in Nat
    BY PagingAssumption
  <1>4. \/ /\ call.beyond = KernBase + Physfree \div PAGESIZE + free_list_page_length + MapSlack + 1
           /\ call.v > KernBase + Physbase => KernelPartIsThere
        \/ KernelPartIsThere
    BY DEF SpacesInv, CallFits
  <1>5. call.v \in Nat
    BY DEF SpacesInv, TablesInv, Typed, Call
  <1>6. call.beyond = KernBase + Physfree \div PAGESIZE + free_list_page_length + MapSlack + 1
           => call.v > KernBase + Physbase
    BY <1>1, <1>2, <1>3, <1>5
  <1> QED
    BY <1>4, <1>6

LEMMA CreateKernelTableKeepsSpaces ==
    ASSUME RegionsAreApart, SpacesInv, create_kernel_pml4
    PROVE  SpacesInv' /\ EntriesStay
  <1> DEFINE e == Entry(Fresh, FALSE)
             p == Physfree \div PAGESIZE
             n == free_list_page_length
  <1>1. /\ kernel_cr3 = 0 /\ get_next_free_page /\ kernel_cr3' = Fresh
        /\ tables' = [t \in {Fresh} |-> [EmptyTable EXCEPT ![SelfSlot] = e]]
        /\ UNCHANGED <<cr3, top_virtual_address, todo, process_cr3, spaces>>
    BY DEF create_kernel_pml4
  <1>2. phase = "early" /\ phase' = "early" /\ free_list_page_length' = n /\ handed_out' # handed_out
    <2>1. handed_out \in Seq(Nat)
      BY DEF SpacesInv, TablesInv, IInv, Counted, TypeOK
    <2>2. \A x : Append(handed_out, x) # handed_out
      <3> SUFFICES ASSUME NEW x, Append(handed_out, x) = handed_out PROVE FALSE
        OBVIOUS
      <3>1. Len(Append(handed_out, x)) = Len(handed_out) + 1
        BY <2>1
      <3> QED
        BY <2>1, <3>1
    <2> QED
      BY <1>1, <2>2 DEF get_next_free_page
  <1>3. /\ IInv' /\ Fresh \in Nat \ {0} /\ HandedOut' = HandedOut \union {Fresh}
    BY <1>1, <1>2, Allocates DEF SpacesInv, TablesInv
  <1>4. cr3 = 0 /\ todo = << >> /\ process_cr3 = 0 /\ spaces = << >> /\ DOMAIN tables = {}
    BY <1>1, <1>2 DEF SpacesInv, TablesInv
  <1>5. SelfSlot \in Slots /\ KernelSlot \in Slots /\ KernelSlot # SelfSlot
    BY PagingAssumption DEF SelfSlot, KernelSlot, Slots
  <1>6. /\ DOMAIN tables' = {Fresh}
        /\ tables'[Fresh][SelfSlot].page = Fresh
        /\ \A s \in Slots : s # SelfSlot => tables'[Fresh][s].page = 0
    BY <1>1, <1>5 DEF EmptyTable, NoEntry, Entry
  <1>7. /\ p \in Nat /\ n \in Nat /\ Physbase \in Nat /\ Physbase <= p /\ KernBase \in Nat /\ MapSlack \in Nat
    <2>1. n \in Nat
      BY TypeFacts DEF SpacesInv, TablesInv, IInv, Counted
    <2> QED
      BY <2>1, ImageIsBelowPhysfree, PagingAssumption
  <1>8. /\ call'.kind = "boot" /\ call'.v = KernBase + Physbase /\ call'.page = Physbase
        /\ call'.beyond = KernBase + p + n + MapSlack + 1 /\ call'.old_cr3 = cr3
        /\ call' = [kind |-> "boot", v |-> KernBase + Physbase,
                    beyond |-> KernBase + p + n + MapSlack + 1, page |-> Physbase, old_cr3 |-> cr3]
    BY <1>7 DEF create_kernel_pml4, Mapping
  <1> HIDE DEF p, n
  <1>9. call' \in Call
    <2>1. KernBase + Physbase \in Nat /\ KernBase + p + n + MapSlack + 1 \in Nat
      BY <1>7
    <2> QED
      BY <1>4, <1>7, <1>8, <2>1 DEF Call, Kinds
  <1>10. Tops' = {Fresh}
    <2>1. Roots' = {Fresh}
      BY <1>1, <1>4 DEF Roots
    <2> QED
      BY <1>6, <2>1 DEF Tops
  <1>11. Typed'
    <2>1. EmptyTable \in Table /\ e \in [page : Nat, user : BOOLEAN]
      BY <1>3 DEF EmptyTable, NoEntry, Table, Entry
    <2>2. [EmptyTable EXCEPT ![SelfSlot] = e] \in Table
      BY <1>5, <2>1 DEF Table
    <2>3. \A t \in DOMAIN tables' : tables'[t] \in Table
      BY <1>1, <2>2
    <2> QED
      BY <1>1, <1>3, <1>9, <2>3 DEF SpacesInv, TablesInv, Typed
  <1>12. TablesInv'
    BY <1>1, <1>2, <1>3, <1>4, <1>6, <1>8, <1>11 DEF TablesInv
  <1>13. \E lev : Leveled(lev)'
    <2>1. PICK lev : lev = [t \in {Fresh} |-> 3]
      OBVIOUS
    <2>2. lev \in [DOMAIN tables' -> 0..3] /\ lev[Fresh] = 3
      BY <1>6, <2>1
    <2>3. \A t \in DOMAIN tables', s \in Slots :
             ~(tables'[t][s].page # 0 /\ ~(t \in Tops' /\ s = SelfSlot))
      BY <1>6, <1>10
    <2>4. Leveled(lev)'
      BY <1>6, <1>10, <2>2, <2>3 DEF Leveled, Down
    <2> QED
      BY <2>4
  <1>14. TopsAreAlike'
    <2>1. Len(spaces') = 0
      BY <1>1, <1>4
    <2>2. \A r \in Tops' : r = kernel_cr3' /\ tables'[r][SelfSlot].page = r
      BY <1>1, <1>6, <1>10
    <2> QED
      BY <1>2, <2>1, <2>2 DEF TopsAreAlike
  <1>15. PagesAreOwned'
    <2>1. Owners' = {}
      <3> SUFFICES ASSUME NEW o \in Owners' PROVE FALSE
        OBVIOUS
      <3>1. o[1] = Fresh /\ o[2] \in Slots /\ tables'[Fresh][o[2]].page # 0
        BY <1>6 DEF Owners
      <3>2. o[2] = SelfSlot
        BY <1>6, <3>1
      <3>3. Fresh \in Roots'
        BY <1>1 DEF Roots
      <3> QED
        BY <3>1, <3>2, <3>3 DEF Owners
    <2> QED
      BY <2>1 DEF PagesAreOwned
  <1>16. KernelTopIsFree'
    BY <1>2 DEF KernelTopIsFree
  <1>17. CallFits'
    <2>1. /\ call'.v <= call'.beyond /\ call'.page = call'.v - KernBase
          /\ call'.v >= KernBase + Physbase /\ ~(call'.v > KernBase + Physbase)
      BY <1>7, <1>8
    <2>2. call'.beyond = KernBase + Physfree \div PAGESIZE + free_list_page_length' + MapSlack + 1
      BY <1>2, <1>8 DEF p
    <2> QED
      BY <1>8, <2>1, <2>2 DEF CallFits
  <1>18. \E open : InOrder(open)'
    <2>1. PICK open : InOrder(open)
      BY DEF SpacesInv
    <2>2. Open = 0
      BY <1>4 DEF Open
    <2>3. Open' = 0
      BY <1>1, <1>3, <1>4, <1>6 DEF Open
    <2>4. InOrder(open)'
      BY <1>1, <2>1, <2>2, <2>3 DEF InOrder
    <2> QED
      BY <2>4
  <1>19. EntriesStay
    BY <1>4 DEF EntriesStay
  <1> QED
    BY <1>12, <1>13, <1>14, <1>15, <1>16, <1>17, <1>18, <1>19 DEF SpacesInv

\* Steps that leave the tables, the roots and the kernel's part as they are.
LEMMA TablesKeepSpaces ==
    ASSUME SpacesInv, kernel_cr3 # 0, TablesInv', Tops' = Tops,
           UNCHANGED <<phase, free_list_page_length, tables, kernel_cr3, top_virtual_address>>,
           HandedOut \subseteq HandedOut',
           \A i \in 1..Len(spaces') : spaces'[i].cr3 \in DOMAIN tables,
           phase = "late" => cr3' \in Tops,
           CallFits', \E open : InOrder(open)'
    PROVE  SpacesInv' /\ EntriesStay
  <1>1. \E lev : Leveled(lev)'
    BY LevelsStay DEF SpacesInv
  <1>2. TopsAreAlike'
    BY DEF SpacesInv, TopsAreAlike
  <1>3. PagesAreOwned'
    BY OwnersStay DEF SpacesInv
  <1>4. KernelTopIsFree'
    BY PlacesStay DEF SpacesInv, KernelTopIsFree, AboveTop
  <1> QED
    BY <1>1, <1>2, <1>3, <1>4, SameTablesStay DEF SpacesInv

LEMMA VideoKeepsSpaces ==
    ASSUME RegionsAreApart, SpacesInv, map_video_memory
    PROVE  SpacesInv' /\ EntriesStay
  <1>1. /\ call.kind = "boot" /\ call.v = call.beyond /\ UNCHANGED vars
        /\ UNCHANGED <<tables, kernel_cr3, cr3, top_virtual_address, todo, process_cr3, spaces>>
    BY DEF map_video_memory
  <1>2. KernBase \in Nat /\ VideoPage \in Nat
    BY PagingAssumption
  <1>3. cr3 \in Nat /\ kernel_cr3 # 0
    BY <1>1 DEF SpacesInv, TablesInv, Typed, NoCall
  <1>4. /\ call'.kind = "boot" /\ call'.v = KernBase + VideoPage /\ call'.page = VideoPage
        /\ call'.beyond = KernBase + VideoPage + 2
        /\ call' \in Call
    <2>1. call' = [kind |-> "boot", v |-> KernBase + VideoPage, beyond |-> KernBase + VideoPage + 2,
                   page |-> VideoPage, old_cr3 |-> cr3]
      BY DEF map_video_memory, Mapping
    <2>2. KernBase + VideoPage \in Nat /\ KernBase + VideoPage + 2 \in Nat
      BY <1>2
    <2> QED
      BY <1>2, <1>3, <2>1, <2>2 DEF Call, Kinds
  <1>5. UNCHANGED <<phase, free_list_page_length>> /\ HandedOut' = HandedOut /\ IInv'
    BY <1>1, UnchangedKeepsFreeList DEF vars, SpacesInv, TablesInv
  <1>6. Tops' = Tops /\ Roots' = Roots
    BY <1>1 DEF Tops, Roots
  <1>7. Typed'
    BY <1>1, <1>4 DEF SpacesInv, TablesInv, Typed
  <1>8. TablesInv'
    <2>1. /\ phase = "early" /\ cr3 = 0 /\ todo = << >> /\ process_cr3 = 0 /\ spaces = << >>
          /\ kernel_cr3 \in DOMAIN tables /\ DOMAIN tables \subseteq HandedOut
      BY <1>1, <1>3 DEF SpacesInv, TablesInv
    <2> QED
      BY <1>1, <1>3, <1>4, <1>5, <1>7, <2>1 DEF TablesInv
  <1>9. CallFits'
    <2>1. KernelPartIsThere'
      BY <1>1, BootEnds DEF KernelPartIsThere
    <2>2. call'.v <= call'.beyond /\ call'.page = call'.v - KernBase /\ call'.v >= KernBase + VideoPage
      BY <1>2, <1>4
    <2> QED
      BY <1>4, <2>1, <2>2 DEF CallFits
  <1>10. \E open : InOrder(open)'
    BY <1>1, <1>6 DEF SpacesInv, InOrder, Open
  <1>11. \A i \in 1..Len(spaces') : spaces'[i].cr3 \in DOMAIN tables
    BY <1>1, <1>3 DEF SpacesInv, TopsAreAlike
  <1>12. phase = "late" => cr3' \in Tops
    BY <1>1 DEF SpacesInv, TablesInv
  <1> QED
    BY <1>1, <1>3, <1>5, <1>6, <1>8, <1>9, <1>10, <1>11, <1>12, TablesKeepSpaces

\* Before the kernel's tables are loaded, only the direct map is entered in them.
LEMMA OnlyTheDirectMapIsThere ==
    ASSUME SpacesInv, Fits, phase # "late", kernel_cr3 # 0, NEW v \in 0..(AddressEnd - 1),
           v >= KernBase + Physfree \div PAGESIZE + free_list_page_length + TopSlack
    PROVE  Translate(kernel_cr3, v) = 0
  <1> DEFINE p == Path(kernel_cr3, v)[0]
             s == Slot(v, 0)
  <1>1. PICK lev : Sound(lev)
    BY SpacesAreSound
  <1>2. kernel_cr3 \in Tops
    BY <1>1 DEF Sound, TablesInv, Tops, Roots
  <1>3. v \in Nat /\ v < AddressEnd /\ KernBase <= v
    <2>1. free_list_page_length \in Nat
      BY TypeFacts DEF SpacesInv, TablesInv, IInv, Counted
    <2>2. Physfree \div PAGESIZE \in Nat /\ TopSlack \in Nat /\ KernBase \in Nat /\ AddressEnd \in Nat
      BY ImageIsBelowPhysfree, PagingAssumption, Spans
    <2> QED
      BY <2>1, <2>2
  <1>4. Slot(v, 3) # SelfSlot
    <2>1. Slot(v, 3) = KernelSlot
      BY <1>3, FirstDigit
    <2> QED
      BY <2>1, PagingAssumption DEF KernelSlot, SelfSlot
  <1>5. SUFFICES ASSUME p # 0, tables[p][s].page # 0 PROVE FALSE
    BY DEF Translate
  <1>6. p \in DOMAIN tables /\ lev[p] = 0 /\ s \in Slots
    <2>1. 0 \in 0..3
      OBVIOUS
    <2> QED
      BY <1>1, <1>2, <1>3, <1>4, <1>5, <2>1, PathIsLeveled, SlotIsASlot DEF Sound
  <1>7. <<p, s>> \in Direct
    BY <1>1, <1>5, <1>6 DEF Sound, Leveled
  <1>8. PICK w \in DirectMap : p = Path(kernel_cr3, w)[0] /\ s = Slot(w, 0)
    BY <1>7 DEF Direct
  <1>9. /\ w \in Nat /\ w < AddressEnd /\ Slot(w, 3) # SelfSlot
        /\ w < KernBase + Physfree \div PAGESIZE + free_list_page_length + TopSlack
    BY <1>8, DirectMapIsTheKernels DEF SpacesInv
  <1>10. \A l \in 1..3 : Slot(v, l) = Slot(w, l)
    <2>1. Path(kernel_cr3, v)[0] = Path(kernel_cr3, w)[0] /\ Path(kernel_cr3, v)[0] # 0
      BY <1>5, <1>8
    <2> QED
      BY <1>1, <1>2, <1>3, <1>4, <1>9, <2>1, PathsOfLeaves DEF Sound
  <1>11. \A l \in 0..3 : Slot(v, l) = Slot(w, l)
    <2>1. \A l \in 0..3 : l = 0 \/ l \in 1..3
      OBVIOUS
    <2> QED
      BY <1>8, <1>10, <2>1
  <1>12. v = w
    <2>1. w \in 0..(AddressEnd - 1)
      BY <1>9, Spans
    <2> QED
      BY <1>11, <2>1, DigitsDetermine
  <1>13. free_list_page_length \in Nat
    BY TypeFacts DEF SpacesInv, TablesInv, IInv, Counted
  <1> QED
    BY <1>3, <1>9, <1>12, <1>13, ImageIsBelowPhysfree, PagingAssumption

LEMMA TasksAre ==
    /\ Find \in Task /\ Pml4 \in Task /\ Stack \in Task
    /\ \A n \in Nat : Heap(n) \in Task
    /\ \A b \in Files : Done(b) \in Task
  <1>1. NoVma \in Vma
    BY DEF NoVma, Vma
  <1>2. StackPage \in Nat
    BY PagingAssumption
  <1> QED
    BY <1>1, <1>2 DEF Find, Pml4, Stack, Heap, Done, ToDo, Task

LEMMA OneBefore ==
    ASSUME NEW T, NEW a \in T, NEW s \in Seq(T)
    PROVE  /\ << a >> \o s \in Seq(T) /\ Len(<< a >> \o s) = Len(s) + 1
           /\ (<< a >> \o s)[1] = a
           /\ \A i \in 1..Len(s) : (<< a >> \o s)[i + 1] = s[i]
  OBVIOUS

LEMMA LoadKeepsSpaces ==
    ASSUME RegionsAreApart, SpacesInv, Fits, LoadKernelTables
    PROVE  SpacesInv' /\ EntriesStay
  <1> DEFINE p == Physfree \div PAGESIZE
             n == free_list_page_length
             dummy == create_dummy_process
  <1>1. /\ call.kind = "boot" /\ call.v = call.beyond /\ set_new_free_list_head
        /\ cr3' = kernel_cr3 /\ top_virtual_address' = KernBase + p + n + TopSlack
        /\ call' = NoCall /\ todo' = << Find >> \o dummy
        /\ UNCHANGED <<tables, kernel_cr3, process_cr3, spaces>>
    BY DEF LoadKernelTables
  <1>2. /\ phase = "early" /\ phase' = "late" /\ free_list_page_length' = n /\ handed_out' = handed_out
    BY <1>1 DEF set_new_free_list_head
  <1>3. IInv' /\ HandedOut' = HandedOut
    <2>1. Next
      BY <1>1 DEF Next
    <2> QED
      BY <1>2, <2>1, NextKeepsIInv DEF SpacesInv, TablesInv, HandedOut
  <1>4. /\ cr3 = 0 /\ todo = << >> /\ process_cr3 = 0 /\ spaces = << >>
        /\ kernel_cr3 # 0 /\ kernel_cr3 \in DOMAIN tables /\ DOMAIN tables \subseteq HandedOut
    BY <1>1, <1>2 DEF SpacesInv, TablesInv, NoCall
  <1>5. /\ dummy \in Seq(Task) /\ Len(dummy) = 3
        /\ dummy[1] = Heap(PcbPages) /\ dummy[2] = Pml4 /\ dummy[3] = Done(<< >>)
    <2>1. << >> \in Files /\ PcbPages \in Nat
      BY PagingAssumption DEF Files
    <2>2. Heap(PcbPages) \in Task /\ Pml4 \in Task /\ Done(<< >>) \in Task
      BY <2>1, TasksAre
    <2> QED
      BY <2>2 DEF create_dummy_process
  <1> HIDE DEF dummy
  <1>6. /\ todo' \in Seq(Task) /\ Len(todo') = 4 /\ todo'[1] = Find
        /\ todo'[2] = dummy[1] /\ todo'[3] = dummy[2] /\ todo'[4] = dummy[3]
    <2>1. Find \in Task
      BY TasksAre
    <2>2. /\ todo' \in Seq(Task) /\ Len(todo') = 3 + 1 /\ todo'[1] = Find
          /\ \A i \in 1..3 : todo'[i + 1] = dummy[i]
      BY <1>1, <1>5, <2>1, OneBefore
    <2>3. 1 \in 1..3 /\ 2 \in 1..3 /\ 3 \in 1..3 /\ 1 + 1 = 2 /\ 2 + 1 = 3 /\ 3 + 1 = 4
      OBVIOUS
    <2> QED
      BY <2>2, <2>3
  <1>7. n \in Nat /\ p \in Nat /\ KernBase \in Nat /\ TopSlack \in Nat /\ Physbase \in Nat /\ Physbase <= p
        /\ MapSlack \in Nat /\ MapSlack < TopSlack
    <2>1. n \in Nat
      BY TypeFacts DEF SpacesInv, TablesInv, IInv, Counted
    <2> QED
      BY <2>1, ImageIsBelowPhysfree, PagingAssumption
  <1> HIDE DEF p, n
  <1>8. top_virtual_address' \in Nat /\ top_virtual_address' > KernBase
    BY <1>1, <1>7
  <1>9. Typed'
    <2>1. NoCall \in Call
      BY DEF NoCall, Call, Kinds
    <2> QED
      BY <1>1, <1>6, <1>8, <2>1 DEF SpacesInv, TablesInv, Typed
  <1>10. TablesInv'
    <2>1. NoCall.kind = "none"
      BY DEF NoCall
    <2> QED
      BY <1>1, <1>2, <1>3, <1>4, <1>9, <2>1 DEF TablesInv
  <1>11. Tops' = Tops /\ Roots' = Roots /\ kernel_cr3 \in Tops
    BY <1>1, <1>4 DEF Tops, Roots
  <1>12. UNCHANGED <<tables, kernel_cr3, free_list_page_length>>
    BY <1>1, <1>2 DEF n
  <1>13. \E lev : Leveled(lev)'
    BY <1>2, <1>11, <1>12, LevelsStay DEF SpacesInv
  <1>14. TopsAreAlike'
    <2>1. TopsAreAlike
      BY <1>4 DEF SpacesInv
    <2> QED
      BY <1>1, <1>11, <2>1 DEF TopsAreAlike
  <1>15. PagesAreOwned'
    BY <1>3, <1>11, <1>12, OwnersStay DEF SpacesInv
  <1>16. KernelTopIsFree'
    <2>1. KernelPartIsThere'
      BY <1>1, BootEnds DEF KernelPartIsThere
    <2>2. ASSUME NEW v \in AboveTop' PROVE Translate(kernel_cr3, v)' = 0
      <3>1. v \in 0..(AddressEnd - 1) /\ v >= KernBase + p + n + TopSlack
        <4>1. v \in top_virtual_address'..(AddressEnd - 1)
          BY <2>2 DEF AboveTop
        <4>2. AddressEnd \in Nat
          BY Spans
        <4> QED
          BY <1>1, <1>8, <4>1, <4>2
      <3>2. Translate(kernel_cr3, v) = 0
        BY <1>2, <1>4, <3>1, OnlyTheDirectMapIsThere DEF p, n
      <3>3. Translate(kernel_cr3, v)' = Translate(kernel_cr3, v)
        BY <1>11, <1>12, PlacesStay
      <3> QED
        BY <3>2, <3>3
    <2>3. \A v \in AboveTop' : Translate(kernel_cr3, v)' = 0
      BY <2>2
    <2> QED
      BY <1>8, <2>1, <2>3 DEF KernelTopIsFree
  <1>17. CallFits'
    BY <1>1 DEF CallFits, NoCall
  <1>18. \E open : InOrder(open)'
    <2>1. PICK open : open = [k \in 1..5 |-> IF k = 4 THEN 1 ELSE 0]
      OBVIOUS
    <2>2. Len(todo') = 4 /\ todo'[1].op = "get_elf" /\ todo'[2].op = "heap"
          /\ todo'[3].op = "pml4" /\ todo'[3].pages = 1 /\ todo'[4].op = "done"
      BY <1>5, <1>6 DEF Find, Pml4, Heap, Done, ToDo
    <2>3. open[1] = 0 /\ open[2] = 0 /\ open[3] = 0 /\ open[4] = 1 /\ open[5] = 0
      BY <2>1
    <2>4. \A k \in 1..4 : k = 1 \/ k = 2 \/ k = 3 \/ k = 4
      OBVIOUS
    <2>5. Open' = 0
      <3>1. process_cr3' \notin DOMAIN tables'
        BY <1>1, <1>4, TablesAreNumbers DEF SpacesInv
      <3> QED
        BY <3>1 DEF Open
    <2>6. open \in [1..5 -> {0, 1}]
      BY <2>1
    <2>7. 4 + 1 = 5 /\ 1 + 1 = 2 /\ 2 + 1 = 3 /\ 3 + 1 = 4
      OBVIOUS
    <2>8. \A k \in 1..Len(todo') :
            /\ todo'[k].op = "get_elf" => open[k] = 0 /\ open[k + 1] = 0
            /\ todo'[k].op = "heap" => open[k] = open[k + 1]
            /\ todo'[k].op = "pml4" => open[k] = 0 /\ open[k + 1] = 1 /\ todo'[k].pages = 1
            /\ todo'[k].op \in {"segment", "stack"} =>
                /\ open[k] = 1 /\ open[k + 1] = 1
                /\ todo'[k].start + todo'[k].pages <= UserEnd
            /\ todo'[k].op = "done" => open[k] = 1 /\ open[k + 1] = 0
      BY <2>2, <2>3, <2>4, <2>7
    <2>9. InOrder(open)'
      BY <2>2, <2>3, <2>5, <2>6, <2>7, <2>8 DEF InOrder
    <2> QED
      BY <2>9
  <1>19. EntriesStay
    BY <1>4 DEF EntriesStay
  <1> QED
    BY <1>10, <1>13, <1>14, <1>15, <1>16, <1>17, <1>18, <1>19 DEF SpacesInv

-----------------------------------------------------------------------------
(* What is to do *)

LEMMA WhileToDo ==
    ASSUME SpacesInv, todo # << >>
    PROVE  /\ phase = "late" /\ kernel_cr3 # 0 /\ cr3 \in Tops /\ kernel_cr3 \in DOMAIN tables
           /\ Len(todo) \in Nat \ {0} /\ todo[1] \in Task
  <1>1. phase = "late" /\ kernel_cr3 \in DOMAIN tables
    BY DEF SpacesInv, TablesInv
  <1>2. kernel_cr3 # 0
    BY <1>1, TablesAreNumbers DEF SpacesInv
  <1>3. cr3 \in Tops
    BY <1>1, <1>2 DEF SpacesInv, TopsAreAlike
  <1>4. todo \in Seq(Task)
    BY DEF SpacesInv, TablesInv, Typed
  <1>5. Len(todo) \in Nat \ {0} /\ todo[1] \in Task
    BY <1>4
  <1> QED
    BY <1>1, <1>2, <1>3, <1>5

LEMMA OpenMeans ==
    /\ Open \in {0, 1}
    /\ Open = 1 => process_cr3 \in Tops /\ process_cr3 \in DOMAIN tables /\ process_cr3 \notin Roots
    /\ Open = 0 => process_cr3 \in Roots \/ process_cr3 \notin DOMAIN tables
  BY DEF Open, Tops

LEMMA FirstInOrder ==
    ASSUME SpacesInv, todo # << >>
    PROVE  /\ todo[1].op \in {"get_elf", "pml4"} => Open = 0
           /\ todo[1].op \in {"segment", "stack", "done"} => Open = 1
           /\ todo[1].op = "pml4" => todo[1].pages = 1
           /\ todo[1].op \in {"segment", "stack"} => todo[1].start + todo[1].pages <= UserEnd
  <1>1. PICK open : InOrder(open)
    BY DEF SpacesInv
  <1>2. 1 \in 1..Len(todo)
    BY WhileToDo
  <1> QED
    BY <1>1, <1>2 DEF InOrder

\* The first thing to do has been done.
LEMMA TaskIsDone ==
    ASSUME SpacesInv, todo # << >>, todo' = Tail(todo),
           todo[1].op = "heap" => Open' = Open,
           todo[1].op \in {"pml4", "segment", "stack"} => Open' = 1,
           todo[1].op \in {"done", "get_elf"} => Open' = 0
    PROVE  todo' \in Seq(Task) /\ \E open : InOrder(open)'
  <1> DEFINE n == Len(todo)
  <1>1. PICK o : InOrder(o)
    BY DEF SpacesInv
  <1>2. todo \in Seq(Task) /\ n \in Nat \ {0} /\ todo[1] \in Task
    BY WhileToDo DEF SpacesInv, TablesInv, Typed
  <1>3. /\ todo' \in Seq(Task) /\ Len(todo') = n - 1
        /\ \A k \in 1..(n - 1) : todo'[k] = todo[k + 1]
    BY <1>2
  <1>4. PICK open : open = [k \in 1..n |-> o[k + 1]]
    OBVIOUS
  <1>5. todo[1].op \in {"get_elf", "heap", "pml4", "segment", "stack", "done"}
    BY <1>2 DEF Task
  <1>6. /\ o \in [1..(n + 1) -> {0, 1}] /\ o[1] = Open /\ o[n + 1] = 0
        /\ \A k \in 1..n :
              /\ todo[k].op = "get_elf" => o[k] = 0 /\ o[k + 1] = 0
              /\ todo[k].op = "heap" => o[k] = o[k + 1]
              /\ todo[k].op = "pml4" => o[k] = 0 /\ o[k + 1] = 1 /\ todo[k].pages = 1
              /\ todo[k].op \in {"segment", "stack"} =>
                    /\ o[k] = 1 /\ o[k + 1] = 1
                    /\ todo[k].start + todo[k].pages <= UserEnd
              /\ todo[k].op = "done" => o[k] = 1 /\ o[k + 1] = 0
    BY <1>1 DEF InOrder
  <1> HIDE DEF n
  <1>7. Open' = o[2]
    <2>1. 1 \in 1..n /\ 1 + 1 = 2
      BY <1>2
    <2> QED
      BY <1>5, <1>6, <2>1
  <1>8. open \in [1..(Len(todo') + 1) -> {0, 1}]
    <2>1. \A k \in 1..n : k + 1 \in 1..(n + 1)
      BY <1>2
    <2>2. \A k \in 1..n : o[k + 1] \in {0, 1}
      BY <1>6, <2>1
    <2>3. Len(todo') + 1 = n
      BY <1>2, <1>3
    <2> QED
      BY <1>4, <2>2, <2>3
  <1>9. open[1] = Open' /\ open[Len(todo') + 1] = 0
    <2>1. 1 \in 1..n /\ n \in 1..n /\ Len(todo') + 1 = n /\ 1 + 1 = 2
      BY <1>2, <1>3
    <2> QED
      BY <1>4, <1>6, <1>7, <2>1
  <1>10. ASSUME NEW k \in 1..Len(todo')
         PROVE  /\ todo'[k].op = "get_elf" => open[k] = 0 /\ open[k + 1] = 0
                /\ todo'[k].op = "heap" => open[k] = open[k + 1]
                /\ todo'[k].op = "pml4" => open[k] = 0 /\ open[k + 1] = 1 /\ todo'[k].pages = 1
                /\ todo'[k].op \in {"segment", "stack"} =>
                      /\ open[k] = 1 /\ open[k + 1] = 1
                      /\ todo'[k].start + todo'[k].pages <= UserEnd
                /\ todo'[k].op = "done" => open[k] = 1 /\ open[k + 1] = 0
    <2>1. k \in 1..n /\ k + 1 \in 1..n /\ k \in 1..(n - 1)
      BY <1>2, <1>3
    <2>2. todo'[k] = todo[k + 1] /\ open[k] = o[k + 1] /\ open[k + 1] = o[(k + 1) + 1]
      BY <1>3, <1>4, <2>1
    <2> QED
      BY <1>6, <2>1, <2>2
  <1>11. InOrder(open)'
    BY <1>8, <1>9, <1>10 DEF InOrder
  <1> QED
    BY <1>3, <1>11

-----------------------------------------------------------------------------
(* kmalloc *)

LEMMA KmallocUserKeepsSpaces ==
    ASSUME RegionsAreApart, SpacesInv, kmalloc_user
    PROVE  SpacesInv' /\ EntriesStay
  <1>1. /\ todo # << >> /\ todo[1].op = "heap" /\ UNCHANGED vars
        /\ UNCHANGED <<tables, kernel_cr3, cr3, top_virtual_address, todo, process_cr3, spaces>>
    BY DEF kmalloc_user, Reaches
  <1>2. /\ phase = "late" /\ kernel_cr3 # 0 /\ cr3 \in Tops /\ kernel_cr3 \in DOMAIN tables
        /\ todo[1] \in Task
    BY <1>1, WhileToDo
  <1>3. cr3 \in Nat /\ top_virtual_address \in Nat /\ todo[1].pages \in Nat
    <2>1. todo[1].pages \in Nat
      BY <1>1, <1>2 DEF Task
    <2> QED
      BY <2>1 DEF SpacesInv, TablesInv, Typed
  <1>4. /\ call'.kind = "heap" /\ call'.v = top_virtual_address /\ call'.page = 0
        /\ call'.beyond = top_virtual_address + todo[1].pages /\ call' \in Call
    <2>1. call' = [kind |-> "heap", v |-> top_virtual_address,
                   beyond |-> top_virtual_address + todo[1].pages, page |-> 0, old_cr3 |-> cr3]
      BY DEF kmalloc_user, Mapping
    <2>2. top_virtual_address + todo[1].pages \in Nat
      BY <1>3
    <2> QED
      BY <1>3, <2>1, <2>2 DEF Call, Kinds
  <1>5. UNCHANGED <<phase, free_list_page_length>> /\ HandedOut' = HandedOut /\ IInv'
    BY <1>1, UnchangedKeepsFreeList DEF vars, SpacesInv, TablesInv
  <1>6. Tops' = Tops /\ Roots' = Roots
    BY <1>1 DEF Tops, Roots
  <1>7. TablesInv'
    <2>1. Typed'
      BY <1>1, <1>4 DEF SpacesInv, TablesInv, Typed
    <2> QED
      BY <1>1, <1>2, <1>4, <1>5, <2>1 DEF SpacesInv, TablesInv
  <1>8. CallFits'
    <2>1. call'.v <= call'.beyond
      BY <1>3, <1>4
    <2> QED
      BY <1>1, <1>4, <2>1 DEF CallFits
  <1>9. \E open : InOrder(open)'
    BY <1>1, <1>6 DEF SpacesInv, InOrder, Open
  <1>10. \A i \in 1..Len(spaces') : spaces'[i].cr3 \in DOMAIN tables
    BY <1>1, <1>2 DEF SpacesInv, TopsAreAlike
  <1> QED
    BY <1>1, <1>2, <1>5, <1>6, <1>7, <1>8, <1>9, <1>10, TablesKeepSpaces

LEMMA KmallocTopKeepsSpaces ==
    ASSUME RegionsAreApart, SpacesInv, kmalloc_top_virtual_address_user
    PROVE  SpacesInv' /\ EntriesStay
  <1>1. /\ todo # << >> /\ todo[1].op \in {"segment", "stack"} /\ UNCHANGED vars
        /\ cr3' = process_cr3
        /\ UNCHANGED <<tables, kernel_cr3, top_virtual_address, todo, process_cr3, spaces>>
    BY DEF kmalloc_top_virtual_address_user, Reaches
  <1>2. /\ phase = "late" /\ kernel_cr3 # 0 /\ cr3 \in Tops /\ kernel_cr3 \in DOMAIN tables
        /\ todo[1] \in Task
    BY <1>1, WhileToDo
  <1>3. cr3 \in Nat /\ todo[1].start \in Nat /\ todo[1].pages \in Nat
    <2>1. todo[1].start \in Nat /\ todo[1].pages \in Nat
      BY <1>1, <1>2 DEF Task
    <2> QED
      BY <2>1 DEF SpacesInv, TablesInv, Typed
  <1>4. process_cr3 \in Tops /\ todo[1].start + todo[1].pages <= UserEnd
    BY <1>1, FirstInOrder, OpenMeans
  <1>5. /\ call'.kind = todo[1].op /\ call'.v = todo[1].start /\ call'.page = 0
        /\ call'.beyond = todo[1].start + todo[1].pages /\ call'.old_cr3 = cr3 /\ call' \in Call
    <2>1. call' = [kind |-> todo[1].op, v |-> todo[1].start,
                   beyond |-> todo[1].start + todo[1].pages, page |-> 0, old_cr3 |-> cr3]
      BY DEF kmalloc_top_virtual_address_user, Mapping
    <2>2. todo[1].start + todo[1].pages \in Nat
      BY <1>3
    <2> QED
      BY <1>1, <1>3, <2>1, <2>2 DEF Call, Kinds
  <1>6. UNCHANGED <<phase, free_list_page_length>> /\ HandedOut' = HandedOut /\ IInv'
    BY <1>1, UnchangedKeepsFreeList DEF vars, SpacesInv, TablesInv
  <1>7. Tops' = Tops /\ Roots' = Roots
    BY <1>1 DEF Tops, Roots
  <1>8. TablesInv'
    <2>1. process_cr3 \in Nat
      BY <1>4, TablesAreNumbers DEF Tops, SpacesInv
    <2>2. Typed'
      BY <1>1, <1>5, <2>1 DEF SpacesInv, TablesInv, Typed
    <2> QED
      BY <1>1, <1>2, <1>5, <1>6, <2>2 DEF SpacesInv, TablesInv
  <1>9. CallFits'
    <2>1. call'.v <= call'.beyond
      BY <1>3, <1>5
    <2> QED
      BY <1>1, <1>2, <1>4, <1>5, <1>7, <2>1 DEF CallFits
  <1>10. \E open : InOrder(open)'
    BY <1>1, <1>7 DEF SpacesInv, InOrder, Open
  <1>11. \A i \in 1..Len(spaces') : spaces'[i].cr3 \in DOMAIN tables
    BY <1>1, <1>2 DEF SpacesInv, TopsAreAlike
  <1> QED
    BY <1>1, <1>2, <1>4, <1>6, <1>7, <1>8, <1>9, <1>10, <1>11, TablesKeepSpaces

\* The page a call of kmalloc takes is nobody's yet.
LEMMA PageIsTaken ==
    ASSUME RegionsAreApart, SpacesInv, ~faulting, get_next_free_page_kmalloc, ~faulting'
    PROVE  /\ IInv' /\ UNCHANGED <<phase, free_list_page_length>>
           /\ Fresh \in Nat \ {0} /\ Fresh \notin HandedOut /\ HandedOut' = HandedOut \union {Fresh}
           /\ Fresh \notin DOMAIN tables
           /\ \A o \in Owners : PageOf(o) # Fresh
  <1>1. /\ IInv' /\ phase' = phase
        /\ Fresh \in Nat \ {0} /\ Fresh \notin HandedOut /\ HandedOut' = HandedOut \union {Fresh}
    BY Allocates DEF SpacesInv, TablesInv
  <1>2. free_list_page_length' = free_list_page_length
    BY DEF get_next_free_page_kmalloc
  <1>3. Fresh \notin DOMAIN tables
    BY <1>1 DEF SpacesInv, TablesInv
  <1>4. \A o \in Owners : PageOf(o) # Fresh
    BY <1>1 DEF SpacesInv, PagesAreOwned
  <1> QED
    BY <1>1, <1>2, <1>3, <1>4

LEMMA AllocationFails ==
    ASSUME RegionsAreApart, SpacesInv, get_next_free_page_kmalloc, ~faulting, faulting',
           UNCHANGED pagingVars
    PROVE  SpacesInv' /\ EntriesStay
  <1>1. faulting' # faulting
    OBVIOUS
  <1>2. IInv' /\ HandedOut' = HandedOut
    BY <1>1, Allocates DEF SpacesInv, TablesInv
  <1>3. UNCHANGED <<phase, free_list_page_length>>
    BY DEF get_next_free_page_kmalloc
  <1>4. SpacesInv'
    BY <1>2, <1>3, AllocatorKeepsSpaces
  <1> QED
    BY <1>4, SameTablesStay DEF pagingVars

LEMMA CreateUserTableKeepsSpaces ==
    ASSUME RegionsAreApart, SpacesInv, create_new_user_pml4
    PROVE  SpacesInv' /\ EntriesStay
  <1>1. /\ todo # << >> /\ todo[1].op = "pml4" /\ ~faulting /\ get_next_free_page_kmalloc
        /\ UNCHANGED <<tables, kernel_cr3, cr3, top_virtual_address, todo, spaces, files>>
    BY DEF create_new_user_pml4, Reaches
  <1>2. CASE faulting'
    <2>1. UNCHANGED <<process_cr3, call>>
      BY <1>2 DEF create_new_user_pml4
    <2>2. UNCHANGED pagingVars
      BY <1>1, <2>1 DEF pagingVars
    <2> QED
      BY <1>1, <1>2, <2>2, AllocationFails
  <1>3. CASE ~faulting'
    <2>1. process_cr3' = Fresh /\ call' = [Mapping("pml4", top_virtual_address, 1) EXCEPT !.page = Fresh]
      BY <1>3 DEF create_new_user_pml4
    <2>2. /\ phase = "late" /\ kernel_cr3 # 0 /\ cr3 \in Tops /\ kernel_cr3 \in DOMAIN tables
      BY <1>1, WhileToDo
    <2>3. /\ IInv' /\ UNCHANGED <<phase, free_list_page_length>>
          /\ Fresh \in Nat \ {0} /\ Fresh \notin HandedOut /\ HandedOut' = HandedOut \union {Fresh}
          /\ Fresh \notin DOMAIN tables /\ \A o \in Owners : PageOf(o) # Fresh
      BY <1>1, <1>3, PageIsTaken
    <2>4. cr3 \in Nat /\ top_virtual_address \in Nat
      BY DEF SpacesInv, TablesInv, Typed
    <2>5. /\ call'.kind = "pml4" /\ call'.v = top_virtual_address /\ call'.page = Fresh
          /\ call'.beyond = top_virtual_address + 1 /\ call' \in Call
      <3>1. call' = [kind |-> "pml4", v |-> top_virtual_address,
                     beyond |-> top_virtual_address + 1, page |-> Fresh, old_cr3 |-> cr3]
        BY <2>1 DEF Mapping
      <3>2. top_virtual_address + 1 \in Nat
        BY <2>4
      <3> QED
        BY <2>3, <2>4, <3>1, <3>2 DEF Call, Kinds
    <2>6. Roots' = Roots
      BY <1>1 DEF Roots
    <2>7. Tops' = Tops
      <3>1. process_cr3 \in Roots \/ process_cr3 \notin DOMAIN tables
        BY <1>1, FirstInOrder, OpenMeans
      <3> QED
        BY <1>1, <2>1, <2>3, <2>6, <3>1 DEF Tops
    <2>8. TablesInv'
      <3>1. Typed'
        BY <1>1, <2>5 DEF SpacesInv, TablesInv, Typed
      <3>2. DOMAIN tables \subseteq HandedOut
        BY DEF SpacesInv, TablesInv
      <3> QED
        BY <1>1, <2>1, <2>2, <2>3, <2>5, <3>1, <3>2 DEF TablesInv
    <2>9. CallFits'
      <3>1. call'.v <= call'.beyond
        BY <2>4, <2>5
      <3>2. \A o \in Owners' : PageOf(o)' # Fresh
        BY <1>1, <2>3, <2>7, PlacesStay
      <3>3. Fresh \in HandedOut'
        BY <2>3
      <3> QED
        BY <1>1, <2>1, <2>5, <3>1, <3>2, <3>3 DEF CallFits
    <2>10. \E open : InOrder(open)'
      <3>1. Open' = 0
        BY <1>1, <2>1, <2>3 DEF Open
      <3>2. Open = 0
        BY <1>1, FirstInOrder
      <3> QED
        BY <1>1, <3>1, <3>2 DEF SpacesInv, InOrder
    <2>11. \A i \in 1..Len(spaces') : spaces'[i].cr3 \in DOMAIN tables
      BY <1>1, <2>2 DEF SpacesInv, TopsAreAlike
    <2>12. cr3' \in Tops
      BY <1>1, <2>2
    <2>13. HandedOut \subseteq HandedOut'
      BY <2>3
    <2> QED
      BY <1>1, <2>2, <2>3, <2>7, <2>8, <2>9, <2>10, <2>11, <2>12, <2>13, TablesKeepSpaces
  <1> QED
    BY <1>2, <1>3

LEMMA TakePageKeepsSpaces ==
    ASSUME RegionsAreApart, SpacesInv, TakePageToMap
    PROVE  SpacesInv' /\ EntriesStay
  <1>1. /\ call.kind \in {"heap", "segment", "stack"} /\ get_next_free_page_kmalloc /\ ~faulting
        /\ UNCHANGED <<tables, kernel_cr3, cr3, top_virtual_address, todo, process_cr3, spaces, files>>
    BY DEF TakePageToMap, get_next_free_page_kmalloc
  <1>2. CASE faulting'
    <2>1. call' = call
      BY <1>2 DEF TakePageToMap
    <2>2. UNCHANGED pagingVars
      BY <1>1, <2>1 DEF pagingVars
    <2> QED
      BY <1>1, <1>2, <2>2, AllocationFails
  <1>3. CASE ~faulting'
    <2>1. call' = [call EXCEPT !.page = Fresh]
      BY <1>3 DEF TakePageToMap
    <2>2. todo # << >>
      BY <1>1 DEF SpacesInv, CallFits
    <2>3. phase = "late" /\ kernel_cr3 # 0 /\ cr3 \in Tops /\ kernel_cr3 \in DOMAIN tables
      BY <2>2, WhileToDo
    <2>4. /\ IInv' /\ UNCHANGED <<phase, free_list_page_length>>
          /\ Fresh \in Nat \ {0} /\ Fresh \notin HandedOut /\ HandedOut' = HandedOut \union {Fresh}
          /\ Fresh \notin DOMAIN tables /\ \A o \in Owners : PageOf(o) # Fresh
      BY <1>1, <1>3, PageIsTaken
    <2>5. /\ call' \in Call /\ call'.kind = call.kind /\ call'.v = call.v
          /\ call'.page = Fresh /\ call'.beyond = call.beyond /\ call'.old_cr3 = call.old_cr3
      <3>1. call \in Call
        BY DEF SpacesInv, TablesInv, Typed
      <3> QED
        BY <2>1, <2>4, <3>1 DEF Call
    <2>6. Tops' = Tops /\ Roots' = Roots
      BY <1>1 DEF Tops, Roots
    <2>7. TablesInv'
      <3>1. Typed'
        BY <1>1, <2>5 DEF SpacesInv, TablesInv, Typed
      <3>2. DOMAIN tables \subseteq HandedOut /\ process_cr3 \in HandedOut \union {0}
        BY DEF SpacesInv, TablesInv
      <3> QED
        BY <1>1, <2>3, <2>4, <2>5, <3>1, <3>2 DEF TablesInv
    <2>8. CallFits'
      <3>1. \A o \in Owners' : PageOf(o)' # Fresh
        BY <1>1, <2>4, <2>6, PlacesStay
      <3>2. Fresh \in HandedOut'
        BY <2>4
      <3> QED
        BY <1>1, <2>5, <2>6, <3>1, <3>2 DEF SpacesInv, CallFits
    <2>9. \E open : InOrder(open)'
      BY <1>1, <2>6 DEF SpacesInv, InOrder, Open
    <2>10. \A i \in 1..Len(spaces') : spaces'[i].cr3 \in DOMAIN tables
      BY <1>1, <2>3 DEF SpacesInv, TopsAreAlike
    <2>11. cr3' \in Tops /\ HandedOut \subseteq HandedOut'
      BY <1>1, <2>3, <2>4
    <2> QED
      BY <1>1, <2>3, <2>4, <2>6, <2>7, <2>8, <2>9, <2>10, <2>11, TablesKeepSpaces
  <1> QED
    BY <1>2, <1>3

-----------------------------------------------------------------------------
(* A call comes back *)

\* The kernel's addresses are translated alike in every space.
LEMMA KernelPartIsShared ==
    ASSUME SpacesInv, kernel_cr3 # 0, NEW r \in Tops, NEW v \in Nat, KernBase <= v, v < AddressEnd
    PROVE  Translate(r, v) = Translate(kernel_cr3, v)
  <1> DEFINE p == Path(r, v)
             q == Path(kernel_cr3, v)
  <1>1. /\ p[3] = r /\ q[3] = kernel_cr3
        /\ \A l \in 0..2 : p[l] = IF p[l + 1] = 0 THEN 0 ELSE tables[p[l + 1]][Slot(v, l + 1)].page
        /\ \A l \in 0..2 : q[l] = IF q[l + 1] = 0 THEN 0 ELSE tables[q[l + 1]][Slot(v, l + 1)].page
    BY PathSteps
  <1>2. Slot(v, 3) = KernelSlot
    BY FirstDigit
  <1>3. r # 0 /\ tables[r][KernelSlot] = tables[kernel_cr3][KernelSlot]
    <2>1. r # 0
      BY TablesAreNumbers DEF SpacesInv, Tops
    <2> QED
      BY <2>1 DEF SpacesInv, TopsAreAlike
  <1>4. p[0] = q[0] => Translate(r, v) = Translate(kernel_cr3, v)
    BY DEF Translate
  <1> HIDE DEF p, q
  <1>5. p[2] = q[2]
    <2>1. 2 \in 0..2 /\ 2 + 1 = 3
      OBVIOUS
    <2>2. /\ p[2] = IF p[3] = 0 THEN 0 ELSE tables[p[3]][Slot(v, 3)].page
          /\ q[2] = IF q[3] = 0 THEN 0 ELSE tables[q[3]][Slot(v, 3)].page
      BY <1>1, <2>1
    <2> QED
      BY <1>1, <1>2, <1>3, <2>2
  <1>6. p[1] = q[1]
    <2>1. 1 \in 0..2 /\ 1 + 1 = 2
      OBVIOUS
    <2> QED
      BY <1>1, <1>5, <2>1
  <1>7. p[0] = q[0]
    <2>1. 0 \in 0..2 /\ 0 + 1 = 1
      OBVIOUS
    <2> QED
      BY <1>1, <1>6, <2>1
  <1> QED
    BY <1>4, <1>7

LEMMA CallIsOver ==
    ASSUME SpacesInv, kernel_cr3 # 0, phase = "late",
           IInv', HandedOut' = HandedOut,
           UNCHANGED <<phase, free_list_page_length, tables, kernel_cr3, top_virtual_address,
                       process_cr3, spaces>>,
           call' = NoCall, cr3' \in Tops, todo' \in Seq(Task), \E open : InOrder(open)'
    PROVE  SpacesInv' /\ EntriesStay
  <1>1. Tops' = Tops /\ Roots' = Roots
    BY DEF Tops, Roots
  <1>2. NoCall \in Call /\ NoCall.kind = "none" /\ NoCall.page = 0 /\ NoCall.v <= NoCall.beyond
    BY DEF NoCall, Call, Kinds
  <1>3. TablesInv'
    <2>1. cr3' \in Nat
      BY TablesAreNumbers DEF Tops, SpacesInv
    <2>2. Typed'
      BY <1>2, <2>1 DEF SpacesInv, TablesInv, Typed
    <2> QED
      BY <1>2, <2>2 DEF SpacesInv, TablesInv
  <1>4. CallFits'
    BY <1>2 DEF CallFits
  <1>5. \A i \in 1..Len(spaces') : spaces'[i].cr3 \in DOMAIN tables
    BY DEF SpacesInv, TopsAreAlike
  <1> QED
    BY <1>1, <1>3, <1>4, <1>5, TablesKeepSpaces

LEMMA CallEnds ==
    ASSUME SpacesInv, todo # << >>, todo[1].op \in {"get_elf", "heap", "segment", "stack"},
           IInv', HandedOut' = HandedOut,
           UNCHANGED <<phase, free_list_page_length, tables, kernel_cr3, top_virtual_address,
                       process_cr3, spaces>>,
           call' = NoCall, todo' = Tail(todo), cr3' \in Tops
    PROVE  SpacesInv' /\ EntriesStay
  <1>1. phase = "late" /\ kernel_cr3 # 0
    BY WhileToDo
  <1>2. Roots' = Roots
    BY DEF Roots
  <1>3. todo' \in Seq(Task) /\ \E open : InOrder(open)'
    <2>1. Open' = Open
      BY <1>2 DEF Open
    <2>2. /\ todo[1].op \in {"segment", "stack"} => Open = 1
          /\ todo[1].op = "get_elf" => Open = 0
      BY FirstInOrder
    <2> QED
      BY <2>1, <2>2, TaskIsDone
  <1> QED
    BY <1>1, <1>3, CallIsOver

\* The kinds of the calls that walk the tables.
LEMMA WalkingIs ==
    ASSUME SpacesInv, Walking
    PROVE  /\ todo # << >> /\ todo[1].op = call.kind
           /\ call.kind \in {"heap", "pml4", "segment", "stack"}
           /\ phase = "late" /\ kernel_cr3 # 0 /\ cr3 \in Tops /\ kernel_cr3 \in DOMAIN tables
           /\ call.kind \in {"segment", "stack"} => call.old_cr3 \in Tops
  <1>1. call.kind \in Kinds /\ call.kind \notin {"none", "boot"}
    BY DEF SpacesInv, TablesInv, Typed, Call, Walking
  <1>2. todo # << >> /\ todo[1].op = call.kind
    BY <1>1 DEF SpacesInv, CallFits
  <1>3. /\ phase = "late" /\ kernel_cr3 # 0 /\ cr3 \in Tops /\ kernel_cr3 \in DOMAIN tables
    BY <1>2, WhileToDo
  <1> QED
    BY <1>1, <1>2, <1>3 DEF SpacesInv, CallFits, Kinds

\* Nothing is mapped at the top.
LEMMA OnlyAProcessIsRefused ==
    ASSUME SpacesInv, Fits, Walking, call.v < call.beyond, Translate(Root, call.v) # 0
    PROVE  call.kind \in {"segment", "stack"}
  <1>1. SUFFICES ASSUME call.kind \in {"heap", "pml4"} PROVE FALSE
    BY WalkingIs
  <1>2. phase = "late" /\ kernel_cr3 # 0
    BY WalkingIs
  <1>3. PICK lev : Sound(lev)
    BY <1>2, SpacesAreSound
  <1>4. Root \in Tops
    BY <1>3, RootIsATop
  <1>5. call.v = top_virtual_address
    BY <1>1 DEF SpacesInv, CallFits
  <1>6. /\ top_virtual_address > KernBase
        /\ \A v \in AboveTop : Translate(kernel_cr3, v) = 0
    BY <1>2 DEF SpacesInv, KernelTopIsFree
  <1>7. /\ call.v \in Nat /\ KernBase <= call.v /\ call.v < AddressEnd
        /\ call.v \in top_virtual_address..(AddressEnd - 1)
    <2>1. top_virtual_address \in Nat /\ KernBase \in Nat /\ AddressEnd \in Nat /\ top_virtual_address < AddressEnd
      BY PagingAssumption, Spans DEF SpacesInv, TablesInv, Typed, Fits
    <2> QED
      BY <1>5, <1>6, <2>1
  <1>8. Translate(kernel_cr3, call.v) = 0
    BY <1>6, <1>7 DEF AboveTop
  <1>9. PICK r \in Tops : r = Root
    BY <1>4
  <1>10. Translate(r, call.v) = Translate(kernel_cr3, call.v)
    BY <1>2, <1>7, KernelPartIsShared
  <1> QED
    BY <1>8, <1>9, <1>10

LEMMA AlreadyMappedKeepsSpaces ==
    ASSUME RegionsAreApart, SpacesInv, Fits, page_walk_user_AlreadyMapped
    PROVE  SpacesInv' /\ EntriesStay
  <1>1. /\ Walking /\ call.v < call.beyond /\ Translate(Root, call.v) # 0
        /\ FaultsIf(call.kind \in {"heap", "segment"})
        /\ call' = NoCall /\ todo' = Tail(todo)
        /\ cr3' = IF call.kind = "stack" THEN call.old_cr3 ELSE cr3
        /\ UNCHANGED <<tables, kernel_cr3, top_virtual_address, process_cr3, spaces>>
    BY DEF page_walk_user_AlreadyMapped, AtLeaf
  <1>2. call.kind \in {"segment", "stack"}
    BY <1>1, OnlyAProcessIsRefused
  <1>3. /\ todo # << >> /\ todo[1].op = call.kind
        /\ cr3 \in Tops /\ call.old_cr3 \in Tops
    BY <1>1, <1>2, WalkingIs
  <1>4. FaultsIf(TRUE) \/ FaultsIf(FALSE)
    BY <1>1, <1>2 DEF FaultsIf
  <1>5. IInv' /\ HandedOut' = HandedOut /\ phase' = phase
    BY <1>4, FaultKeepsFreeList DEF SpacesInv, TablesInv
  <1>6. free_list_page_length' = free_list_page_length
    BY <1>4 DEF FaultsIf
  <1> QED
    BY <1>1, <1>2, <1>3, <1>5, <1>6, CallEnds

LEMMA SegmentReturnsKeepsSpaces ==
    ASSUME RegionsAreApart, SpacesInv, SegmentReturns
    PROVE  SpacesInv' /\ EntriesStay
  <1>1. /\ Walking /\ call.kind = "segment" /\ call' = NoCall /\ todo' = Tail(todo)
        /\ cr3' \in {cr3, call.old_cr3}
        /\ UNCHANGED <<tables, kernel_cr3, top_virtual_address, process_cr3, spaces>>
    BY DEF SegmentReturns
  <1>2. FaultsIf(TRUE) \/ FaultsIf(FALSE)
    BY DEF SegmentReturns
  <1>3. /\ todo # << >> /\ todo[1].op = call.kind
        /\ cr3 \in Tops /\ call.old_cr3 \in Tops
    BY <1>1, WalkingIs
  <1>4. IInv' /\ HandedOut' = HandedOut /\ phase' = phase
    BY <1>2, FaultKeepsFreeList DEF SpacesInv, TablesInv
  <1>5. free_list_page_length' = free_list_page_length
    BY <1>2 DEF FaultsIf
  <1> QED
    BY <1>1, <1>3, <1>4, <1>5, CallEnds

\* The tables and their roots when create_new_user_pml4 returns: one more top-level table,
\* which has nothing but the kernel's part and itself.
LEMMA UserTableIsSet ==
    ASSUME SpacesInv, Fits, CallReturns, call.kind = "pml4"
    PROVE  /\ DOMAIN tables' = DOMAIN tables \union {process_cr3}
           /\ process_cr3 \in HandedOut /\ process_cr3 \notin DOMAIN tables
           /\ \A t \in DOMAIN tables : tables'[t] = tables[t]
           /\ tables'[process_cr3] \in Table
           /\ tables'[process_cr3][KernelSlot] = tables[kernel_cr3][KernelSlot]
           /\ tables'[process_cr3][SelfSlot].page = process_cr3
           /\ \A s \in Slots \ {KernelSlot, SelfSlot} : tables'[process_cr3][s].page = 0
           /\ Tops' = Tops \union {process_cr3} /\ Roots' = Roots /\ process_cr3 \notin Roots
  <1> DEFINE a == process_cr3
             new == [EmptyTable EXCEPT ![KernelSlot] = tables[kernel_cr3][KernelSlot],
                                       ![SelfSlot]   = Entry(a, TRUE)]
  <1>1. Walking /\ UNCHANGED <<kernel_cr3, process_cr3, spaces>>
    BY DEF CallReturns
  <1>2. tables' = [t \in DOMAIN tables \union {a} |-> IF t # a THEN tables[t] ELSE new]
    BY DEF CallReturns
  <1>3. a \in HandedOut /\ a \notin DOMAIN tables
    BY DEF SpacesInv, TablesInv
  <1>4. kernel_cr3 \in DOMAIN tables /\ kernel_cr3 # 0
    BY <1>1, WalkingIs
  <1>5. SelfSlot \in Slots /\ KernelSlot \in Slots /\ SelfSlot # KernelSlot
    BY PagingAssumption DEF SelfSlot, KernelSlot, Slots
  <1>6. /\ tables[kernel_cr3][KernelSlot].page \in Nat
        /\ tables[kernel_cr3][KernelSlot] \in [page : Nat, user : BOOLEAN]
    BY <1>4, <1>5 DEF SpacesInv, TablesInv, Typed, Table
  <1>7. a \in Nat \ {0}
    BY <1>3, HandedOutIsAPage DEF SpacesInv, TablesInv
  <1>8. /\ Entry(a, TRUE) \in [page : Nat, user : BOOLEAN] /\ Entry(a, TRUE).page = a
        /\ NoEntry \in [page : Nat, user : BOOLEAN] /\ NoEntry.page = 0
    BY <1>7 DEF Entry, NoEntry
  <1> HIDE DEF a
  <1>9. EmptyTable = [s \in Slots |-> NoEntry]
    BY DEF EmptyTable
  <1>10. /\ new \in Table
         /\ new[KernelSlot] = tables[kernel_cr3][KernelSlot] /\ new[SelfSlot] = Entry(a, TRUE)
         /\ \A s \in Slots \ {KernelSlot, SelfSlot} : new[s] = NoEntry
    BY <1>5, <1>6, <1>8, <1>9 DEF Table
  <1> HIDE DEF new
  <1>11. DOMAIN tables' = DOMAIN tables \union {a} /\ \A t \in DOMAIN tables : tables'[t] = tables[t]
    BY <1>2, <1>3
  <1>12. tables'[a] = new
    BY <1>2
  <1>13. Roots' = Roots /\ Roots \subseteq DOMAIN tables
    <2>1. TopsAreAlike
      BY <1>4 DEF SpacesInv
    <2> QED
      BY <1>1, <1>4, <2>1 DEF Roots, TopsAreAlike
  <1>14. Tops' = Tops \union {a}
    BY <1>1, <1>11, <1>13 DEF Tops, a
  <1> QED
    BY <1>3, <1>8, <1>10, <1>11, <1>12, <1>13, <1>14 DEF a

\* A table nothing leads to changes no path and no place.
LEMMA UserTableKeepsPaths ==
    ASSUME SpacesInv, Fits, CallReturns, call.kind = "pml4",
           NEW r \in Tops, NEW v \in Nat, Slot(v, 3) # SelfSlot
    PROVE  /\ \A l \in 0..3 : Path(r, v)'[l] = Path(r, v)[l]
           /\ Path(r, v)'[0] = Path(r, v)[0] /\ Translate(r, v)' = Translate(r, v)
  <1> DEFINE p == Path(r, v)
             q == Path(r, v)'
  <1>1. PICK lev : Leveled(lev)
    BY DEF SpacesInv
  <1>2. \A t \in DOMAIN tables : tables'[t] = tables[t]
    BY UserTableIsSet
  <1>3. \A l \in 0..3 : p[l] # 0 => p[l] \in DOMAIN tables
    BY <1>1, PathIsLeveled DEF SpacesInv
  <1>4. /\ p[3] = r
        /\ \A l \in 0..2 : p[l] = IF p[l + 1] = 0 THEN 0 ELSE tables[p[l + 1]][Slot(v, l + 1)].page
    BY PathSteps
  <1>5. /\ q[3] = r
        /\ \A l \in 0..2 : q[l] = IF q[l + 1] = 0 THEN 0 ELSE tables'[q[l + 1]][Slot(v, l + 1)].page
    BY PathsStepNext DEF PathsGoDown
  <1> HIDE DEF p, q
  <1>6. ASSUME NEW l \in 0..2, q[l + 1] = p[l + 1] PROVE q[l] = p[l]
    <2>1. l + 1 \in 0..3
      OBVIOUS
    <2> QED
      BY <1>2, <1>3, <1>4, <1>5, <1>6, <2>1
  <1>7. 2 \in 0..2 /\ 1 \in 0..2 /\ 0 \in 0..2 /\ 2 + 1 = 3 /\ 1 + 1 = 2 /\ 0 + 1 = 1
    OBVIOUS
  <1>8. q[2] = p[2]
    BY <1>4, <1>5, <1>6, <1>7
  <1>9. q[1] = p[1]
    BY <1>6, <1>7, <1>8
  <1>10. q[0] = p[0]
    BY <1>6, <1>7, <1>9
  <1>11. Translate(r, v)' = IF q[0] = 0 THEN 0 ELSE tables'[q[0]][Slot(v, 0)].page
    BY DEF Translate, q
  <1>12. Translate(r, v) = IF p[0] = 0 THEN 0 ELSE tables[p[0]][Slot(v, 0)].page
    BY DEF Translate, p
  <1>13. p[0] # 0 => tables'[p[0]] = tables[p[0]]
    BY <1>2, <1>3
  <1>14. \A l \in 0..3 : q[l] = p[l]
    BY <1>4, <1>5, <1>8, <1>9, <1>10, LevelsOfAPath
  <1> QED
    BY <1>10, <1>11, <1>12, <1>13, <1>14 DEF p, q

LEMMA UserTableKeepsOwners ==
    ASSUME SpacesInv, Fits, CallReturns, call.kind = "pml4"
    PROVE  /\ Owners' = Owners /\ \A o \in Owners : PageOf(o)' = PageOf(o)
           /\ \A v \in AboveTop : Translate(kernel_cr3, v)' = Translate(kernel_cr3, v)
  <1>1. /\ UNCHANGED <<kernel_cr3, process_cr3, spaces, free_list_page_length>>
        /\ Walking
    BY DEF CallReturns, vars
  <1>2. /\ kernel_cr3 \in DOMAIN tables /\ phase = "late" /\ kernel_cr3 # 0
        /\ kernel_cr3 \in Tops
    BY <1>1, WalkingIs DEF Tops, Roots
  <1>3. PICK k \in Tops : k = kernel_cr3
    BY <1>2
  <1>4. kernel_cr3' = k
    BY <1>1, <1>3
  <1>5. DirectMap' = DirectMap
    BY <1>1 DEF DirectMap
  <1>6. ASSUME NEW v \in DirectMap PROVE Path(k, v)'[0] = Path(k, v)[0]
    <2>1. v \in Nat /\ Slot(v, 3) # SelfSlot
      BY <1>6, DirectMapIsTheKernels DEF SpacesInv
    <2> QED
      BY <2>1, UserTableKeepsPaths
  <1>7. Direct' = Direct
    <2>1. Direct = {<<Path(k, v)[0], Slot(v, 0)>> : v \in DirectMap}
      BY <1>3 DEF Direct
    <2>2. Direct' = {<<Path(k, v)'[0], Slot(v, 0)>> : v \in DirectMap'}
      BY <1>4 DEF Direct, Path
    <2> QED
      BY <1>5, <1>6, <2>1, <2>2
  <1>8. \A t, s : <<t, s>> \in Owners' <=>
              /\ t \in DOMAIN tables' /\ s \in Slots /\ tables'[t][s].page # 0
              /\ t \in Roots' \union {process_cr3'} =>
                    s # SelfSlot /\ (s = KernelSlot => t = kernel_cr3')
              /\ <<t, s>> \notin Direct'
    BY DEF Owners, Direct
  <1>9. \A t, s : <<t, s>> \in Owners' <=> <<t, s>> \in Owners
    <2> SUFFICES ASSUME NEW t, NEW s PROVE <<t, s>> \in Owners' <=> <<t, s>> \in Owners
      OBVIOUS
    <2>1. CASE t = process_cr3
      <3>1. <<t, s>> \notin Owners
        BY <2>1, UserTableIsSet, OwnersAre
      <3>2. s \in Slots \ {KernelSlot, SelfSlot} => tables'[t][s].page = 0
        BY <2>1, UserTableIsSet
      <3>3. t # kernel_cr3 /\ t \in Roots' \union {process_cr3'}
        BY <1>1, <1>2, <2>1, UserTableIsSet
      <3>4. <<t, s>> \notin Owners'
        BY <1>1, <1>8, <3>2, <3>3
      <3> QED
        BY <3>1, <3>4
    <2>2. CASE t # process_cr3
      <3>1. (t \in DOMAIN tables' <=> t \in DOMAIN tables) /\ Roots' = Roots
        BY <2>2, UserTableIsSet
      <3>2. t \in DOMAIN tables => tables'[t] = tables[t]
        BY UserTableIsSet
      <3> QED
        BY <1>1, <1>7, <1>8, <3>1, <3>2, OwnersAre
    <2> QED
      BY <2>1, <2>2
  <1>10. Owners' = Owners
    <2>1. (\A o \in Owners : \E t, s : o = <<t, s>>) /\ (\A o \in Owners' : \E t, s : o = <<t, s>>)
      BY DEF Owners
    <2> QED
      BY <1>9, <2>1
  <1>11. ASSUME NEW o \in Owners PROVE PageOf(o)' = PageOf(o)
    <2>1. o[1] \in DOMAIN tables
      BY <1>11 DEF Owners
    <2> QED
      BY <2>1, UserTableIsSet DEF PageOf
  <1>12. ASSUME NEW v \in AboveTop PROVE Translate(kernel_cr3, v)' = Translate(kernel_cr3, v)
    <2>1. top_virtual_address > KernBase
      BY <1>2 DEF SpacesInv, KernelTopIsFree
    <2>2. v \in Nat /\ KernBase <= v /\ v < AddressEnd
      BY <1>12, <2>1, PagingAssumption, Spans DEF AboveTop, SpacesInv, TablesInv, Typed
    <2>3. Slot(v, 3) = KernelSlot /\ KernelSlot # SelfSlot
      BY <2>2, FirstDigit, PagingAssumption DEF KernelSlot, SelfSlot
    <2>4. Translate(k, v)' = Translate(k, v)
      BY <2>2, <2>3, UserTableKeepsPaths
    <2> QED
      BY <1>3, <1>4, <2>4
  <1> QED
    BY <1>10, <1>11, <1>12

LEMMA UserTableKeepsLevels ==
    ASSUME SpacesInv, Fits, CallReturns, call.kind = "pml4"
    PROVE  \E lev : Leveled(lev)'
  <1> DEFINE a == process_cr3
  <1>1. PICK old : Leveled(old)
    BY DEF SpacesInv
  <1>2. PICK lev : lev = [t \in DOMAIN tables \union {a} |-> IF t = a THEN 3 ELSE old[t]]
    OBVIOUS
  <1>3. /\ old \in [DOMAIN tables -> 0..3] /\ \A t \in Tops : old[t] = 3
        /\ \A t \in DOMAIN tables, s \in Slots :
              Down(t, s) /\ old[t] > 0 =>
                 tables[t][s].page \in DOMAIN tables /\ old[tables[t][s].page] = old[t] - 1
    BY <1>1 DEF Leveled
  <1>4. /\ DOMAIN tables' = DOMAIN tables \union {a} /\ a \notin DOMAIN tables
        /\ \A t \in DOMAIN tables : tables'[t] = tables[t]
        /\ tables'[a][KernelSlot] = tables[kernel_cr3][KernelSlot]
        /\ \A s \in Slots \ {KernelSlot, SelfSlot} : tables'[a][s].page = 0
        /\ Tops' = Tops \union {a}
    BY UserTableIsSet
  <1>5. /\ Walking /\ phase' = phase
    BY DEF CallReturns, vars
  <1>6. phase = "late" /\ kernel_cr3 \in DOMAIN tables /\ kernel_cr3 \in Tops
    BY <1>5, WalkingIs DEF Tops, Roots
  <1>7. KernelSlot \in Slots /\ KernelSlot # SelfSlot
    BY PagingAssumption DEF KernelSlot, SelfSlot, Slots
  <1>8. lev \in [DOMAIN tables' -> 0..3]
    <2>1. \A t \in DOMAIN tables : old[t] \in 0..3
      BY <1>3
    <2> QED
      BY <1>2, <1>4, <2>1
  <1>9. lev[a] = 3 /\ \A t \in DOMAIN tables : lev[t] = old[t]
    BY <1>2, <1>4
  <1>10. \A t \in Tops' : lev[t] = 3
    BY <1>3, <1>4, <1>9 DEF Tops
  <1>11. ASSUME NEW t \in DOMAIN tables', NEW s \in Slots, Down(t, s)', lev[t] > 0
         PROVE  tables'[t][s].page \in DOMAIN tables' /\ lev[tables'[t][s].page] = lev[t] - 1
    <2>1. CASE t = a
      <3>1. s # SelfSlot
        BY <1>4, <1>11, <2>1 DEF Down
      <3>2. tables'[t][s].page # 0
        BY <1>11 DEF Down
      <3>3. s = KernelSlot
        BY <1>4, <2>1, <3>1, <3>2
      <3>4. tables'[t][s].page = tables[kernel_cr3][KernelSlot].page
        BY <1>4, <2>1, <3>3
      <3>5. Down(kernel_cr3, KernelSlot)
        BY <1>7, <3>2, <3>4 DEF Down
      <3>6. old[kernel_cr3] = 3 /\ 3 > 0
        BY <1>3, <1>6
      <3>7. /\ tables[kernel_cr3][KernelSlot].page \in DOMAIN tables
            /\ old[tables[kernel_cr3][KernelSlot].page] = old[kernel_cr3] - 1
        BY <1>3, <1>6, <1>7, <3>5, <3>6
      <3> QED
        BY <1>4, <1>9, <2>1, <3>4, <3>6, <3>7
    <2>2. CASE t # a
      <3>1. t \in DOMAIN tables /\ tables'[t] = tables[t] /\ (t \in Tops' <=> t \in Tops)
        BY <1>4, <2>2
      <3>2. Down(t, s)
        BY <1>11, <3>1 DEF Down
      <3>3. lev[t] = old[t]
        BY <1>9, <3>1
      <3>4. tables[t][s].page \in DOMAIN tables /\ old[tables[t][s].page] = old[t] - 1
        BY <1>3, <1>11, <3>1, <3>2, <3>3
      <3> QED
        BY <1>4, <1>9, <3>1, <3>3, <3>4
    <2> QED
      BY <2>1, <2>2
  <1>12. phase' = "late"
    BY <1>5, <1>6
  <1>13. Leveled(lev)'
    BY <1>8, <1>10, <1>11, <1>12 DEF Leveled
  <1> QED
    BY <1>13

LEMMA UserTableKeepsSpaces ==
    ASSUME RegionsAreApart, SpacesInv, Fits, CallReturns, call.kind = "pml4"
    PROVE  SpacesInv' /\ EntriesStay
  <1>1. /\ Walking /\ cr3' = cr3 /\ todo' = Tail(todo) /\ call' = NoCall /\ UNCHANGED vars
        /\ UNCHANGED <<kernel_cr3, top_virtual_address, process_cr3, spaces>>
    BY DEF CallReturns
  <1>2. /\ todo # << >> /\ todo[1].op = "pml4"
        /\ phase = "late" /\ kernel_cr3 # 0 /\ cr3 \in Tops /\ kernel_cr3 \in DOMAIN tables
    BY <1>1, WalkingIs
  <1>3. IInv' /\ HandedOut' = HandedOut /\ phase' = phase /\ free_list_page_length' = free_list_page_length
    BY <1>1, UnchangedKeepsFreeList DEF SpacesInv, TablesInv, vars
  <1>4. /\ DOMAIN tables' = DOMAIN tables \union {process_cr3}
        /\ process_cr3 \in HandedOut /\ process_cr3 \notin DOMAIN tables
        /\ \A t \in DOMAIN tables : tables'[t] = tables[t]
        /\ tables'[process_cr3] \in Table
        /\ tables'[process_cr3][KernelSlot] = tables[kernel_cr3][KernelSlot]
        /\ tables'[process_cr3][SelfSlot].page = process_cr3
        /\ Tops' = Tops \union {process_cr3} /\ Roots' = Roots /\ process_cr3 \notin Roots
    BY UserTableIsSet
  <1>5. todo' \in Seq(Task) /\ \E open : InOrder(open)'
    <2>1. Open' = 1
      BY <1>1, <1>4 DEF Open
    <2> QED
      BY <1>1, <1>2, <2>1, TaskIsDone
  <1>6. NoCall \in Call /\ NoCall.kind = "none" /\ NoCall.page = 0 /\ NoCall.v <= NoCall.beyond
    BY DEF NoCall, Call, Kinds
  <1>7. TablesInv'
    <2>1. \A t \in DOMAIN tables' : tables'[t] \in Table
      BY <1>4 DEF SpacesInv, TablesInv, Typed
    <2>2. Typed'
      BY <1>1, <1>5, <1>6, <2>1 DEF SpacesInv, TablesInv, Typed
    <2> QED
      BY <1>1, <1>2, <1>3, <1>4, <1>6, <2>2 DEF SpacesInv, TablesInv
  <1>8. CallFits'
    BY <1>1, <1>6 DEF CallFits
  <1>9. TopsAreAlike'
    <2>1. TopsAreAlike
      BY <1>2 DEF SpacesInv
    <2>2. \A r \in Tops : r \in DOMAIN tables
      BY DEF Tops
    <2> QED
      BY <1>1, <1>2, <1>4, <2>1, <2>2 DEF TopsAreAlike
  <1>10. /\ Owners' = Owners /\ \A o \in Owners : PageOf(o)' = PageOf(o)
         /\ \A v \in AboveTop : Translate(kernel_cr3, v)' = Translate(kernel_cr3, v)
    BY UserTableKeepsOwners
  <1>11. PagesAreOwned'
    BY <1>3, <1>10 DEF SpacesInv, PagesAreOwned
  <1>12. KernelTopIsFree'
    <2>1. AboveTop' = AboveTop
      BY <1>1 DEF AboveTop
    <2>2. KernelPartIsThere'
      BY <1>1, <1>2, <1>4 DEF SpacesInv, KernelTopIsFree, KernelPartIsThere
    <2> QED
      BY <1>1, <1>2, <1>10, <2>1, <2>2 DEF SpacesInv, KernelTopIsFree
  <1>13. \E lev : Leveled(lev)'
    BY UserTableKeepsLevels
  <1>14. EntriesStay
    BY <1>4 DEF EntriesStay
  <1> QED
    BY <1>5, <1>7, <1>8, <1>9, <1>11, <1>12, <1>13, <1>14 DEF SpacesInv

LEMMA CallReturnsKeepsSpaces ==
    ASSUME RegionsAreApart, SpacesInv, Fits, CallReturns
    PROVE  SpacesInv' /\ EntriesStay
  <1>1. CASE call.kind = "pml4"
    BY <1>1, UserTableKeepsSpaces
  <1>2. CASE call.kind # "pml4"
    <2>1. /\ Walking /\ call.kind # "segment" /\ call' = NoCall /\ todo' = Tail(todo)
          /\ cr3' = (IF call.kind = "stack" THEN call.old_cr3 ELSE cr3)
          /\ UNCHANGED vars
          /\ UNCHANGED <<tables, kernel_cr3, top_virtual_address, process_cr3, spaces>>
      BY <1>2 DEF CallReturns
    <2>2. /\ todo # << >> /\ todo[1].op = call.kind /\ call.kind \in {"heap", "stack"}
          /\ cr3 \in Tops /\ (call.kind = "stack" => call.old_cr3 \in Tops)
      BY <1>2, <2>1, WalkingIs
    <2>3. IInv' /\ HandedOut' = HandedOut /\ phase' = phase
      BY <2>1, UnchangedKeepsFreeList DEF SpacesInv, TablesInv
    <2>4. free_list_page_length' = free_list_page_length
      BY <2>1 DEF vars
    <2> QED
      BY <2>1, <2>2, <2>3, <2>4, CallEnds
  <1> QED
    BY <1>1, <1>2

LEMMA ProcessCreatedKeepsSpaces ==
    ASSUME RegionsAreApart, SpacesInv, ProcessCreated
    PROVE  SpacesInv' /\ EntriesStay
  <1> DEFINE new == [cr3 |-> process_cr3, binary |-> todo[1].binary]
             n == Len(spaces)
  <1>1. /\ call = NoCall /\ todo # << >> /\ todo[1].op = "done" /\ todo' = Tail(todo)
        /\ spaces' = Append(spaces, new) /\ UNCHANGED vars
        /\ UNCHANGED <<tables, kernel_cr3, cr3, top_virtual_address, call, process_cr3>>
    BY DEF ProcessCreated, Reaches
  <1>2. /\ phase = "late" /\ kernel_cr3 # 0 /\ cr3 \in Tops /\ todo[1] \in Task
    BY <1>1, WhileToDo
  <1>3. IInv' /\ HandedOut' = HandedOut /\ phase' = phase /\ free_list_page_length' = free_list_page_length
    BY <1>1, UnchangedKeepsFreeList DEF SpacesInv, TablesInv, vars
  <1>4. process_cr3 \in DOMAIN tables
    BY <1>1, FirstInOrder, OpenMeans
  <1>5. process_cr3 \in Nat
    BY <1>4, TablesAreNumbers DEF SpacesInv
  <1>6. todo[1].binary \in Files
    BY <1>1, <1>2 DEF Task
  <1>7. new \in [cr3 : Nat, binary : Files] /\ new.cr3 = process_cr3
    BY <1>5, <1>6
  <1>8. spaces \in Seq([cr3 : Nat, binary : Files]) /\ n \in Nat
    BY DEF SpacesInv, TablesInv, Typed
  <1> HIDE DEF new
  <1>9. /\ spaces' \in Seq([cr3 : Nat, binary : Files]) /\ Len(spaces') = n + 1
        /\ spaces'[n + 1] = new /\ \A i \in 1..n : spaces'[i] = spaces[i]
    BY <1>1, <1>7, <1>8
  <1>10. \A i \in 1..(n + 1) : i \in 1..n \/ i = n + 1
    BY <1>8
  <1>11. Roots' = Roots \union {process_cr3}
    <2>1. Roots' = {kernel_cr3} \union {spaces'[i].cr3 : i \in 1..(n + 1)}
      BY <1>1, <1>9 DEF Roots
    <2>2. {spaces'[i].cr3 : i \in 1..(n + 1)} = {spaces[i].cr3 : i \in 1..n} \union {process_cr3}
      <3>1. \A i \in 1..n : i \in 1..(n + 1)
        BY <1>8
      <3>2. n + 1 \in 1..(n + 1)
        BY <1>8
      <3> HIDE DEF n
      <3> QED
        BY <1>7, <1>9, <1>10, <3>1, <3>2
    <2> QED
      BY <2>1, <2>2 DEF Roots
  <1>12. Tops' = Tops
    BY <1>1, <1>11 DEF Tops
  <1>13. todo' \in Seq(Task) /\ \E open : InOrder(open)'
    <2>1. Open' = 0
      BY <1>1, <1>11 DEF Open
    <2> QED
      BY <1>1, <2>1, TaskIsDone
  <1>14. NoCall.kind = "none" /\ NoCall.page = 0 /\ NoCall.v <= NoCall.beyond
    BY DEF NoCall
  <1>15. TablesInv'
    <2>1. Typed'
      BY <1>1, <1>9, <1>13 DEF SpacesInv, TablesInv, Typed
    <2> QED
      BY <1>1, <1>2, <1>3, <1>14, <2>1 DEF SpacesInv, TablesInv
  <1>16. CallFits'
    BY <1>1, <1>14 DEF CallFits
  <1>17. \A i \in 1..Len(spaces') : spaces'[i].cr3 \in DOMAIN tables
    <2>1. \A i \in 1..n : spaces[i].cr3 \in DOMAIN tables
      BY <1>2 DEF SpacesInv, TopsAreAlike
    <2> QED
      BY <1>4, <1>7, <1>9, <1>10, <2>1
  <1> QED
    BY <1>1, <1>2, <1>3, <1>12, <1>13, <1>15, <1>16, <1>17, TablesKeepSpaces

-----------------------------------------------------------------------------
(* Running processes *)

LEMMA SetCr3KeepsSpaces ==
    ASSUME RegionsAreApart, SpacesInv, set_cr3
    PROVE  SpacesInv' /\ EntriesStay
  <1>1. /\ cr3 # 0 /\ call = NoCall /\ UNCHANGED vars
        /\ UNCHANGED <<tables, kernel_cr3, top_virtual_address, todo, call, process_cr3, spaces>>
    BY DEF set_cr3, Running
  <1>2. PICK i \in 1..Len(spaces) : cr3' = spaces[i].cr3
    BY DEF set_cr3
  <1>3. phase = "late"
    BY <1>1 DEF SpacesInv, TablesInv
  <1>4. kernel_cr3 # 0
    BY <1>3, TablesAreNumbers DEF SpacesInv, TablesInv
  <1>5. IInv' /\ HandedOut' = HandedOut /\ phase' = phase /\ free_list_page_length' = free_list_page_length
    BY <1>1, UnchangedKeepsFreeList DEF SpacesInv, TablesInv, vars
  <1>6. Roots' = Roots /\ Tops' = Tops
    BY <1>1 DEF Roots, Tops
  <1>7. \A j \in 1..Len(spaces) : spaces[j].cr3 \in DOMAIN tables
    BY <1>4 DEF SpacesInv, TopsAreAlike
  <1>8. cr3' \in Tops /\ cr3' \in DOMAIN tables
    BY <1>2, <1>7 DEF Tops, Roots
  <1>9. cr3' \in Nat
    BY <1>8, TablesAreNumbers DEF SpacesInv
  <1>10. NoCall.kind = "none" /\ NoCall.page = 0 /\ NoCall.v <= NoCall.beyond
    BY DEF NoCall
  <1>11. TablesInv'
    <2>1. Typed'
      BY <1>1, <1>9 DEF SpacesInv, TablesInv, Typed
    <2> QED
      BY <1>1, <1>3, <1>5, <1>10, <2>1 DEF SpacesInv, TablesInv
  <1>12. CallFits'
    BY <1>1, <1>10 DEF CallFits
  <1>13. \E open : InOrder(open)'
    BY <1>1, <1>6 DEF SpacesInv, InOrder, Open
  <1> QED
    BY <1>1, <1>4, <1>5, <1>6, <1>7, <1>8, <1>11, <1>12, <1>13, TablesKeepSpaces

LEMMA ExecKeepsSpaces ==
    ASSUME RegionsAreApart, SpacesInv, exec_new_binary
    PROVE  SpacesInv' /\ EntriesStay
  <1>1. /\ cr3 # 0 /\ todo = << >> /\ call = NoCall /\ todo' = << Find >> /\ UNCHANGED vars
        /\ UNCHANGED <<tables, kernel_cr3, cr3, top_virtual_address, call, process_cr3, spaces>>
    BY DEF exec_new_binary, Running
  <1>2. phase = "late"
    BY <1>1 DEF SpacesInv, TablesInv
  <1>3. kernel_cr3 # 0
    BY <1>2, TablesAreNumbers DEF SpacesInv, TablesInv
  <1>4. IInv' /\ HandedOut' = HandedOut /\ phase' = phase /\ free_list_page_length' = free_list_page_length
    BY <1>1, UnchangedKeepsFreeList DEF SpacesInv, TablesInv, vars
  <1>5. Roots' = Roots /\ Tops' = Tops
    BY <1>1 DEF Roots, Tops
  <1>6. \A j \in 1..Len(spaces) : spaces[j].cr3 \in DOMAIN tables
    BY <1>3 DEF SpacesInv, TopsAreAlike
  <1>7. cr3 \in Tops
    BY <1>2, <1>3 DEF SpacesInv, TopsAreAlike
  <1>8. NoCall.kind = "none" /\ NoCall.page = 0 /\ NoCall.v <= NoCall.beyond
    BY DEF NoCall
  <1>9. todo' \in Seq(Task) /\ Len(todo') = 1 /\ todo'[1].op = "get_elf"
    BY <1>1, TasksAre DEF Find, ToDo
  <1>10. TablesInv'
    <2>1. Typed'
      BY <1>1, <1>9 DEF SpacesInv, TablesInv, Typed
    <2> QED
      BY <1>1, <1>2, <1>4, <1>8, <2>1 DEF SpacesInv, TablesInv
  <1>11. CallFits'
    BY <1>1, <1>8 DEF CallFits
  <1>12. \E open : InOrder(open)'
    <2>1. Open = 0
      <3>1. PICK o : InOrder(o)
        BY DEF SpacesInv
      <3>2. Len(todo) + 1 = 1
        BY <1>1
      <3> QED
        BY <3>1, <3>2 DEF InOrder
    <2>2. Open' = 0
      BY <1>1, <1>5, <2>1 DEF Open
    <2>3. PICK o : o = [k \in 1..2 |-> 0]
      OBVIOUS
    <2>4. o \in [1..2 -> {0, 1}] /\ o[1] = 0 /\ o[2] = 0
      BY <2>3
    <2>5. Len(todo') + 1 = 2 /\ \A k \in 1..1 : k = 1 /\ k + 1 = 2
      BY <1>9
    <2>6. InOrder(o)'
      BY <1>9, <2>2, <2>4, <2>5 DEF InOrder
    <2> QED
      BY <2>6
  <1> QED
    BY <1>1, <1>3, <1>4, <1>5, <1>6, <1>7, <1>10, <1>11, <1>12, TablesKeepSpaces

LEMMA StutteringKeepsSpaces ==
    ASSUME RegionsAreApart, SpacesInv, UNCHANGED allVars
    PROVE  SpacesInv' /\ EntriesStay
  <1>1. UNCHANGED vars /\ UNCHANGED pagingVars
    BY DEF allVars
  <1>2. IInv' /\ HandedOut' = HandedOut /\ UNCHANGED <<phase, free_list_page_length>>
    BY <1>1, UnchangedKeepsFreeList DEF SpacesInv, TablesInv, vars
  <1>3. SpacesInv'
    BY <1>1, <1>2, AllocatorKeepsSpaces
  <1>4. UNCHANGED tables
    BY <1>1 DEF pagingVars
  <1> QED
    BY <1>3, <1>4, SameTablesStay

LEMMA PageFaultKeepsSpaces ==
    ASSUME RegionsAreApart, SpacesInv, PageFault
    PROVE  SpacesInv' /\ EntriesStay
  <1>1. UNCHANGED allVars
    BY DEF PageFault, page_fault_handler, allVars
  <1> QED
    BY <1>1, StutteringKeepsSpaces

-----------------------------------------------------------------------------
(* What a file makes the kernel do *)

\* One thing to do, and whether a process is being created before and after it.
Follows(before, task, after) ==
    /\ task.op = "get_elf" => before = 0 /\ after = 0
    /\ task.op = "heap" => before = after
    /\ task.op = "pml4" => before = 0 /\ after = 1 /\ task.pages = 1
    /\ task.op \in {"segment", "stack"} =>
          before = 1 /\ after = 1 /\ task.start + task.pages <= UserEnd
    /\ task.op = "done" => before = 1 /\ after = 0

Leads(before, tasks, after) ==
    /\ tasks \in Seq(Task)
    /\ \E open \in [1..(Len(tasks) + 1) -> {0, 1}] :
          /\ open[1] = before /\ open[Len(tasks) + 1] = after
          /\ \A k \in 1..Len(tasks) : Follows(open[k], tasks[k], open[k + 1])

LEMMA Concatenated ==
    ASSUME NEW T, NEW a \in Seq(T), NEW b \in Seq(T)
    PROVE  /\ a \o b \in Seq(T) /\ Len(a \o b) = Len(a) + Len(b)
           /\ \A i \in 1..Len(a) : (a \o b)[i] = a[i]
           /\ \A i \in 1..Len(b) : (a \o b)[Len(a) + i] = b[i]
  OBVIOUS

LEMMA LeadsOn ==
    ASSUME NEW x, NEW y, NEW z, NEW a, NEW b, Leads(x, a, y), Leads(y, b, z)
    PROVE  Leads(x, a \o b, z)
  <1> DEFINE c == a \o b
             m == Len(a)
             n == Len(b)
  <1>1. a \in Seq(Task) /\ b \in Seq(Task) /\ m \in Nat /\ n \in Nat
    BY DEF Leads
  <1>2. PICK p \in [1..(m + 1) -> {0, 1}] :
            /\ p[1] = x /\ p[m + 1] = y
            /\ \A k \in 1..m : Follows(p[k], a[k], p[k + 1])
    BY DEF Leads
  <1>3. PICK q \in [1..(n + 1) -> {0, 1}] :
            /\ q[1] = y /\ q[n + 1] = z
            /\ \A k \in 1..n : Follows(q[k], b[k], q[k + 1])
    BY DEF Leads
  <1>4. /\ c \in Seq(Task) /\ Len(c) = m + n
        /\ \A i \in 1..m : c[i] = a[i]
        /\ \A i \in 1..n : c[m + i] = b[i]
    BY <1>1, Concatenated
  <1> HIDE DEF c, m, n
  <1>5. PICK open : open = [k \in 1..(m + n + 1) |-> IF k <= m + 1 THEN p[k] ELSE q[k - m]]
    OBVIOUS
  <1>6. \A k \in 1..(m + 1) : k \in 1..(m + n + 1) /\ open[k] = p[k]
    BY <1>1, <1>5
  <1>7. ASSUME NEW i \in 1..(n + 1) PROVE open[m + i] = q[i]
    <2>1. m + i \in 1..(m + n + 1) /\ (m + i) - m = i /\ i \in Int
      BY <1>1
    <2>2. CASE i = 1
      <3>1. m + 1 \in 1..(m + 1)
        BY <1>1
      <3> QED
        BY <1>2, <1>3, <1>6, <2>2, <3>1
    <2>3. CASE i # 1
      <3>1. ~(m + i <= m + 1)
        BY <1>1, <2>3
      <3> QED
        BY <1>5, <2>1, <3>1
    <2> QED
      BY <2>2, <2>3
  <1>8. open \in [1..(Len(c) + 1) -> {0, 1}]
    <2>1. ASSUME NEW k \in 1..(m + n + 1) PROVE open[k] \in {0, 1}
      <3>1. CASE k <= m + 1
        <4>1. k \in 1..(m + 1)
          BY <1>1, <3>1
        <4> QED
          BY <1>2, <1>6, <4>1
      <3>2. CASE ~(k <= m + 1)
        <4>1. k - m \in 1..(n + 1)
          BY <1>1, <3>2
        <4>2. open[k] = q[k - m]
          BY <1>5, <3>2
        <4> QED
          BY <1>3, <4>1, <4>2
      <3> QED
        BY <3>1, <3>2
    <2> QED
      BY <1>4, <1>5, <2>1
  <1>9. open[1] = x /\ open[Len(c) + 1] = z
    <2>1. 1 \in 1..(m + 1) /\ n + 1 \in 1..(n + 1) /\ m + (n + 1) = Len(c) + 1
      BY <1>1, <1>4
    <2> QED
      BY <1>2, <1>3, <1>6, <1>7, <2>1
  <1>10. ASSUME NEW k \in 1..Len(c) PROVE Follows(open[k], c[k], open[k + 1])
    <2>1. CASE k <= m
      <3>1. k \in 1..m /\ k \in 1..(m + 1) /\ k + 1 \in 1..(m + 1)
        BY <1>1, <2>1
      <3> QED
        BY <1>2, <1>4, <1>6, <3>1
    <2>2. CASE ~(k <= m)
      <3>1. PICK i \in 1..n : k = m + i
        <4>1. k - m \in 1..n /\ k = m + (k - m)
          BY <1>1, <1>4, <2>2
        <4> QED
          BY <4>1
      <3>2. i \in 1..(n + 1) /\ i + 1 \in 1..(n + 1) /\ k + 1 = m + (i + 1)
        BY <1>1, <3>1
      <3>3. open[k] = q[i] /\ open[k + 1] = q[i + 1] /\ c[k] = b[i]
        BY <1>4, <1>7, <3>1, <3>2
      <3> QED
        BY <1>3, <3>3
    <2> QED
      BY <2>1, <2>2
  <1>11. Leads(x, c, z)
    BY <1>4, <1>8, <1>9, <1>10 DEF Leads
  <1> QED
    BY <1>11 DEF c

\* Things to do that open and close nothing.
LEMMA LeadsAlike ==
    ASSUME NEW x \in {0, 1}, NEW s \in Seq(Task),
           \A k \in 1..Len(s) : Follows(x, s[k], x)
    PROVE  Leads(x, s, x)
  <1>1. PICK open : open = [k \in 1..(Len(s) + 1) |-> x]
    OBVIOUS
  <1>2. /\ open \in [1..(Len(s) + 1) -> {0, 1}]
        /\ open[1] = x /\ open[Len(s) + 1] = x
        /\ \A k \in 1..Len(s) : open[k] = x /\ open[k + 1] = x
    <2>1. Len(s) \in Nat
      OBVIOUS
    <2>2. 1 \in 1..(Len(s) + 1) /\ Len(s) + 1 \in 1..(Len(s) + 1)
      BY <2>1
    <2>3. \A k \in 1..Len(s) : k \in 1..(Len(s) + 1) /\ k + 1 \in 1..(Len(s) + 1)
      BY <2>1
    <2> QED
      BY <1>1, <2>2, <2>3
  <1> QED
    BY <1>2 DEF Leads

LEMMA LeadsTwice ==
    ASSUME NEW x \in {0, 1}, NEW y \in {0, 1}, NEW z \in {0, 1}, NEW s \in Task, NEW t \in Task,
           Follows(x, s, y), Follows(y, t, z)
    PROVE  Leads(x, << s, t >>, z)
  <1>1. PICK open : open = [k \in 1..3 |-> IF k = 1 THEN x ELSE IF k = 2 THEN y ELSE z]
    OBVIOUS
  <1>2. open \in [1..3 -> {0, 1}] /\ open[1] = x /\ open[2] = y /\ open[3] = z
    BY <1>1
  <1>3. /\ << s, t >> \in Seq(Task) /\ Len(<< s, t >>) = 2
        /\ << s, t >>[1] = s /\ << s, t >>[2] = t
    OBVIOUS
  <1>4. /\ 2 + 1 = 3 /\ 1 + 1 = 2
        /\ \A k \in 1..2 : k = 1 \/ k = 2
    OBVIOUS
  <1>5. \A k \in 1..2 : Follows(open[k], << s, t >>[k], open[k + 1])
    BY <1>2, <1>3, <1>4
  <1> QED
    BY <1>2, <1>3, <1>4, <1>5 DEF Leads

\* A segment of a file lies below the kernel's half.
LEMMA SegmentsAre ==
    ASSUME NEW b \in Binaries, NEW i \in DOMAIN vmas(b)
    PROVE  LET task == Segment(vmas(b)[i])
           IN  task \in Task /\ task.op = "segment" /\ task.start + task.pages <= UserEnd
  <1> DEFINE phdr == Loads(b)[i]
             vma == vmas(b)[i]
  <1>1. DOMAIN vmas(b) = DOMAIN Loads(b)
    BY DEF vmas
  <1>2. Loads(b) \in Seq(ProgramHeader) /\ i \in DOMAIN Loads(b)
    BY <1>1, PagingAssumption
  <1>3. phdr \in ProgramHeader
    BY <1>2
  <1>4. phdr.p_vaddr \in Nat /\ phdr.p_memsz \in Nat /\ phdr.p_offset \in Nat
    BY <1>3 DEF ProgramHeader
  <1>5. vma = [vm_start |-> phdr.p_vaddr, vm_end |-> phdr.p_vaddr + phdr.p_memsz,
               vm_offset |-> phdr.p_offset]
    BY <1>2 DEF vmas
  <1>6. vm_start(vma) + vm_size(vma) <= UserEnd
    BY <1>2, PagingAssumption
  <1> HIDE DEF phdr, vma
  <1>7. vma.vm_start = phdr.p_vaddr /\ vma.vm_end = phdr.p_vaddr + phdr.p_memsz /\ vma \in Vma
    BY <1>4, <1>5 DEF Vma
  <1>8. PAGESIZE \in Nat \ {0}
    BY SizesAssumption
  <1>9. /\ vm_start(vma) \in Nat
        /\ phdr.p_vaddr - (phdr.p_vaddr \div PAGESIZE) * PAGESIZE \in Nat
    BY <1>4, <1>7, <1>8 DEF vm_start
  <1>10. vma.vm_end - vm_start(vma) * PAGESIZE \in Nat
    <2>1. vm_start(vma) * PAGESIZE = (phdr.p_vaddr \div PAGESIZE) * PAGESIZE
      BY <1>7 DEF vm_start
    <2>2. (phdr.p_vaddr \div PAGESIZE) * PAGESIZE \in Nat
      BY <1>4, <1>8
    <2> QED
      BY <1>4, <1>7, <1>9, <2>1, <2>2
  <1>11. vm_size(vma) \in Nat
    BY <1>10, RoundUpIsAPage DEF vm_size
  <1>12. Segment(vma) = [op |-> "segment", start |-> vm_start(vma), pages |-> vm_size(vma), vma |-> vma]
    BY DEF Segment
  <1>13. Segment(vma) \in Task
    BY <1>7, <1>9, <1>11, <1>12 DEF Task
  <1> QED
    BY <1>6, <1>12, <1>13 DEF vma

\* Starting a file leaves the kernel where it was.
LEMMA FileIsStarted ==
    ASSUME NEW b \in Binaries, NEW rest, Leads(0, rest, 0)
    PROVE  Leads(0, load_elf_vmas(b) \o create_process(b) \o rest, 0)
  <1> DEFINE m == Len(vmas(b))
             areas == load_elf_vmas(b)
             segments == [i \in DOMAIN vmas(b) |-> Segment(vmas(b)[i])]
             first == << Heap(PcbPages), Pml4 >>
             last == << Stack, Done(b) >>
  <1>1. m \in Nat /\ DOMAIN vmas(b) = 1..m
    <2>1. DOMAIN vmas(b) = DOMAIN Loads(b) /\ Loads(b) \in Seq(ProgramHeader)
      BY PagingAssumption DEF vmas
    <2>2. PICK n \in Nat : DOMAIN vmas(b) = 1..n
      BY <2>1
    <2>3. vmas(b) = [i \in 1..n |-> vmas(b)[i]]
      BY <2>2 DEF vmas
    <2> QED
      BY <2>2, <2>3
  <1>2. /\ Heap(SmallPages) \in Task /\ Heap(PcbPages) \in Task /\ Pml4 \in Task /\ Stack \in Task
        /\ Done(b) \in Task
    BY PagingAssumption, TasksAre DEF Files
  <1>3. /\ Heap(SmallPages).op = "heap" /\ Heap(PcbPages).op = "heap"
        /\ Pml4.op = "pml4" /\ Pml4.pages = 1
        /\ Stack.op = "stack" /\ Stack.start = StackPage /\ Stack.pages = 1
        /\ Done(b).op = "done"
    BY DEF Heap, Pml4, Stack, Done, ToDo
  <1>4. StackPage + 1 <= UserEnd
    BY PagingAssumption, Spans
  <1>5. Leads(0, areas, 0)
    <2>1. areas = [i \in 1..(m + 3) |-> Heap(SmallPages)]
      BY DEF load_elf_vmas
    <2>2. areas \in Seq(Task) /\ Len(areas) = m + 3 /\ \A k \in 1..Len(areas) : areas[k] = Heap(SmallPages)
      BY <1>1, <1>2, <2>1
    <2>3. Follows(0, Heap(SmallPages), 0)
      BY <1>3 DEF Follows
    <2> QED
      BY <2>2, <2>3, LeadsAlike
  <1>6. Leads(0, first, 1)
    <2>1. Follows(0, Heap(PcbPages), 0) /\ Follows(0, Pml4, 1)
      BY <1>3 DEF Follows
    <2> QED
      BY <1>2, <2>1, LeadsTwice
  <1>7. Leads(1, segments, 1)
    <2>1. \A i \in 1..m : /\ Segment(vmas(b)[i]) \in Task
                          /\ Follows(1, Segment(vmas(b)[i]), 1)
      BY <1>1, SegmentsAre DEF Follows
    <2>2. segments \in Seq(Task) /\ Len(segments) = m /\ \A i \in 1..m : segments[i] = Segment(vmas(b)[i])
      BY <1>1, <2>1
    <2> QED
      BY <2>1, <2>2, LeadsAlike
  <1>8. Leads(1, last, 0)
    <2>1. Follows(1, Stack, 1) /\ Follows(1, Done(b), 0)
      BY <1>3, <1>4 DEF Follows
    <2> QED
      BY <1>2, <2>1, LeadsTwice
  <1>9. create_process(b) = (first \o segments) \o last
    BY DEF create_process
  <1> HIDE DEF m, areas, segments, first, last
  <1>10. Leads(0, first \o segments, 1)
    BY <1>6, <1>7, LeadsOn
  <1>11. Leads(0, create_process(b), 0)
    BY <1>8, <1>9, <1>10, LeadsOn
  <1>12. Leads(0, areas \o create_process(b), 0)
    BY <1>5, <1>11, LeadsOn
  <1>13. Leads(0, (areas \o create_process(b)) \o rest, 0)
    BY <1>12, LeadsOn
  <1> QED
    BY <1>13 DEF areas

LEMMA GetElfKeepsSpaces ==
    ASSUME RegionsAreApart, SpacesInv, get_elf
    PROVE  SpacesInv' /\ EntriesStay
  <1>1. /\ call = NoCall /\ todo # << >> /\ todo[1].op = "get_elf"
        /\ UNCHANGED <<tables, kernel_cr3, cr3, top_virtual_address, call, process_cr3, spaces>>
    BY DEF get_elf, Reaches
  <1>2. PICK b \in Binaries \union {NoFile} :
          /\ FaultsIf(IF b = NoFile THEN spaces = << >> ELSE ~StartsWith(b))
          /\ todo' = IF StartsWith(b)
                     THEN load_elf_vmas(b) \o create_process(b) \o Tail(todo)
                     ELSE Tail(todo)
    BY DEF get_elf
  <1>3. FaultsIf(TRUE) \/ FaultsIf(FALSE)
    BY <1>2 DEF FaultsIf
  <1>4. IInv' /\ HandedOut' = HandedOut /\ phase' = phase
    BY <1>3, FaultKeepsFreeList DEF SpacesInv, TablesInv
  <1>5. free_list_page_length' = free_list_page_length
    BY <1>3 DEF FaultsIf
  <1>6. phase = "late" /\ kernel_cr3 # 0 /\ cr3 \in Tops
    BY <1>1, WhileToDo
  <1>7. CASE ~StartsWith(b)
    BY <1>1, <1>2, <1>4, <1>5, <1>6, <1>7, CallEnds
  <1>8. CASE StartsWith(b)
    <2>1. b \in Binaries
      BY <1>8 DEF StartsWith
    <2>2. Open = 0 /\ Open' = 0
      BY <1>1, FirstInOrder DEF Open, Roots
    <2>3. PICK o : InOrder(o)
      BY DEF SpacesInv
    <2>4. todo \in Seq(Task)
      BY DEF SpacesInv, TablesInv, Typed
    <2>5. Leads(0, Tail(todo), 0)
      <3>1. PICK n \in Nat : n = Len(todo) /\ n > 0
        BY <1>1, <2>4
      <3>2. /\ o \in [1..(n + 1) -> {0, 1}] /\ o[n + 1] = 0 /\ o[1 + 1] = 0
            /\ \A k \in 1..n : Follows(o[k], todo[k], o[k + 1])
        <4>1. 1 \in 1..n
          BY <3>1
        <4> QED
          BY <1>1, <2>3, <3>1, <4>1 DEF InOrder, Follows
      <3>3. /\ Tail(todo) \in Seq(Task) /\ Len(Tail(todo)) = n - 1
            /\ \A k \in 1..(n - 1) : Tail(todo)[k] = todo[k + 1]
        BY <1>1, <2>4, <3>1
      <3>4. PICK q : q = [k \in 1..n |-> o[k + 1]]
        OBVIOUS
      <3>5. /\ q \in [1..(Len(Tail(todo)) + 1) -> {0, 1}]
            /\ q[1] = 0 /\ q[Len(Tail(todo)) + 1] = 0
        <4>1. \A k \in 1..n : k + 1 \in 1..(n + 1)
          OBVIOUS
        <4>2. 1 \in 1..n /\ n \in 1..n /\ (n - 1) + 1 = n
          BY <3>1
        <4>3. \A k \in 1..n : o[k + 1] \in {0, 1}
          BY <3>2, <4>1
        <4> QED
          BY <3>2, <3>3, <3>4, <4>2, <4>3
      <3>6. ASSUME NEW k \in 1..(n - 1) PROVE Follows(q[k], Tail(todo)[k], q[k + 1])
        <4>1. k \in 1..n /\ k + 1 \in 1..n
          BY <3>1
        <4> QED
          BY <3>2, <3>3, <3>4, <4>1
      <3> QED
        BY <3>3, <3>5, <3>6 DEF Leads
    <2>6. Leads(0, todo', 0)
      BY <1>2, <1>8, <2>1, <2>5, FileIsStarted
    <2>7. todo' \in Seq(Task) /\ \E open : InOrder(open)'
      <3>1. todo' \in Seq(Task)
        BY <2>6 DEF Leads
      <3>2. PICK q \in [1..(Len(todo') + 1) -> {0, 1}] :
              /\ q[1] = 0 /\ q[Len(todo') + 1] = 0
              /\ \A k \in 1..Len(todo') : Follows(q[k], todo'[k], q[k + 1])
        BY <2>6 DEF Leads
      <3>3. InOrder(q)'
        BY <2>2, <3>2 DEF InOrder, Follows
      <3> QED
        BY <3>1, <3>3
    <2> QED
      BY <1>1, <1>4, <1>5, <1>6, <2>7, CallIsOver
  <1> QED
    BY <1>7, <1>8

-----------------------------------------------------------------------------
(* The theorems *)

LEMMA UserTablesKeepSpaces ==
    ASSUME RegionsAreApart, SpacesInv, Fits, page_walk_user_AddTable
    PROVE  SpacesInv' /\ EntriesStay
  <1>1. call.kind # "none" /\ AddTable(get_next_free_page_kmalloc)
    BY DEF page_walk_user_AddTable, Walking
  <1> QED
    BY <1>1, AddTableKeepsSpaces

LEMMA NextKeepsSpaces ==
    ASSUME RegionsAreApart, SpacesInv, Fits, [PagingNext]_allVars
    PROVE  SpacesInv' /\ EntriesStay
  <1>1. CASE BuildFreeList
    BY <1>1, BuildFreeListKeepsSpaces
  <1>2. CASE create_kernel_pml4
    BY <1>2, CreateKernelTableKeepsSpaces
  <1>3. CASE map_all_kernel_pages
    BY <1>3, BootKeepsSpaces
  <1>4. CASE map_video_memory
    BY <1>4, VideoKeepsSpaces
  <1>5. CASE LoadKernelTables
    BY <1>5, LoadKeepsSpaces
  <1>6. CASE get_elf
    BY <1>6, GetElfKeepsSpaces
  <1>7. CASE kmalloc_user
    BY <1>7, KmallocUserKeepsSpaces
  <1>8. CASE create_new_user_pml4
    BY <1>8, CreateUserTableKeepsSpaces
  <1>9. CASE kmalloc_top_virtual_address_user
    BY <1>9, KmallocTopKeepsSpaces
  <1>10. CASE TakePageToMap
    BY <1>10, TakePageKeepsSpaces
  <1>11. CASE page_walk_user_AddTable
    BY <1>11, UserTablesKeepSpaces
  <1>12. CASE page_walk_user_SetEntry
    BY <1>12, SetEntryKeepsSpaces
  <1>13. CASE page_walk_user_AlreadyMapped
    BY <1>13, AlreadyMappedKeepsSpaces
  <1>14. CASE SegmentReturns
    BY <1>14, SegmentReturnsKeepsSpaces
  <1>15. CASE CallReturns
    BY <1>15, CallReturnsKeepsSpaces
  <1>16. CASE ProcessCreated
    BY <1>16, ProcessCreatedKeepsSpaces
  <1>17. CASE set_cr3
    BY <1>17, SetCr3KeepsSpaces
  <1>18. CASE exec_new_binary
    BY <1>18, ExecKeepsSpaces
  <1>19. CASE PageFault
    BY <1>19, PageFaultKeepsSpaces
  <1>20. CASE UNCHANGED allVars
    BY <1>20, StutteringKeepsSpaces
  <1> QED
    BY <1>1, <1>2, <1>3, <1>4, <1>5, <1>6, <1>7, <1>8, <1>9, <1>10, <1>11, <1>12, <1>13,
       <1>14, <1>15, <1>16, <1>17, <1>18, <1>19, <1>20 DEF PagingNext

\* What makes the address spaces correct: SpacesInv is inductive as long as what is mapped
\* above KERNBASE fits there.
THEOREM SpacesInvariant == ASSUME RegionsAreApart PROVE PagingSpec /\ []Fits => []SpacesInv
  <1>1. PagingInit => SpacesInv
    BY InitHasSpaces
  <1>2. SpacesInv /\ Fits /\ [PagingNext]_allVars => SpacesInv'
    BY NextKeepsSpaces
  <1> QED
    BY <1>1, <1>2, PTL DEF PagingSpec

\* A step that maps a page, adds a table or creates a process leaves every valid entry of
\* every space as it is.
THEOREM SpacesKeepTheirMappings == ASSUME RegionsAreApart PROVE PagingSpec /\ []Fits => MappingsStay
  <1>1. SpacesInv /\ Fits /\ [PagingNext]_allVars => EntriesStay
    BY NextKeepsSpaces
  <1>2. PagingSpec /\ []Fits => []SpacesInv
    BY SpacesInvariant
  <1>3. PagingSpec /\ []Fits => [][EntriesStay]_allVars
    BY <1>1, <1>2, PTL DEF PagingSpec
  <1> QED
    BY <1>3 DEF MappingsStay, EntriesStay

LEMMA SpacesInvImpliesTopIsFresh ==
    ASSUME SpacesInv
    PROVE  TopIsFresh
  <1> SUFFICES ASSUME cr3 # 0, NEW root \in Roots, NEW v \in AboveTop
               PROVE  Translate(root, v) = 0
    BY DEF TopIsFresh
  <1>1. phase = "late"
    BY DEF SpacesInv, TablesInv
  <1>2. kernel_cr3 # 0 /\ kernel_cr3 \in DOMAIN tables
    BY <1>1, TablesAreNumbers DEF SpacesInv, TablesInv
  <1>3. root \in Tops
    BY <1>2 DEF SpacesInv, TopsAreAlike, Tops, Roots
  <1>4. /\ top_virtual_address > KernBase
        /\ \A w \in AboveTop : Translate(kernel_cr3, w) = 0
    BY <1>1 DEF SpacesInv, KernelTopIsFree
  <1>5. v \in Nat /\ KernBase <= v /\ v < AddressEnd
    BY <1>4, PagingAssumption, Spans DEF AboveTop, SpacesInv, TablesInv, Typed
  <1> QED
    BY <1>2, <1>3, <1>4, <1>5, KernelPartIsShared

\* Whatever the one counter for all address spaces promises to the next kmalloc is mapped
\* in none of them.
THEOREM SpacesKeepTheTopFresh == ASSUME RegionsAreApart PROVE PagingSpec /\ []Fits => []TopIsFresh
  BY SpacesInvariant, SpacesInvImpliesTopIsFresh, PTL

LEMMA SpacesInvImpliesOnePurpose == SpacesInv => NoPageServesTwice
  BY DEF SpacesInv, PagesAreOwned, NoPageServesTwice

\* Over all address spaces no page is mapped for two purposes, nor is both memory and a
\* table.
THEOREM SpacesShareNoPage == ASSUME RegionsAreApart PROVE PagingSpec /\ []Fits => []NoPageServesTwice
  BY SpacesInvariant, SpacesInvImpliesOnePurpose, PTL

\* Between two calls nothing is left of the last one.
IdleCall == call.kind = "none" => call = NoCall

LEMMA NextKeepsIdleCall ==
    ASSUME SpacesInv, IdleCall, [PagingNext]_allVars
    PROVE  IdleCall'
  <1>1. call \in Call
    BY DEF SpacesInv, TablesInv, Typed
  <1>2. \A kind, v, pages : Mapping(kind, v, pages).kind = kind
    BY DEF Mapping
  <1>3. CASE create_kernel_pml4
    <2>1. call'.kind = "boot"
      BY <1>3 DEF create_kernel_pml4, Mapping
    <2> QED
      BY <2>1 DEF IdleCall
  <1>4. CASE map_all_kernel_pages
    <2>1. call.kind = "boot" /\ (call' = call \/ call' = [call EXCEPT !.v = @ + 1, !.page = @ + 1])
      BY <1>4 DEF map_all_kernel_pages, AddTable
    <2>2. call'.kind = "boot"
      BY <1>1, <2>1 DEF Call
    <2> QED
      BY <2>2 DEF IdleCall
  <1>5. CASE map_video_memory
    <2>1. call'.kind = "boot"
      BY <1>5 DEF map_video_memory, Mapping
    <2> QED
      BY <2>1 DEF IdleCall
  <1>6. CASE kmalloc_user
    <2>1. call'.kind = "heap"
      BY <1>2, <1>6 DEF kmalloc_user
    <2> QED
      BY <2>1 DEF IdleCall
  <1>7. CASE create_new_user_pml4
    <2>1. call' = call \/ call'.kind = "pml4"
      BY <1>7 DEF create_new_user_pml4, Mapping
    <2> QED
      BY <2>1 DEF IdleCall
  <1>8. CASE kmalloc_top_virtual_address_user
    <2>1. call' = Mapping(todo[1].op, todo[1].start, todo[1].pages) /\ todo[1].op \in {"segment", "stack"}
      BY <1>8 DEF kmalloc_top_virtual_address_user, Reaches
    <2>2. call'.kind = todo[1].op
      BY <2>1 DEF Mapping
    <2> QED
      BY <2>1, <2>2 DEF IdleCall
  <1>9. CASE TakePageToMap
    <2>1. call.kind # "none" /\ (call' = call \/ call' = [call EXCEPT !.page = Fresh])
      BY <1>9 DEF TakePageToMap
    <2>2. call'.kind = call.kind
      BY <1>1, <2>1 DEF Call
    <2> QED
      BY <2>1, <2>2 DEF IdleCall
  <1>10. CASE page_walk_user_SetEntry
    <2>1. call.kind # "none" /\ call' = [call EXCEPT !.v = @ + 1, !.page = 0]
      BY <1>10 DEF page_walk_user_SetEntry, Walking
    <2>2. call'.kind = call.kind
      BY <1>1, <2>1 DEF Call
    <2> QED
      BY <2>1, <2>2 DEF IdleCall
  <1>11. CASE \/ LoadKernelTables \/ page_walk_user_AlreadyMapped \/ SegmentReturns \/ CallReturns
    <2>1. call' = NoCall
      BY <1>11 DEF LoadKernelTables, page_walk_user_AlreadyMapped, SegmentReturns, CallReturns
    <2> QED
      BY <2>1 DEF IdleCall
  <1>12. CASE \/ BuildFreeList \/ get_elf \/ page_walk_user_AddTable \/ ProcessCreated
              \/ set_cr3 \/ exec_new_binary \/ PageFault \/ UNCHANGED allVars
    <2>1. call' = call
      BY <1>12 DEF BuildFreeList, get_elf, page_walk_user_AddTable, AddTable, ProcessCreated,
                   set_cr3, exec_new_binary, PageFault, allVars, pagingVars
    <2> QED
      BY <2>1 DEF IdleCall
  <1> QED
    BY <1>3, <1>4, <1>5, <1>6, <1>7, <1>8, <1>9, <1>10, <1>11, <1>12 DEF PagingNext

LEMMA SpacesInvImpliesTypes ==
    ASSUME SpacesInv, Fits, IdleCall
    PROVE  PagingTypeOK
  <1>1. DOMAIN tables \subseteq Nat \ {0}
    BY TablesAreNumbers DEF SpacesInv
  <1>2. \A t \in DOMAIN tables : tables[t] \in [Slots -> [page : Nat, user : BOOLEAN]]
    BY DEF SpacesInv, TablesInv, Typed, Table
  <1>3. kernel_cr3 \in DOMAIN tables \union {0}
    BY DEF SpacesInv, TablesInv
  <1>4. cr3 \in DOMAIN tables \union {0}
    <2>1. phase = "late" => cr3 \in Tops
      BY <1>1 DEF SpacesInv, TablesInv, TopsAreAlike
    <2> QED
      BY <2>1 DEF SpacesInv, TablesInv, Tops
  <1>5. top_virtual_address \in 0..(AddressEnd - 1)
    BY Spans DEF SpacesInv, TablesInv, Typed, Fits
  <1>6. call.v \in 0..AddressEnd
    <2>1. call.v \in Nat /\ call.beyond \in Nat /\ call.kind \in Kinds /\ call.v <= call.beyond
      BY DEF SpacesInv, TablesInv, Typed, Call, CallFits
    <2>2. CASE call.kind = "none"
      <3>1. call.v = 0
        BY <2>2 DEF IdleCall, NoCall
      <3> QED
        BY <3>1, Spans
    <2>3. CASE call.kind = "boot"
      <3> DEFINE p == Physfree \div PAGESIZE
                 n == free_list_page_length
      <3>1. p \in Nat /\ Physbase \in Nat /\ Physbase <= p
        BY ImageIsBelowPhysfree
      <3>2. n \in Nat
        BY TypeFacts DEF SpacesInv, TablesInv, IInv, Counted
      <3>3. KernBase + p + n + TopSlack < AddressEnd
        BY DEF Fits
      <3>4. call.beyond = KernBase + p + n + MapSlack + 1 \/ call.beyond = KernBase + VideoPage + 2
        BY <2>3 DEF SpacesInv, CallFits
      <3> HIDE DEF p, n
      <3>5. /\ MapSlack + 1 <= TopSlack /\ VideoPage + 2 <= Physbase /\ KernBase \in Nat
            /\ MapSlack \in Nat /\ TopSlack \in Nat /\ VideoPage \in Nat
        BY PagingAssumption
      <3>6. call.beyond <= AddressEnd
        BY <2>1, <3>1, <3>2, <3>3, <3>4, <3>5, Spans
      <3> QED
        BY <2>1, <3>6, Spans
    <2>4. CASE call.kind \in {"heap", "pml4"}
      <3>1. call.v = top_virtual_address
        BY <2>4 DEF SpacesInv, CallFits
      <3> QED
        BY <1>5, <3>1, Spans
    <2>5. CASE call.kind \in {"segment", "stack"}
      <3>1. call.beyond <= UserEnd
        BY <2>5 DEF SpacesInv, CallFits
      <3>2. UserEnd <= AddressEnd
        <4>1. \A f, s \in Nat : (f - 2) * s <= f * s
          OBVIOUS
        <4>2. Span(3) \in Nat /\ Fanout \in Nat
          BY Spans
        <4> QED
          BY <4>1, <4>2 DEF UserEnd, AddressEnd
      <3> QED
        BY <2>1, <3>1, <3>2, Spans
    <2> QED
      BY <2>1, <2>2, <2>3, <2>4, <2>5 DEF Kinds
  <1> QED
    BY <1>1, <1>2, <1>3, <1>4, <1>5, <1>6 DEF PagingTypeOK

\* The tables are tables of entries, the roots in use are among them, and addresses fit
\* their width.
THEOREM SpacesKeepTypes == ASSUME RegionsAreApart PROVE PagingSpec /\ []Fits => []PagingTypeOK
  <1>1. PagingInit => IdleCall
    BY DEF PagingInit, IdleCall
  <1>2. PagingSpec /\ []Fits => []SpacesInv
    BY SpacesInvariant
  <1>3. PagingSpec /\ []Fits => []IdleCall
    BY <1>1, <1>2, NextKeepsIdleCall, PTL DEF PagingSpec
  <1> QED
    BY <1>2, <1>3, SpacesInvImpliesTypes, PTL

-----------------------------------------------------------------------------
(* When what is mapped above KERNBASE fits there *)

(***************************************************************************)
(* As many pages as the machine has, the image and the slack fit between   *)
(* KERNBASE and the end of the address space (512 GB on the hardware).     *)
(***************************************************************************)
MemoryFits ==
    /\ KernBase + Physfree \div PAGESIZE + TopSlack < AddressEnd
    /\ \A m \in Smaps : \A i \in 1..Len(m) :
          Counts(m[i]) => KernBase + TopSlack + round_up(End(m[i])) + 1 < AddressEnd

\* A page waits to be mapped at the top.
Pending(c) == IF MovesTop(c) /\ c.page # 0 THEN 1 ELSE 0

\* The top moves once for a page from the allocator.
TopCounts ==
    /\ phase # "late" => top_virtual_address = 0
    /\ phase = "late" =>
          top_virtual_address + Pending(call)
             <= KernBase + Physfree \div PAGESIZE + free_list_page_length + TopSlack
                + Len(handed_out)

\* MemoryInv, of which IInv holds a part already.
AllListed == \A i \in 1..Len(free_list) : Listed(free_list[i])

LEMMA ListIsAsLongAsMemory ==
    ASSUME MemoryFits, IInv, AllListed
    PROVE  KernBase + Physfree \div PAGESIZE + TopSlack + Len(free_list) < AddressEnd
  <1> DEFINE L == Len(free_list)
             p == Physfree \div PAGESIZE
             R == round_up(Physfree)
  <1>1. L \in Nat /\ \A i \in 1..L : free_list[i] \in Nat
    BY TypeFacts DEF IInv, Counted
  <1>2. /\ KernBase \in Nat /\ TopSlack \in Nat /\ AddressEnd \in Nat
        /\ p \in Nat
    BY PagingAssumption, ImageIsBelowPhysfree, Spans
  <1>3. R \in Nat /\ p <= R
    <2>1. Physfree \in Nat /\ PAGESIZE \in Nat \ {0}
      BY SizesAssumption
    <2> QED
      BY <2>1, RoundUpIsAPage DEF round_up
  <1>4. CASE L = 0
    BY <1>2, <1>4 DEF MemoryFits
  <1>5. CASE L # 0
    <2>1. L \in 1..L
      BY <1>1, <1>5
    <2>2. R + L - 1 <= free_list[L] /\ Listed(free_list[L])
      BY <2>1 DEF IInv, ListAscends, AllListed
    <2>3. PICK r \in 1..(entry - 1) : Touches(free_list[L], smap[r])
      BY <2>2 DEF Listed
    <2>4. Counts(smap[r]) /\ free_list[L] <= round_up(End(smap[r]))
      BY <2>3 DEF Touches
    <2>5. smap \in Smaps /\ r \in 1..Len(smap)
      <3>1. smap \in Smaps /\ entry \in 1..(Len(smap) + 1)
        BY DEF IInv, Counted, TypeOK
      <3>2. Len(smap) \in Nat
        BY <3>1, SmapsAssumption
      <3> QED
        BY <3>1, <3>2
    <2>6. round_up(End(smap[r])) \in Nat
      BY <2>5, RegionPages
    <2>7. KernBase + TopSlack + round_up(End(smap[r])) + 1 < AddressEnd
      BY <2>4, <2>5 DEF MemoryFits
    <2>8. free_list[L] \in Nat
      BY <1>1, <2>1
    <2> HIDE DEF L, R, p
    <2>9. KernBase + p + TopSlack + L < AddressEnd
      <3>1. R + L - 1 <= round_up(End(smap[r]))
        BY <1>1, <1>3, <2>2, <2>4, <2>6, <2>8
      <3> QED
        BY <1>1, <1>2, <1>3, <2>6, <2>7, <3>1
    <2> QED
      BY <2>9 DEF p, L
  <1> QED
    BY <1>4, <1>5

LEMMA CountedFits ==
    ASSUME MemoryFits, SpacesInv, AllListed, TopCounts
    PROVE  Fits
  <1> DEFINE p == Physfree \div PAGESIZE
             n == free_list_page_length
             L == Len(free_list)
             h == Len(handed_out)
  <1>1. KernBase + p + TopSlack + L < AddressEnd
    BY ListIsAsLongAsMemory DEF SpacesInv, TablesInv
  <1>2. TypeOK
    BY DEF SpacesInv, TablesInv, IInv, Counted
  <1>3. n \in Nat /\ L \in Nat /\ h \in Nat
    BY <1>2, TypeFacts
  <1>4. n <= L
    BY <1>2, <1>3 DEF TypeOK
  <1>5. phase = "late" => h + n <= L
    BY DEF SpacesInv, TablesInv, IInv, Counted, HeadFollowsTheHandedOut
  <1>6. KernBase \in Nat /\ TopSlack \in Nat /\ AddressEnd \in Nat /\ p \in Nat
    <2>1. KernBase \in Nat /\ TopSlack \in Nat
      BY PagingAssumption
    <2> QED
      BY <2>1, ImageIsBelowPhysfree, Spans
  <1>7. top_virtual_address \in Nat /\ Pending(call) \in {0, 1}
    BY DEF SpacesInv, TablesInv, Typed, Pending
  <1>8. phase = "late" => top_virtual_address + Pending(call) <= KernBase + p + n + TopSlack + h
    BY DEF TopCounts
  <1>9. phase # "late" => top_virtual_address = 0
    BY DEF TopCounts
  <1> HIDE DEF p, n, L, h
  <1>10. KernBase + p + n + TopSlack < AddressEnd
    BY <1>1, <1>3, <1>4, <1>6
  <1>11. top_virtual_address < AddressEnd
    BY <1>1, <1>3, <1>5, <1>6, <1>7, <1>8, <1>9
  <1> QED
    BY <1>10, <1>11 DEF Fits, p, n

\* An allocation lengthens handed_out by one, or not at all.
LEMMA HandedOutGrows ==
    ASSUME SpacesInv, get_next_free_page \/ get_next_free_page_kmalloc
    PROVE  /\ UNCHANGED <<phase, free_list_page_length, free_list, entry, smap>>
           /\ \/ handed_out' = handed_out
              \/ Len(handed_out') = Len(handed_out) + 1
           /\ get_next_free_page_kmalloc /\ ~faulting' => Len(handed_out') = Len(handed_out) + 1
  <1>1. handed_out \in Seq(Nat)
    BY DEF SpacesInv, TablesInv, IInv, Counted, TypeOK
  <1>2. \A e : Len(Append(handed_out, e)) = Len(handed_out) + 1
    BY <1>1
  <1> QED
    BY <1>2 DEF get_next_free_page, get_next_free_page_kmalloc, TakePage, Fault

\* A step that is no more than one allocation for a page at the top.
LEMMA TopGoesOn ==
    ASSUME SpacesInv, SpacesInv', TopCounts, NEW d \in {0, 1},
           UNCHANGED <<phase, free_list_page_length>>,
           Len(handed_out) + d <= Len(handed_out'),
           phase = "late" => top_virtual_address' + Pending(call)' <= top_virtual_address + Pending(call) + d,
           phase # "late" => top_virtual_address' = top_virtual_address
    PROVE  TopCounts'
  <1>1. TypeOK /\ TypeOK'
    BY DEF SpacesInv, TablesInv, IInv, Counted
  <1>2. Len(handed_out) \in Nat /\ Len(handed_out') \in Nat
    <2>1. handed_out \in Seq(Nat) /\ handed_out' \in Seq(Nat)
      BY <1>1 DEF TypeOK
    <2> QED
      BY <2>1
  <1>3. free_list_page_length \in Nat
    BY <1>1, TypeFacts
  <1> DEFINE base == KernBase + Physfree \div PAGESIZE + free_list_page_length + TopSlack
  <1>4. base \in Nat
    <2>1. KernBase \in Nat /\ TopSlack \in Nat
      BY PagingAssumption
    <2> QED
      BY <1>3, <2>1, ImageIsBelowPhysfree
  <1>5. top_virtual_address \in Nat /\ top_virtual_address' \in Nat
    BY DEF SpacesInv, TablesInv, Typed
  <1>6. Pending(call) \in Nat /\ Pending(call)' \in Nat
    BY DEF Pending
  <1>7. CASE phase = "late"
    <2>1. top_virtual_address + Pending(call) <= base + Len(handed_out)
      BY <1>7 DEF TopCounts
    <2>2. top_virtual_address' + Pending(call)' <= top_virtual_address + Pending(call) + d
      BY <1>7
    <2>3. base' = base
      OBVIOUS
    <2> HIDE DEF base
    <2>4. d \in Nat /\ Len(handed_out) + d <= Len(handed_out')
      OBVIOUS
    <2>5. top_virtual_address' + Pending(call)' <= base + Len(handed_out')
      BY <1>2, <1>4, <1>5, <1>6, <2>1, <2>2, <2>4
    <2> QED
      BY <1>7, <2>3, <2>5 DEF TopCounts, base
  <1>8. CASE phase # "late"
    BY <1>8 DEF TopCounts
  <1> QED
    BY <1>7, <1>8

LEMMA NextKeepsTopCounts ==
    ASSUME RegionsAreApart, SpacesInv, SpacesInv', TopCounts, [PagingNext]_allVars
    PROVE  TopCounts'
  <1>1. Len(handed_out) \in Nat /\ Len(handed_out') \in Nat /\ top_virtual_address \in Nat
    <2>1. handed_out \in Seq(Nat) /\ handed_out' \in Seq(Nat)
      BY DEF SpacesInv, TablesInv, IInv, Counted, TypeOK
    <2> QED
      BY <2>1 DEF SpacesInv, TablesInv, Typed
  <1>2. NoCall.kind = "none" /\ Pending(NoCall) = 0
    BY DEF NoCall, Pending
  <1>3. Pending(call) \in {0, 1}
    BY DEF Pending
  <1>4. ASSUME \/ create_kernel_pml4 \/ map_all_kernel_pages \/ map_video_memory
               \/ page_walk_user_AddTable
        PROVE  TopCounts'
    <2>1. top_virtual_address' = top_virtual_address
      BY <1>4 DEF create_kernel_pml4, map_all_kernel_pages, map_video_memory,
                  page_walk_user_AddTable, AddTable
    <2>2. UNCHANGED vars \/ get_next_free_page \/ get_next_free_page_kmalloc
      BY <1>4 DEF create_kernel_pml4, map_all_kernel_pages, map_video_memory,
                  page_walk_user_AddTable, AddTable
    <2>3. /\ UNCHANGED <<phase, free_list_page_length>>
          /\ Len(handed_out) + 0 <= Len(handed_out')
      BY <1>1, <2>2, HandedOutGrows DEF vars
    <2>4. phase = "late" => Pending(call)' = Pending(call)
      <3>1. CASE page_walk_user_AddTable
        BY <3>1 DEF page_walk_user_AddTable, AddTable, Pending
      <3>2. CASE create_kernel_pml4
        BY <3>2 DEF create_kernel_pml4, get_next_free_page
      <3>3. CASE map_all_kernel_pages \/ map_video_memory
        BY <3>3 DEF map_all_kernel_pages, map_video_memory, SpacesInv, TablesInv
      <3> QED
        BY <1>4, <3>1, <3>2, <3>3
    <2> QED
      BY <1>1, <1>3, <2>1, <2>3, <2>4, TopGoesOn
  <1>5. CASE LoadKernelTables
    <2>1. /\ phase' = "late" /\ call' = NoCall
          /\ top_virtual_address' = KernBase + Physfree \div PAGESIZE + free_list_page_length + TopSlack
          /\ UNCHANGED <<handed_out, free_list_page_length>>
      BY <1>5 DEF LoadKernelTables, set_new_free_list_head
    <2>2. KernBase \in Nat /\ TopSlack \in Nat /\ Physfree \div PAGESIZE \in Nat
      BY PagingAssumption, ImageIsBelowPhysfree
    <2>3. free_list_page_length \in Nat
      BY TypeFacts DEF SpacesInv, TablesInv, IInv, Counted
    <2>4. Pending(call)' = 0
      BY <1>2, <2>1 DEF Pending
    <2> QED
      BY <1>1, <2>1, <2>2, <2>3, <2>4 DEF TopCounts
  <1>6. CASE BuildFreeList
    <2>1. /\ UNCHANGED <<top_virtual_address, call>> /\ phase # "late" /\ phase' # "late"
      BY <1>6 DEF BuildFreeList, append_free_list, set_free_list_head, pagingVars
    <2> QED
      BY <2>1 DEF TopCounts
  <1>7. CASE create_new_user_pml4
    <2>1. /\ get_next_free_page_kmalloc /\ call = NoCall
          /\ UNCHANGED top_virtual_address
          /\ faulting' => call' = call
      BY <1>7 DEF create_new_user_pml4, Reaches
    <2>2. UNCHANGED <<phase, free_list_page_length>>
      BY <2>1, HandedOutGrows
    <2>3. CASE faulting'
      <3>1. Len(handed_out) + 0 <= Len(handed_out') /\ Pending(call)' = Pending(call)
        BY <1>1, <2>1, <2>3, HandedOutGrows DEF Pending
      <3> QED
        BY <1>1, <1>3, <2>1, <2>2, <3>1, TopGoesOn
    <2>4. CASE ~faulting'
      <3>1. Len(handed_out) + 1 <= Len(handed_out')
        BY <1>1, <2>1, <2>4, HandedOutGrows
      <3>2. Pending(call)' \in {0, 1} /\ Pending(call) = 0
        BY <1>2, <2>1 DEF Pending
      <3> QED
        BY <1>1, <2>1, <2>2, <3>1, <3>2, TopGoesOn
    <2> QED
      BY <2>3, <2>4
  <1>8. CASE TakePageToMap
    <2>1. /\ get_next_free_page_kmalloc /\ call.page = 0
          /\ UNCHANGED top_virtual_address
          /\ faulting' => call' = call
      BY <1>8 DEF TakePageToMap
    <2>2. UNCHANGED <<phase, free_list_page_length>>
      BY <2>1, HandedOutGrows
    <2>3. CASE faulting'
      <3>1. Len(handed_out) + 0 <= Len(handed_out') /\ Pending(call)' = Pending(call)
        BY <1>1, <2>1, <2>3, HandedOutGrows DEF Pending
      <3> QED
        BY <1>1, <1>3, <2>1, <2>2, <3>1, TopGoesOn
    <2>4. CASE ~faulting'
      <3>1. Len(handed_out) + 1 <= Len(handed_out')
        BY <1>1, <2>1, <2>4, HandedOutGrows
      <3>2. Pending(call)' \in {0, 1} /\ Pending(call) = 0
        BY <2>1 DEF Pending
      <3> QED
        BY <1>1, <2>1, <2>2, <3>1, <3>2, TopGoesOn
    <2> QED
      BY <2>3, <2>4
  <1>9. CASE page_walk_user_SetEntry
    <2>1. /\ UNCHANGED vars /\ call.page # 0 /\ call' = [call EXCEPT !.v = @ + 1, !.page = 0]
          /\ top_virtual_address' = top_virtual_address + (IF MovesTop(call) THEN 1 ELSE 0)
          /\ Walking
      BY <1>9 DEF page_walk_user_SetEntry, AtLeaf
    <2>2. phase = "late"
      BY <2>1, WalkingIs
    <2>3. call'.page = 0
      BY <2>1, CallGoesOn DEF SpacesInv, TablesInv, Typed
    <2>4. Pending(call)' = 0
      BY <2>3 DEF Pending
    <2>5. Pending(call) = IF MovesTop(call) THEN 1 ELSE 0
      BY <2>1 DEF Pending
    <2>6. UNCHANGED <<phase, free_list_page_length, handed_out>>
      BY <2>1 DEF vars
    <2>7. Len(handed_out) + 0 <= Len(handed_out')
      BY <1>1, <2>6
    <2>8. top_virtual_address' + Pending(call)' <= top_virtual_address + Pending(call) + 0
      BY <1>1, <1>3, <2>1, <2>4, <2>5
    <2> QED
      BY <2>2, <2>6, <2>7, <2>8, TopGoesOn
  <1>10. ASSUME \/ kmalloc_user \/ kmalloc_top_virtual_address_user
                \/ page_walk_user_AlreadyMapped \/ SegmentReturns \/ CallReturns
         PROVE  TopCounts'
    <2>1. UNCHANGED top_virtual_address
      BY <1>10 DEF kmalloc_user, kmalloc_top_virtual_address_user, page_walk_user_AlreadyMapped,
                   SegmentReturns, CallReturns
    <2>2. UNCHANGED <<phase, free_list_page_length, handed_out>>
      BY <1>10 DEF kmalloc_user, kmalloc_top_virtual_address_user, page_walk_user_AlreadyMapped,
                   SegmentReturns, CallReturns, FaultsIf, vars
    <2>3. call'.page = 0
      <3>1. CASE kmalloc_user
        BY <3>1 DEF kmalloc_user, Mapping
      <3>2. CASE kmalloc_top_virtual_address_user
        <4>1. call' = Mapping(todo[1].op, todo[1].start, todo[1].pages)
          BY <3>2 DEF kmalloc_top_virtual_address_user
        <4> QED
          BY <4>1 DEF Mapping
      <3>3. CASE page_walk_user_AlreadyMapped \/ SegmentReturns \/ CallReturns
        <4>1. call' = NoCall
          BY <3>3 DEF page_walk_user_AlreadyMapped, SegmentReturns, CallReturns
        <4> QED
          BY <4>1 DEF NoCall
      <3> QED
        BY <1>10, <3>1, <3>2, <3>3
    <2>4. Pending(call)' = 0 /\ Len(handed_out) + 0 <= Len(handed_out')
      BY <1>1, <2>2, <2>3 DEF Pending
    <2> QED
      BY <1>1, <1>3, <2>1, <2>2, <2>4, TopGoesOn
  <1>11. ASSUME \/ get_elf \/ ProcessCreated \/ set_cr3 \/ exec_new_binary \/ PageFault
                \/ UNCHANGED allVars
         PROVE  TopCounts'
    <2>1. UNCHANGED <<top_virtual_address, call>>
      BY <1>11 DEF get_elf, ProcessCreated, set_cr3, exec_new_binary, PageFault, allVars, pagingVars
    <2>2. UNCHANGED <<phase, free_list_page_length, handed_out>>
      BY <1>11 DEF get_elf, FaultsIf, ProcessCreated, set_cr3, exec_new_binary, PageFault,
                   page_fault_handler, allVars, vars
    <2> QED
      BY <2>1, <2>2 DEF TopCounts
  <1> QED
    BY <1>4, <1>5, <1>6, <1>7, <1>8, <1>9, <1>10, <1>11 DEF PagingNext

LEMMA NextKeepsAllListed ==
    ASSUME SpacesInv, AllListed, [PagingNext]_allVars
    PROVE  AllListed'
  <1>1. CASE append_free_list
    <2>1. MemoryInv
      BY DEF MemoryInv, AllListed, SpacesInv, TablesInv, IInv
    <2> QED
      BY <1>1, <2>1, AppendKeepsMemory DEF MemoryInv, AllListed
  <1>2. CASE ~append_free_list
    <2>1. UNCHANGED <<free_list, entry, smap>>
      <3>1. CASE \/ BuildFreeList \/ create_kernel_pml4 \/ map_all_kernel_pages \/ map_video_memory
                 \/ LoadKernelTables \/ get_elf \/ kmalloc_user \/ create_new_user_pml4
                 \/ kmalloc_top_virtual_address_user \/ TakePageToMap
        BY <1>2, <3>1, HandedOutGrows
           DEF BuildFreeList, set_free_list_head, create_kernel_pml4, map_all_kernel_pages, AddTable,
               map_video_memory, LoadKernelTables, set_new_free_list_head, get_elf, FaultsIf,
               kmalloc_user, create_new_user_pml4, kmalloc_top_virtual_address_user, TakePageToMap, vars
      <3>2. CASE \/ page_walk_user_AddTable \/ page_walk_user_SetEntry \/ page_walk_user_AlreadyMapped
                 \/ SegmentReturns \/ CallReturns \/ ProcessCreated \/ set_cr3 \/ exec_new_binary
                 \/ PageFault \/ UNCHANGED allVars
        BY <3>2, HandedOutGrows
           DEF page_walk_user_AddTable, AddTable, page_walk_user_SetEntry,
               page_walk_user_AlreadyMapped, SegmentReturns, FaultsIf, CallReturns, ProcessCreated,
               set_cr3, exec_new_binary, PageFault, page_fault_handler, allVars, vars
      <3> QED
        BY <3>1, <3>2 DEF PagingNext
    <2> QED
      BY <2>1, ListFactsAreStable DEF AllListed
  <1> QED
    BY <1>1, <1>2

\* The kernel's calls never run out of addresses in a machine whose memory fits.
THEOREM SpacesFit == ASSUME RegionsAreApart, MemoryFits PROVE PagingSpec => []Fits
  <1> DEFINE J == SpacesInv /\ AllListed /\ TopCounts
  <1>1. PagingInit => J
    <2> SUFFICES ASSUME PagingInit PROVE J
      OBVIOUS
    <2>1. SpacesInv
      BY InitHasSpaces
    <2>2. AllListed
      <3>1. MemoryInv
        BY InitEstablishesIInv DEF PagingInit, Init, IInv, MemoryInv
      <3> QED
        BY <3>1 DEF MemoryInv, AllListed
    <2>3. TopCounts
      BY DEF PagingInit, Init, TopCounts
    <2> QED
      BY <2>1, <2>2, <2>3
  <1>2. J => Fits
    BY CountedFits
  <1>3. J /\ [PagingNext]_allVars => J'
    <2> SUFFICES ASSUME J, [PagingNext]_allVars PROVE J'
      OBVIOUS
    <2>1. Fits
      BY <1>2
    <2>2. SpacesInv'
      BY <2>1, NextKeepsSpaces
    <2>3. TopCounts'
      BY <2>2, NextKeepsTopCounts
    <2>4. AllListed'
      BY NextKeepsAllListed
    <2> QED
      BY <2>2, <2>3, <2>4
  <1> QED
    BY <1>1, <1>2, <1>3, PTL DEF PagingSpec

-----------------------------------------------------------------------------
(* Paging and the allocator *)

\* The kernel faults for a reason of its own, and leaves the allocator as it is.
FaultsElsewhere == \E condition \in BOOLEAN : FaultsIf(condition)

LEMMA PagingStepIsFreeListStep ==
    ASSUME [PagingNext]_allVars
    PROVE  [Next \/ FaultsElsewhere]_vars
  <1>1. CASE UNCHANGED allVars
    BY <1>1 DEF allVars
  <1>2. CASE BuildFreeList
    BY <1>2 DEF BuildFreeList, Next
  <1>3. CASE create_kernel_pml4 \/ LoadKernelTables
    BY <1>3 DEF create_kernel_pml4, LoadKernelTables, Next
  <1>4. CASE map_all_kernel_pages \/ page_walk_user_AddTable
    <2>1. get_next_free_page \/ get_next_free_page_kmalloc \/ UNCHANGED vars
      BY <1>4 DEF map_all_kernel_pages, page_walk_user_AddTable, AddTable
    <2> QED
      BY <2>1 DEF Next
  <1>5. CASE create_new_user_pml4 \/ TakePageToMap
    BY <1>5 DEF create_new_user_pml4, TakePageToMap, Next
  <1>6. CASE get_elf \/ page_walk_user_AlreadyMapped \/ SegmentReturns
    <2>1. ASSUME get_elf PROVE FaultsElsewhere
      <3>1. PICK b : FaultsIf(IF b = NoFile THEN spaces = << >> ELSE ~StartsWith(b))
        BY <2>1 DEF get_elf
      <3>2. CASE b = NoFile
        <4>1. FaultsIf(spaces = << >>)
          BY <3>1, <3>2
        <4> QED
          BY <4>1 DEF FaultsElsewhere
      <3>3. CASE b # NoFile
        <4>1. FaultsIf(~StartsWith(b))
          BY <3>1, <3>3
        <4> QED
          BY <4>1 DEF FaultsElsewhere, StartsWith
      <3> QED
        BY <3>2, <3>3
    <2>2. ASSUME page_walk_user_AlreadyMapped PROVE FaultsElsewhere
      <3>1. FaultsIf(TRUE) \/ FaultsIf(FALSE)
        BY <2>2 DEF page_walk_user_AlreadyMapped, FaultsIf
      <3> QED
        BY <3>1 DEF FaultsElsewhere
    <2>3. ASSUME SegmentReturns PROVE FaultsElsewhere
      <3>1. FaultsIf(FALSE) \/ FaultsIf(TRUE)
        BY <2>3 DEF SegmentReturns
      <3> QED
        BY <3>1 DEF FaultsElsewhere
    <2> QED
      BY <1>6, <2>1, <2>2, <2>3
  <1>7. CASE map_video_memory \/ kmalloc_user \/ kmalloc_top_virtual_address_user
             \/ page_walk_user_SetEntry \/ CallReturns \/ ProcessCreated \/ set_cr3 \/ exec_new_binary
    BY <1>7 DEF map_video_memory, kmalloc_user, kmalloc_top_virtual_address_user,
       page_walk_user_SetEntry, CallReturns, ProcessCreated, set_cr3, exec_new_binary
  <1>8. CASE PageFault
    BY <1>8 DEF PageFault, Next
  <1> QED
    BY <1>1, <1>2, <1>3, <1>4, <1>5, <1>6, <1>7, <1>8 DEF PagingNext

(***************************************************************************)
(* All that address spaces and process creation do to the allocator is one *)
(* of its own operations, at the time its phase allows, or a fault of the  *)
(* kernel that leaves its list alone.                                      *)
(***************************************************************************)
THEOREM PagingStepsAreFreeListSteps ==
    PagingSpec => Init /\ [][Next \/ FaultsElsewhere]_vars
  <1>1. PagingInit => Init
    BY DEF PagingInit
  <1>2. [PagingNext]_allVars => [Next \/ FaultsElsewhere]_vars
    BY PagingStepIsFreeListStep
  <1> QED
    BY <1>1, <1>2, PTL DEF PagingSpec
=============================================================================
