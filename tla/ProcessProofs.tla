---------------------------- MODULE ProcessProofs ----------------------------
(***************************************************************************)
(* Process creation in Paging, for every set of files, every number of     *)
(* processes and every machine whose regions lie apart: a process has its  *)
(* memory and its first segment, only a bad file halts the kernel, and no  *)
(* page is lost but the one of a segment that is refused.                  *)
(* Beside SpacesInv the proofs need which of create_process's tasks is     *)
(* next (Plan), what is mapped and copied in the space it builds (Built),  *)
(* and where each page handed out is (Account).                            *)
(***************************************************************************)
EXTENDS PagingProofs

-----------------------------------------------------------------------------
(* The invariant *)

Areas(b) == Len(vmas(b))

\* The n-th task from the end of load_elf_vmas and create_process.
IsTask(b, n, task) ==
    /\ n = 1 => task = Done(b)
    /\ n = 2 => task = Stack
    /\ n \in 3..(Areas(b) + 2) => task = Segment(vmas(b)[Areas(b) + 3 - n])
    /\ n = Areas(b) + 3 => task = Pml4
    /\ n > Areas(b) + 3 => task.op = "heap"

\* The tasks of create_dummy_process, for which there is no file.
Plain(task) == task.op \in {"heap", "pml4"} \/ task = Done(<< >>)

\* Of the tasks for the file, m are left.
Left(m) ==
    /\ m > 0 => file \in Binaries
    /\ \A i \in 1..m : IsTask(file, m - i + 1, todo[i])
    /\ \A i \in (m + 1)..Len(todo) : Plain(todo[i])

Searches ==
    /\ todo # << >>
    /\ todo[1] = Find
    /\ \A i \in 2..Len(todo) : Plain(todo[i])

\* Of a call for a segment or the stack: where it stands in its task.
Places(c) == c.kind \in {"segment", "stack"}
CallIsOfTask ==
    Places(call) =>
        /\ todo[1].start <= call.v
        /\ call.beyond = todo[1].start + todo[1].pages

\* The pages it has mapped.
Behind(v) == Places(call) /\ todo[1].start <= v /\ v < call.v

\* The area is mapped in a space, and filled with its part of the file.
Filled(page, b, from) ==
    page \in DOMAIN contents /\ contents[page] = [file |-> b, from |-> from]
Has(root, b, i) ==
    \A v \in PagesOf(vmas(b)[i]) :
        /\ Translate(root, v) # 0
        /\ Filled(Translate(root, v), b, PartFor(vmas(b)[i], v))

\* With m tasks left, these areas of the file are in place.
InPlace(b, m) == {i \in DOMAIN vmas(b) : i + m <= Areas(b) + 2}

\* What is mapped in the space that is being built, with m tasks left.
BuiltIn(root, b, m) ==
    /\ \A i \in InPlace(b, m) : Has(root, b, i)
    /\ m = 1 => Translate(root, StackPage) # 0
    /\ \A v \in 0..(UserEnd - 1) :
          /\ Behind(v) => /\ Translate(root, v) # 0
                          /\ \A i \in InPlace(b, m) : v \notin PagesOf(vmas(b)[i])
          /\ Translate(root, v) # 0 =>
                \/ Behind(v)
                \/ \E i \in InPlace(b, m) : v \in PagesOf(vmas(b)[i])
                \/ m = 1 /\ v = StackPage
Built(m) == m > 0 /\ m <= Areas(file) + 2 => BuiltIn(process_cr3, file, m)

Plan ==
    phase = "late" /\ ~faulting => Searches \/ \E m \in 0..Len(todo) : Left(m) /\ Built(m)

\* What is mapped in the space of a process that has been created.
SpaceIsBuilt(root, b) ==
    b # << >> =>
        /\ b \in Binaries
        /\ Translate(root, StackPage) # 0
        /\ \A i \in DOMAIN vmas(b) : Has(root, b, i)
Created == {spaces[k] : k \in 1..Len(spaces)}
SpacesAreBuilt == \A space \in Created : SpaceIsBuilt(space.cr3, space.binary)

\* The top-level tables of processes; below UserEnd their entries are for users.
Spaces == ({space.cr3 : space \in Created} \union {process_cr3}) \intersect DOMAIN tables
UserPaths ==
    \A r \in Spaces, v \in 0..(UserEnd - 1), l \in 0..3 :
        LET t == Path(r, v)[l]
        IN  t # 0 /\ tables[t][Slot(v, l)].page # 0 => tables[t][Slot(v, l)].user

ProcessInv ==
    /\ phase # "late" => ~faulting
    /\ CallIsOfTask
    /\ Plan
    /\ SpacesAreBuilt
    /\ UserPaths
    /\ OnlyABadFileHalts

-----------------------------------------------------------------------------
(* The areas of a file *)

\* A distance and the multiple of the page it is measured from.
LEMMA ShiftedQuotient ==
    ASSUME NEW a \in Nat, NEW c \in Nat, NEW n \in Nat \ {0}, c * n <= a
    PROVE  a \div n = c + (a - c * n) \div n
  <1> DEFINE x == a - c * n
             q == x \div n
             r == x % n
  <1>1. c * n \in Nat
    OBVIOUS
  <1>2. x \in Nat
    BY <1>1
  <1> HIDE DEF x
  <1>3. q \in Nat /\ r \in 0..(n - 1) /\ x = n * q + r
    BY <1>2
  <1> HIDE DEF q, r
  <1>4. n * q \in Nat /\ n * (c + q) = c * n + n * q /\ n * (c + q + 1) = c * n + n * q + n
    BY <1>3
  <1>5. a = c * n + x
    BY <1>1 DEF x
  <1>6. n * (c + q) <= a /\ a < n * (c + q + 1)
    BY <1>1, <1>3, <1>4, <1>5
  <1>7. c + q \in Int
    BY <1>3
  <1> QED
    BY <1>6, <1>7, QuotientIs DEF q, x

\* The first page of an area, and how many it has, by the addresses of its bytes.
LEMMA PagesBetween ==
    ASSUME NEW from \in Nat, NEW size \in Nat \ {0}
    PROVE  LET s == from \div PAGESIZE
           IN  s + round_up(from + size - s * PAGESIZE) - 1 = (from + size - 1) \div PAGESIZE
  <1> DEFINE n == PAGESIZE
             s == from \div n
             r == from % n
             a == from + size - 1
  <1>1. n \in Nat \ {0}
    BY SizesAssumption
  <1>2. s \in Nat /\ r \in 0..(n - 1) /\ from = n * s + r
    BY <1>1
  <1>3. a \in Nat
    OBVIOUS
  <1> HIDE DEF s, r, n
  <1>4. n * s = s * n /\ s * n \in Nat
    BY <1>1, <1>2
  <1>5. s * n <= a
    BY <1>1, <1>2, <1>4
  <1>6. a \div n = s + (a - s * n) \div n
    BY <1>1, <1>2, <1>3, <1>5, ShiftedQuotient
  <1> DEFINE x == a - s * n
             q == x \div n
  <1>7. x \in Nat
    BY <1>3, <1>4, <1>5
  <1>8. from + size - s * n + n - 1 = x + n
    BY <1>1, <1>2, <1>4
  <1> HIDE DEF x, a
  <1>9. (x + n) \div n = q + 1
    <2>1. q \in Nat /\ x % n \in 0..(n - 1) /\ x = n * q + (x % n)
      BY <1>1, <1>7
    <2> HIDE DEF q
    <2>2. n * q \in Nat /\ n * (q + 1) = n * q + n /\ n * ((q + 1) + 1) = n * q + n + n
      BY <1>1, <2>1
    <2>3. n * (q + 1) <= x + n /\ x + n < n * ((q + 1) + 1)
      BY <1>1, <1>7, <2>1, <2>2
    <2> QED
      <3> DEFINE y == x + n
                 t == q + 1
      <3>1. y \in Nat /\ t \in Int /\ n * t <= y /\ y < n * (t + 1)
        BY <1>1, <1>7, <2>1, <2>3
      <3> HIDE DEF y, t
      <3>2. y \div n = t
        BY <1>1, <3>1, QuotientIs
      <3> QED
        BY <3>2 DEF y, t
  <1>10. q \in Nat
    BY <1>1, <1>7
  <1> HIDE DEF q
  <1>11. round_up(from + size - s * n) = q + 1
    BY <1>8, <1>9 DEF round_up, n
  <1>12. a \div n = s + q
    BY <1>6 DEF q, x
  <1> QED
    BY <1>2, <1>10, <1>11, <1>12 DEF a, s, n

LEMMA AreaIs ==
    ASSUME NEW b \in Binaries, NEW i \in DOMAIN vmas(b)
    PROVE  LET vma == vmas(b)[i]
               phdr == Loads(b)[i]
           IN  /\ Areas(b) \in Nat /\ DOMAIN vmas(b) = 1..Areas(b) /\ DOMAIN Loads(b) = 1..Areas(b)
               /\ phdr \in ProgramHeader
               /\ vma = [vm_start |-> phdr.p_vaddr, vm_end |-> phdr.p_vaddr + phdr.p_memsz,
                         vm_offset |-> phdr.p_offset]
               /\ vm_start(vma) \in Nat /\ vm_size(vma) \in Nat
               /\ vm_start(vma) + vm_size(vma) <= UserEnd
               /\ PagesOf(vma) = PagesNeeded(phdr)
  <1> DEFINE vma == vmas(b)[i]
             phdr == Loads(b)[i]
  <1>1. DOMAIN vmas(b) = DOMAIN Loads(b)
    BY DEF vmas
  <1>2. Loads(b) \in Seq(ProgramHeader)
    BY PagingAssumption
  <1>3. DOMAIN Loads(b) = 1..Len(Loads(b)) /\ Len(Loads(b)) \in Nat
    BY <1>2
  <1>4. Len(vmas(b)) = Len(Loads(b))
    BY <1>3 DEF vmas
  <1>5. Areas(b) \in Nat /\ DOMAIN vmas(b) = 1..Areas(b) /\ DOMAIN Loads(b) = 1..Areas(b)
    BY <1>1, <1>3, <1>4 DEF Areas
  <1>6. phdr \in ProgramHeader /\ i \in DOMAIN Loads(b)
    BY <1>1, <1>2
  <1>7. vma = [vm_start |-> phdr.p_vaddr, vm_end |-> phdr.p_vaddr + phdr.p_memsz,
               vm_offset |-> phdr.p_offset]
    BY <1>6 DEF vmas
  <1>8. /\ Segment(vma) \in Task /\ Segment(vma).op = "segment"
        /\ Segment(vma).start + Segment(vma).pages <= UserEnd
    BY SegmentsAre
  <1> HIDE DEF vma, phdr
  <1>9. Segment(vma).start = vm_start(vma) /\ Segment(vma).pages = vm_size(vma)
    BY DEF Segment
  <1>10. vm_start(vma) \in Nat /\ vm_size(vma) \in Nat
    BY <1>8, <1>9 DEF Task
  <1>11. phdr.p_vaddr \in Nat /\ phdr.p_memsz \in Nat /\ phdr.p_filesz \in 1..phdr.p_memsz
    BY <1>6, PagingAssumption DEF phdr, ProgramHeader
  <1>12. phdr.p_memsz \in Nat \ {0}
    BY <1>11
  <1>13. vm_start(vma) + vm_size(vma) - 1 = (phdr.p_vaddr + phdr.p_memsz - 1) \div PAGESIZE
    <2>1. vma.vm_start = phdr.p_vaddr /\ vma.vm_end = phdr.p_vaddr + phdr.p_memsz
      BY <1>7
    <2>2. vm_start(vma) = phdr.p_vaddr \div PAGESIZE
      BY <2>1 DEF vm_start
    <2>3. vm_size(vma) = round_up(phdr.p_vaddr + phdr.p_memsz - (phdr.p_vaddr \div PAGESIZE) * PAGESIZE)
      <3>1. vma.vm_end - vm_start(vma) * PAGESIZE
            = phdr.p_vaddr + phdr.p_memsz - (phdr.p_vaddr \div PAGESIZE) * PAGESIZE
        <4> DEFINE s == vm_start(vma)
        <4>1. s = phdr.p_vaddr \div PAGESIZE
          BY <2>2
        <4> HIDE DEF s
        <4>2. vma.vm_end - s * PAGESIZE
              = phdr.p_vaddr + phdr.p_memsz - (phdr.p_vaddr \div PAGESIZE) * PAGESIZE
          <5>1. phdr.p_vaddr \div PAGESIZE \in Nat /\ PAGESIZE \in Nat
            BY <1>11, SizesAssumption
          <5> QED
            BY <2>1, <4>1, <1>11, <5>1
        <4> QED
          BY <4>2 DEF s
      <3>2. vm_size(vma) = round_up(vma.vm_end - vm_start(vma) * PAGESIZE)
        BY DEF vm_size
      <3> QED
        BY <3>1, <3>2, Zenon
    <2> DEFINE from == phdr.p_vaddr
               size == phdr.p_memsz
    <2>4. from \in Nat /\ size \in Nat \ {0}
      BY <1>11, <1>12
    <2> HIDE DEF from, size
    <2>5. from \div PAGESIZE + round_up(from + size - (from \div PAGESIZE) * PAGESIZE) - 1
          = (from + size - 1) \div PAGESIZE
      BY <2>4, PagesBetween
    <2> QED
      BY <2>2, <2>3, <2>5 DEF from, size
  <1>14. PagesOf(vma) = PagesNeeded(phdr)
    BY <1>7, <1>13 DEF PagesOf, PagesNeeded, vm_start
  <1> QED
    BY <1>5, <1>6, <1>7, <1>8, <1>9, <1>10, <1>14 DEF vma, phdr

\* The pages of files lie in the part of users, where paths are told apart.
LEMMA AreasAreLow ==
    ASSUME NEW b \in Binaries, NEW i \in DOMAIN vmas(b)
    PROVE  /\ PagesOf(vmas(b)[i]) \subseteq 0..(UserEnd - 1)
           /\ \A v \in Int : v \in PagesOf(vmas(b)[i]) <=>
                 /\ vm_start(vmas(b)[i]) <= v
                 /\ v < vm_start(vmas(b)[i]) + vm_size(vmas(b)[i])
  <1> DEFINE s == vm_start(vmas(b)[i])
             n == vm_size(vmas(b)[i])
  <1>1. s \in Nat /\ n \in Nat /\ s + n <= UserEnd /\ UserEnd \in Nat
    BY AreaIs, Spans
  <1>2. PagesOf(vmas(b)[i]) = s..(s + n - 1)
    BY DEF PagesOf
  <1> HIDE DEF s, n
  <1> QED
    BY <1>1, <1>2 DEF s, n

LEMMA UserPages ==
    ASSUME NEW v \in 0..(UserEnd - 1)
    PROVE  /\ v \in Nat /\ v \in 0..(AddressEnd - 1)
           /\ Slot(v, 3) \in Slots /\ Slot(v, 3) # SelfSlot /\ Slot(v, 3) # KernelSlot
           /\ \A l \in 0..3 : Slot(v, l) \in Slots
  <1>1. UserEnd \in Nat /\ AddressEnd \in Nat /\ v \in Nat /\ v < UserEnd
    BY Spans
  <1>2. UserEnd <= AddressEnd
    <2>1. Fanout \in Nat /\ Fanout > 3 /\ Span(3) \in Nat
      BY PagingAssumption, Spans
    <2> DEFINE s == Span(3)
    <2> HIDE DEF s
    <2>2. (Fanout - 2) * s <= Fanout * s
      BY <2>1 DEF s
    <2> QED
      BY <2>2 DEF UserEnd, AddressEnd, s
  <1> QED
    BY <1>1, <1>2, FirstDigit, SlotIsASlot

LEMMA StackIsLow == StackPage \in 0..(UserEnd - 1) /\ StackPage # 0
  BY PagingAssumption, Spans

-----------------------------------------------------------------------------
(* What is mapped for users *)

\* A page is mapped by an entry at each level.
LEMMA MappedPath ==
    ASSUME NEW r, NEW v, Translate(r, v) # 0
    PROVE  \A l \in 0..3 : Path(r, v)[l] # 0 /\ tables[Path(r, v)[l]][Slot(v, l)].page # 0
  <1> DEFINE P(l) == Path(r, v)[l]
             E(l) == tables[P(l)][Slot(v, l)].page
  <1>1. P(0) # 0 /\ E(0) # 0
    BY DEF Translate
  <1>2. \A l \in 0..2 : P(l) = IF P(l + 1) = 0 THEN 0 ELSE E(l + 1)
    BY PathSteps
  <1> HIDE DEF P, E
  <1>3. 0 \in 0..2 /\ 1 \in 0..2 /\ 2 \in 0..2 /\ 0 + 1 = 1 /\ 1 + 1 = 2 /\ 2 + 1 = 3
    OBVIOUS
  <1>4. P(1) # 0 /\ E(1) # 0
    BY <1>1, <1>2, <1>3
  <1>5. P(2) # 0 /\ E(2) # 0
    BY <1>2, <1>3, <1>4
  <1>6. P(3) # 0 /\ E(3) # 0
    BY <1>2, <1>3, <1>5
  <1>7. \A l \in 0..3 : P(l) # 0 /\ E(l) # 0
    BY <1>1, <1>4, <1>5, <1>6, LevelsOfAPath
  <1> QED
    BY <1>7 DEF P, E

\* An entry at the last level is on the path of one address of users, in one space.
LEMMA LeafIsOne ==
    ASSUME NEW lev, Sound(lev), NEW q \in Tops, NEW v \in 0..(UserEnd - 1),
           NEW r \in Tops, NEW w \in 0..(AddressEnd - 1), Slot(w, 3) # SelfSlot,
           Path(q, v)[0] = Path(r, w)[0], Path(q, v)[0] # 0, Slot(v, 0) = Slot(w, 0)
    PROVE  v = w /\ q = r
  <1>1. /\ v \in Nat /\ v \in 0..(AddressEnd - 1) /\ Slot(v, 3) # SelfSlot
        /\ Slot(v, 3) # KernelSlot /\ w \in Nat
    BY UserPages, Spans
  <1>2. /\ TablesInv /\ Fits /\ Leveled(lev) /\ kernel_cr3 # 0 /\ TopsAreAlike /\ PagesAreOwned
    BY DEF Sound
  <1>3. \A l \in 1..3 : Slot(v, l) = Slot(w, l)
    BY <1>1, <1>2, PathsOfLeaves
  <1>4. v = w
    <2>1. \A l \in 0..3 : l = 0 \/ l \in 1..3
      OBVIOUS
    <2>2. \A l \in 0..3 : Slot(v, l) = Slot(w, l)
      BY <1>3, <2>1
    <2> QED
      BY <1>1, <2>2, DigitsDetermine
  <1>5. Path(q, v)[1] # 0 /\ Path(q, v)[1] = Path(r, w)[1]
    <2>1. 0 \in 0..2 /\ 0 + 1 = 1 /\ 0 # 2
      OBVIOUS
    <2> QED
      BY <1>1, <1>2, <2>1, PathsMeetOnce
  <1>6. Path(q, v)[2] # 0 /\ Path(q, v)[2] = Path(r, w)[2]
    <2>1. 1 \in 0..2 /\ 1 + 1 = 2 /\ 1 # 2
      OBVIOUS
    <2> QED
      BY <1>1, <1>2, <1>5, <2>1, PathsMeetOnce
  <1>7. Path(q, v)[3] = Path(r, w)[3]
    <2>1. 2 \in 0..2 /\ 2 + 1 = 3
      OBVIOUS
    <2> QED
      BY <1>1, <1>2, <1>6, <2>1, PathsMeetOnce
  <1> QED
    BY <1>4, <1>7, PathSteps

LEMMA LeafIsOwned ==
    ASSUME NEW lev, Sound(lev), NEW r \in Tops, NEW v \in 0..(UserEnd - 1), Translate(r, v) # 0
    PROVE  /\ <<Path(r, v)[0], Slot(v, 0)>> \in Owners
           /\ PageOf(<<Path(r, v)[0], Slot(v, 0)>>) = Translate(r, v)
  <1> DEFINE t == Path(r, v)[0]
             s == Slot(v, 0)
  <1>1. TablesInv /\ Fits /\ Leveled(lev) /\ kernel_cr3 # 0
    BY DEF Sound
  <1>2. v \in Nat /\ Slot(v, 3) # SelfSlot /\ Slot(v, 3) # KernelSlot /\ s \in Slots
    BY UserPages
  <1>3. t # 0 /\ tables[t][s].page # 0 /\ Translate(r, v) = tables[t][s].page
    BY DEF Translate
  <1>4. t \in DOMAIN tables /\ lev[t] = 0
    <2>1. 0 \in 0..3
      OBVIOUS
    <2> QED
      BY <1>1, <1>2, <1>3, <2>1, PathIsLeveled
  <1>5. t \notin Roots \union {process_cr3}
    <2>1. t \notin Tops
      BY <1>1, <1>4 DEF Leveled
    <2> QED
      BY <1>4, <2>1 DEF Tops
  <1>6. <<t, s>> \notin Direct
    <2> SUFFICES ASSUME <<t, s>> \in Direct PROVE FALSE
      OBVIOUS
    <2>1. PICK w \in DirectMap : <<t, s>> = <<Path(kernel_cr3, w)[0], Slot(w, 0)>>
      BY DEF Direct
    <2>2. w \in 0..(AddressEnd - 1) /\ Slot(w, 3) = KernelSlot /\ Slot(w, 3) # SelfSlot
      <3>1. w \in Nat /\ w < AddressEnd /\ Slot(w, 3) = KernelSlot /\ Slot(w, 3) # SelfSlot
        BY <1>1, DirectMapIsTheKernels
      <3> QED
        BY <3>1, Spans
    <2>3. kernel_cr3 \in Tops
      BY <1>1 DEF Tops, Roots, TablesInv
    <2>4. t = Path(kernel_cr3, w)[0] /\ s = Slot(w, 0)
      BY <2>1
    <2>5. v = w
      BY <1>3, <2>2, <2>3, <2>4, LeafIsOne
    <2> QED
      BY <1>2, <2>2, <2>5
  <1>7. <<t, s>> \in Owners
    BY <1>2, <1>3, <1>4, <1>5, <1>6, OwnersAre
  <1> HIDE DEF t, s
  <1>8. PageOf(<<t, s>>) = tables[t][s].page
    BY DEF PageOf
  <1> QED
    BY <1>3, <1>7, <1>8 DEF t, s

\* Two addresses of users never have the same page.
LEMMA PagesAreApart ==
    ASSUME NEW lev, Sound(lev), NEW q \in Tops, NEW v \in 0..(UserEnd - 1),
           NEW r \in Tops, NEW w \in 0..(UserEnd - 1),
           Translate(q, v) = Translate(r, w), Translate(q, v) # 0
    PROVE  v = w /\ q = r
  <1> DEFINE a == <<Path(q, v)[0], Slot(v, 0)>>
             b == <<Path(r, w)[0], Slot(w, 0)>>
  <1>1. a \in Owners /\ b \in Owners /\ PageOf(a) = PageOf(b)
    BY LeafIsOwned
  <1>2. a = b
    <2> HIDE DEF a, b
    <2> QED
      BY <1>1 DEF Sound, PagesAreOwned
  <1>3. Path(q, v)[0] = Path(r, w)[0] /\ Slot(v, 0) = Slot(w, 0)
    BY <1>2
  <1>4. Path(q, v)[0] # 0
    BY DEF Translate
  <1>5. w \in 0..(AddressEnd - 1) /\ Slot(w, 3) # SelfSlot
    BY UserPages
  <1> QED
    BY <1>3, <1>4, <1>5, LeafIsOne

\* What is mapped stays mapped, at the same page.
LEMMA MappedStays ==
    ASSUME NEW lev, Sound(lev), NEW t0, NEW s0, NEW e, NEW added, Enters(lev, t0, s0, e, added),
           tables[t0][s0].page = 0,
           NEW r \in Tops, NEW v \in 0..(UserEnd - 1), Translate(r, v) # 0
    PROVE  Translate(r, v)' = Translate(r, v)
  <1>1. v \in Nat /\ Slot(v, 3) # SelfSlot
    BY UserPages
  <1>2. ASSUME Path(r, v)[0] = t0, Slot(v, 0) = s0, t0 # 0 PROVE FALSE
    <2>1. Translate(r, v) = tables[t0][s0].page
      BY <1>2 DEF Translate
    <2> QED
      BY <2>1
  <1> QED
    BY <1>1, <1>2, TranslationsGrow

\* The entries made for processes are for users.
LEMMA UserPathsStay ==
    ASSUME NEW lev, Sound(lev), NEW t0, NEW s0, NEW e, NEW added, Enters(lev, t0, s0, e, added),
           e.user = TRUE, UserPaths
    PROVE  UserPaths'
  <1>1. Spaces \subseteq Tops /\ Spaces' = Spaces
    <2>1. /\ process_cr3' = process_cr3 /\ spaces' = spaces
      BY DEF Enters
    <2>2. DOMAIN tables' = DOMAIN tables \union added /\ added \intersect HandedOut = {}
      BY TablesAreAdded DEF Enters
    <2>3. process_cr3 \in HandedOut \union {0} /\ 0 \notin added
      BY DEF Sound, TablesInv, Enters
    <2>4. \A space \in Created : space.cr3 \in DOMAIN tables
      BY DEF Sound, TopsAreAlike, Created
    <2>5. Spaces \subseteq Tops
      BY DEF Spaces, Tops, Roots, Created
    <2> QED
      BY <2>1, <2>2, <2>3, <2>4, <2>5 DEF Spaces, Created
  <1> SUFFICES ASSUME NEW r \in Spaces, NEW v \in 0..(UserEnd - 1), NEW l \in 0..3,
                      Path(r, v)'[l] # 0, tables'[Path(r, v)'[l]][Slot(v, l)].page # 0
               PROVE  tables'[Path(r, v)'[l]][Slot(v, l)].user
    BY <1>1 DEF UserPaths
  <1> DEFINE t == Path(r, v)[l]
             n == Path(r, v)'[l]
             s == Slot(v, l)
  <1>2. r \in Tops /\ v \in Nat /\ Slot(v, 3) # SelfSlot /\ s \in Slots
    BY <1>1, UserPages
  <1>3. n = t \/ n \in added
    BY <1>2, PathsGrow
  <1>4. n \notin added
    <2>1. n \in added => tables'[n] = EmptyTable
      BY EntryIsSet
    <2> HIDE DEF n, s
    <2>2. EmptyTable[s].page = 0
      BY <1>2 DEF EmptyTable, NoEntry
    <2> QED
      BY <2>1, <2>2 DEF n, s
  <1>5. n = t /\ t # 0
    BY <1>3, <1>4
  <1>6. t \in DOMAIN tables
    BY <1>2, <1>5, PathIsLeveled DEF Sound
  <1>7. \/ t = t0 /\ s = s0 /\ tables'[t][s] = e
        \/ tables'[t][s] = tables[t][s]
    BY <1>2, <1>6, EntryIsSet
  <1>8. tables[t][s].page # 0 => tables[t][s].user
    BY <1>5 DEF UserPaths
  <1> HIDE DEF t, s
  <1> QED
    BY <1>5, <1>7, <1>8 DEF t, s

-----------------------------------------------------------------------------
(* What is next *)

\* The tasks of a file, by their place from the end.
LEMMA TaskKinds ==
    ASSUME NEW b \in Binaries, NEW n \in Nat \ {0}, NEW task, IsTask(b, n, task)
    PROVE  /\ Areas(b) \in Nat
           /\ n = 1 <=> task.op = "done"
           /\ n = 2 <=> task.op = "stack"
           /\ n \in 3..(Areas(b) + 2) <=> task.op = "segment"
           /\ n = Areas(b) + 3 <=> task.op = "pml4"
           /\ n > Areas(b) + 3 <=> task.op = "heap"
           /\ n \in 3..(Areas(b) + 2) =>
                 LET i == Areas(b) + 3 - n
                 IN  /\ i \in DOMAIN vmas(b) /\ task = Segment(vmas(b)[i])
                     /\ task.start = vm_start(vmas(b)[i]) /\ task.pages = vm_size(vmas(b)[i])
                     /\ task.vma = vmas(b)[i]
           /\ n = 2 => task.start = StackPage /\ task.pages = 1
           /\ n = 1 => task.binary = b
  <1> DEFINE a == Areas(b)
             i == a + 3 - n
  <1>1. a \in Nat /\ DOMAIN vmas(b) = 1..a
    <2>1. Loads(b) \in Seq(ProgramHeader)
      BY PagingAssumption
    <2>2. Len(vmas(b)) = Len(Loads(b)) /\ DOMAIN vmas(b) = DOMAIN Loads(b)
      BY <2>1 DEF vmas
    <2> QED
      BY <2>1, <2>2 DEF Areas
  <1> HIDE DEF a
  <1>2. n = 1 => task.op = "done" /\ task.binary = b
    BY DEF IsTask, Done
  <1>3. n = 2 => task.op = "stack" /\ task.start = StackPage /\ task.pages = 1
    BY DEF IsTask, Stack, ToDo
  <1>4. n \in 3..(a + 2) =>
          /\ i \in DOMAIN vmas(b) /\ task = Segment(vmas(b)[i])
    BY <1>1 DEF IsTask, a
  <1>5. n \in 3..(a + 2) =>
          /\ task.op = "segment" /\ task.vma = vmas(b)[i]
          /\ task.start = vm_start(vmas(b)[i]) /\ task.pages = vm_size(vmas(b)[i])
    BY <1>4 DEF Segment
  <1>6. n = a + 3 => task.op = "pml4"
    BY DEF IsTask, Pml4, ToDo, a
  <1>7. n > a + 3 => task.op = "heap"
    BY DEF IsTask, a
  <1>8. n = 1 \/ n = 2 \/ n \in 3..(a + 2) \/ n = a + 3 \/ n > a + 3
    BY <1>1
  <1>9. /\ ~(n = 1 /\ n = 2) /\ (n \in 3..(a + 2) => n # 1 /\ n # 2 /\ n # a + 3 /\ ~(n > a + 3))
        /\ (n = a + 3 => n # 1 /\ n # 2 /\ ~(n > a + 3)) /\ (n > a + 3 => n # 1 /\ n # 2)
    BY <1>1
  <1> QED
    BY <1>1, <1>2, <1>3, <1>4, <1>5, <1>6, <1>7, <1>8, <1>9 DEF a

\* Where the kernel is in what it has to do.
LEMMA NextTask ==
    ASSUME SpacesInv, Plan, ~faulting, todo # << >>, todo[1].op # "get_elf"
    PROVE  \E m \in 0..Len(todo) :
             /\ Left(m) /\ Built(m)
             /\ m = 0 => todo[1].op \in {"heap", "pml4"} \/ todo[1] = Done(<< >>)
             /\ m > 0 => file \in Binaries /\ IsTask(file, m, todo[1])
  <1>1. phase = "late" /\ Len(todo) \in Nat \ {0}
    BY WhileToDo
  <1>2. ~Searches
    <2>1. Find.op = "get_elf"
      BY DEF Find, ToDo
    <2> QED
      BY <2>1 DEF Searches
  <1>3. PICK m \in 0..Len(todo) : Left(m) /\ Built(m)
    BY <1>1, <1>2 DEF Plan
  <1>4. m = 0 => Plain(todo[1])
    <2>1. m = 0 => 1 \in (m + 1)..Len(todo)
      BY <1>1
    <2> QED
      BY <1>3, <2>1 DEF Left
  <1>5. m > 0 => file \in Binaries /\ IsTask(file, m, todo[1])
    <2>1. m > 0 => 1 \in 1..m /\ m - 1 + 1 = m
      BY <1>1
    <2>2. \A i \in 1..m : IsTask(file, m - i + 1, todo[i])
      BY <1>3 DEF Left
    <2>3. m > 0 => IsTask(file, m - 1 + 1, todo[1])
      BY <2>1, <2>2
    <2>4. m > 0 => IsTask(file, m, todo[1])
      BY <2>1, <2>3
    <2> QED
      BY <1>3, <2>4 DEF Left
  <1>6. m = 0 => todo[1].op \in {"heap", "pml4"} \/ todo[1] = Done(<< >>)
    BY <1>4 DEF Plain
  <1> QED
    BY <1>3, <1>5, <1>6

\* One task less.
OneLess(m) == IF m = 0 THEN 0 ELSE m - 1
LEMMA LeftGoesOn ==
    ASSUME SpacesInv, todo # << >>, todo' = Tail(todo), file' = file,
           NEW m \in 0..Len(todo), Left(m)
    PROVE  OneLess(m) \in 0..Len(todo') /\ Left(OneLess(m))'
  <1>1. Len(todo) \in Nat \ {0} /\ todo \in Seq(Task)
    BY WhileToDo DEF SpacesInv, TablesInv, Typed
  <1>2. Len(todo') = Len(todo) - 1 /\ \A i \in 1..(Len(todo) - 1) : todo'[i] = todo[i + 1]
    BY <1>1
  <1> DEFINE n == OneLess(m)
  <1>3. n \in 0..Len(todo') /\ (m > 0 => n = m - 1) /\ (m = 0 => n = 0)
    BY <1>1, <1>2 DEF OneLess
  <1> HIDE DEF n
  <1>4. n > 0 => file' \in Binaries
    BY <1>3 DEF Left
  <1>5. ASSUME NEW i \in 1..n PROVE IsTask(file, n - i + 1, todo'[i])
    <2>1. m > 0 /\ n = m - 1 /\ i + 1 \in 1..m /\ i \in 1..(Len(todo) - 1) /\ m - (i + 1) + 1 = n - i + 1
      BY <1>1, <1>2, <1>3
    <2>2. IsTask(file, m - (i + 1) + 1, todo[i + 1])
      BY <2>1 DEF Left
    <2> QED
      BY <1>2, <2>1, <2>2
  <1>6. ASSUME NEW i \in (n + 1)..Len(todo') PROVE Plain(todo'[i])
    <2>1. i + 1 \in (m + 1)..Len(todo) /\ i \in 1..(Len(todo) - 1)
      BY <1>1, <1>2, <1>3
    <2>2. Plain(todo[i + 1])
      BY <2>1 DEF Left
    <2> QED
      BY <1>2, <2>1, <2>2
  <1>7. Left(n)'
    <2>1. \A i \in 1..n : IsTask(file', n - i + 1, todo'[i])
      BY <1>5
    <2>2. \A i \in (n + 1)..Len(todo') : Plain(todo'[i])
      BY <1>6
    <2> QED
      BY <1>4, <2>1, <2>2 DEF Left
  <1> QED
    BY <1>3, <1>7 DEF n

-----------------------------------------------------------------------------
(* What a step leaves as it was *)

\* The step does not write to a page that was copied to.
ContentsStay(page) ==
    page \in DOMAIN contents => page \in DOMAIN contents' /\ contents'[page] = contents[page]

LEMMA HasStays ==
    ASSUME NEW r, NEW b, NEW i, Has(r, b, i),
           \A v \in PagesOf(vmas(b)[i]) :
              /\ Translate(r, v) # 0 => Translate(r, v)' = Translate(r, v)
              /\ ContentsStay(Translate(r, v))
    PROVE  Has(r, b, i)'
  <1>1. ASSUME NEW v \in PagesOf(vmas(b)[i])
        PROVE  Translate(r, v)' # 0 /\ Filled(Translate(r, v), b, PartFor(vmas(b)[i], v))'
    <2>1. Translate(r, v) # 0 /\ Filled(Translate(r, v), b, PartFor(vmas(b)[i], v))
      BY DEF Has
    <2>2. Translate(r, v)' = Translate(r, v) /\ ContentsStay(Translate(r, v))
      BY <2>1
    <2>3. PICK page : page = Translate(r, v)
      OBVIOUS
    <2>4. page \in DOMAIN contents' /\ contents'[page] = [file |-> b, from |-> PartFor(vmas(b)[i], v)]
      BY <2>1, <2>2, <2>3 DEF Filled, ContentsStay
    <2> QED
      BY <2>1, <2>2, <2>3, <2>4 DEF Filled
  <1> QED
    BY <1>1 DEF Has

\* The step keeps what is mapped for users in a space.
SpaceStays(r) ==
    \A v \in 0..(UserEnd - 1) :
        Translate(r, v) # 0 => Translate(r, v)' = Translate(r, v) /\ ContentsStay(Translate(r, v))

LEMMA AreaStays ==
    ASSUME NEW r, NEW b \in Binaries, NEW i \in DOMAIN vmas(b), Has(r, b, i), SpaceStays(r)
    PROVE  Has(r, b, i)'
  <1>1. \A v \in PagesOf(vmas(b)[i]) : v \in 0..(UserEnd - 1) /\ Translate(r, v) # 0
    BY AreasAreLow DEF Has
  <1> QED
    BY <1>1, HasStays DEF SpaceStays

LEMMA SpacesStayBuilt ==
    ASSUME SpacesAreBuilt, spaces' = spaces, \A space \in Created : SpaceStays(space.cr3)
    PROVE  SpacesAreBuilt'
  <1>1. Created' = Created
    BY DEF Created
  <1> SUFFICES ASSUME NEW space \in Created
               PROVE  SpaceIsBuilt(space.cr3, space.binary)'
    BY <1>1 DEF SpacesAreBuilt
  <1> DEFINE r == space.cr3
             b == space.binary
  <1>2. SpaceIsBuilt(r, b) /\ SpaceStays(r)
    BY DEF SpacesAreBuilt
  <1> HIDE DEF r, b
  <1>3. ASSUME b # << >>
        PROVE  /\ b \in Binaries
               /\ Translate(r, StackPage)' # 0
               /\ \A i \in DOMAIN vmas(b) : Has(r, b, i)'
    <2>1. /\ b \in Binaries /\ Translate(r, StackPage) # 0
          /\ \A i \in DOMAIN vmas(b) : Has(r, b, i)
      BY <1>2, <1>3 DEF SpaceIsBuilt
    <2>2. Translate(r, StackPage)' = Translate(r, StackPage)
      BY <1>2, <2>1, StackIsLow DEF SpaceStays
    <2>3. \A i \in DOMAIN vmas(b) : Has(r, b, i)'
      BY <1>2, <2>1, AreaStays
    <2> QED
      BY <2>1, <2>2, <2>3
  <1>4. SpaceIsBuilt(r, b)'
    BY <1>3 DEF SpaceIsBuilt
  <1> QED
    BY <1>4 DEF r, b

\* A step that maps nothing for users, and is not of a call for an area or the stack.
LEMMA BuiltStays ==
    ASSUME NEW r, NEW b \in Binaries, NEW m \in Nat, BuiltIn(r, b, m), contents' = contents,
           \A v \in 0..(UserEnd - 1) : Translate(r, v)' = Translate(r, v) /\ (Behind(v)' <=> Behind(v))
    PROVE  BuiltIn(r, b, m)'
  <1>1. SpaceStays(r)
    BY DEF SpaceStays, ContentsStay
  <1>2. \A i \in InPlace(b, m) : Has(r, b, i)'
    BY <1>1, AreaStays DEF BuiltIn, InPlace
  <1>3. m = 1 => Translate(r, StackPage)' # 0
    BY StackIsLow DEF BuiltIn
  <1>4. \A v \in 0..(UserEnd - 1) :
          /\ Behind(v)' => /\ Translate(r, v)' # 0
                           /\ \A i \in InPlace(b, m) : v \notin PagesOf(vmas(b)[i])
          /\ Translate(r, v)' # 0 =>
                \/ Behind(v)'
                \/ \E i \in InPlace(b, m) : v \in PagesOf(vmas(b)[i])
                \/ m = 1 /\ v = StackPage
    BY DEF BuiltIn
  <1> QED
    BY <1>2, <1>3, <1>4 DEF BuiltIn

-----------------------------------------------------------------------------
(* Before there are processes, and after a fault *)

Booting == TablesInv /\ phase # "late" /\ ~faulting

LEMMA NoProcessesYet == Booting => ProcessInv
  <1> SUFFICES ASSUME TablesInv, phase # "late", ~faulting PROVE ProcessInv
    BY DEF Booting
  <1>1. /\ call.kind = "none" \/ call.kind = "boot"
        /\ process_cr3 = 0 /\ spaces = << >>
    <2>1. NoCall.kind = "none"
      BY DEF NoCall
    <2> QED
      BY <2>1 DEF TablesInv
  <1>2. CallIsOfTask
    BY <1>1 DEF CallIsOfTask, Places
  <1>3. Created = {}
    BY <1>1 DEF Created
  <1>4. 0 \notin DOMAIN tables
    BY TablesAreNumbers
  <1>5. Spaces = {}
    BY <1>1, <1>3, <1>4 DEF Spaces
  <1> QED
    BY <1>2, <1>3, <1>5 DEF ProcessInv, Plan, SpacesAreBuilt, UserPaths, OnlyABadFileHalts

LEMMA FaultIsFinal ==
    ASSUME SpacesInv, ProcessInv, faulting, PagingNext
    PROVE  UNCHANGED allVars
  <1>1. phase = "late" /\ kernel_cr3 # 0 /\ call.kind # "boot"
    <2>1. phase = "late"
      BY DEF ProcessInv
    <2>2. kernel_cr3 \in DOMAIN tables /\ call.kind # "boot"
      BY <2>1 DEF SpacesInv, TablesInv
    <2>3. 0 \notin DOMAIN tables
      BY TablesAreNumbers DEF SpacesInv
    <2> QED
      BY <2>1, <2>2, <2>3
  <1>2. ~BuildFreeList
    BY <1>1 DEF BuildFreeList, append_free_list, set_free_list_head
  <1>3. ~create_kernel_pml4 /\ ~map_all_kernel_pages /\ ~map_video_memory /\ ~LoadKernelTables
    BY <1>1 DEF create_kernel_pml4, map_all_kernel_pages, map_video_memory, LoadKernelTables
  <1>4. /\ ~get_elf /\ ~kmalloc_user /\ ~create_new_user_pml4
        /\ ~kmalloc_top_virtual_address_user /\ ~ProcessCreated
    BY DEF get_elf, kmalloc_user, create_new_user_pml4, kmalloc_top_virtual_address_user,
           ProcessCreated, Reaches
  <1>5. ~TakePageToMap
    BY DEF TakePageToMap, get_next_free_page_kmalloc
  <1>6. /\ ~page_walk_user_AddTable /\ ~page_walk_user_SetEntry /\ ~page_walk_user_AlreadyMapped
        /\ ~SegmentReturns /\ ~CallReturns
    BY DEF page_walk_user_AddTable, page_walk_user_SetEntry, page_walk_user_AlreadyMapped,
           SegmentReturns, CallReturns, Walking
  <1>7. ~set_cr3 /\ ~exec_new_binary
    BY DEF set_cr3, exec_new_binary, Running
  <1>8. PageFault
    BY <1>2, <1>3, <1>4, <1>5, <1>6, <1>7 DEF PagingNext
  <1> QED
    BY <1>8 DEF PageFault, page_fault_handler, allVars

LEMMA UnchangedKeepsProcesses ==
    ASSUME SpacesInv, ProcessInv, UNCHANGED allVars
    PROVE  ProcessInv'
  <1>1. /\ UNCHANGED vars /\ UNCHANGED <<tables, kernel_cr3, cr3, top_virtual_address, todo, call,
                                         process_cr3, spaces, file, contents>>
    BY DEF allVars, pagingVars, files
  <1>2. phase' = phase /\ faulting' = faulting /\ Null' = Null /\ free_list_head_kmalloc' = free_list_head_kmalloc
    BY <1>1 DEF vars, Null
  <1>3. CallIsOfTask'
    BY <1>1 DEF ProcessInv, CallIsOfTask, Places
  <1>4. \A r, v : Translate(r, v)' = Translate(r, v) /\ Path(r, v)' = Path(r, v)
    BY <1>1 DEF Translate, Path
  <1>5. \A v : Behind(v)' = Behind(v)
    BY <1>1 DEF Behind, Places
  <1>6. \A r : SpaceStays(r)
    BY <1>1, <1>4 DEF SpaceStays, ContentsStay
  <1>7. SpacesAreBuilt'
    BY <1>1, <1>6, SpacesStayBuilt DEF ProcessInv
  <1>8. Spaces' = Spaces
    BY <1>1 DEF Spaces, Created
  <1>9. UserPaths'
    BY <1>1, <1>4, <1>8 DEF ProcessInv, UserPaths
  <1>10. OnlyABadFileHalts'
    BY <1>1, <1>2 DEF ProcessInv, OnlyABadFileHalts
  <1>11. \A m \in Nat : Left(m) /\ Built(m) => Left(m)' /\ Built(m)'
    <2> SUFFICES ASSUME NEW m \in Nat, Left(m), Built(m) PROVE Left(m)' /\ Built(m)'
      OBVIOUS
    <2>1. Left(m)'
      BY <1>1 DEF Left
    <2>2. ASSUME m > 0, m <= Areas(file') + 2 PROVE BuiltIn(process_cr3, file, m)'
      <3>1. PICK r : r = process_cr3
        OBVIOUS
      <3>2. PICK b \in Binaries : b = file
        BY <2>2 DEF Left
      <3>3. BuiltIn(r, b, m)
        BY <1>1, <2>2, <3>1, <3>2 DEF Built
      <3>4. BuiltIn(r, b, m)'
        BY <1>1, <1>4, <1>5, <3>3, BuiltStays
      <3> QED
        BY <1>1, <3>1, <3>2, <3>4
    <2> QED
      BY <2>1, <2>2 DEF Built
  <1>12. Searches => Searches'
    BY <1>1 DEF Searches
  <1>13. Plan'
    BY <1>1, <1>2, <1>11, <1>12 DEF Plan, ProcessInv
  <1> QED
    BY <1>1, <1>2, <1>3, <1>7, <1>9, <1>10, <1>13 DEF ProcessInv

-----------------------------------------------------------------------------
(* Steps that map nothing *)

\* Where the kernel is in its tasks, and what follows for the tasks left.
At(m) ==
    /\ Left(m) /\ Built(m)
    /\ m > 0 => file \in Binaries /\ Areas(file) \in Nat
    /\ todo[1].op \in {"heap", "pml4"} => m = 0 \/ m > Areas(file) + 2
    /\ todo[1].op = "heap" => m = 0 \/ m > Areas(file) + 3
    /\ todo[1].op = "pml4" => m = 0 \/ m = Areas(file) + 3
    /\ todo[1].op = "segment" =>
          LET i == Areas(file) + 3 - m
          IN  /\ m \in 3..(Areas(file) + 2) /\ i \in DOMAIN vmas(file)
              /\ todo[1].start = vm_start(vmas(file)[i]) /\ todo[1].pages = vm_size(vmas(file)[i])
              /\ todo[1].vma = vmas(file)[i]
    /\ todo[1].op = "stack" => m = 2 /\ todo[1].start = StackPage /\ todo[1].pages = 1
    /\ todo[1].op = "done" =>
          \/ m = 1 /\ todo[1].binary = file
          \/ m = 0 /\ todo[1].binary = << >>

LEMMA WhereItIs ==
    ASSUME SpacesInv, Plan, ~faulting, todo # << >>, todo[1].op # "get_elf"
    PROVE  \E m \in 0..Len(todo) : At(m)
  <1>1. PICK m \in 0..Len(todo) :
             /\ Left(m) /\ Built(m)
             /\ m = 0 => todo[1].op \in {"heap", "pml4"} \/ todo[1] = Done(<< >>)
             /\ m > 0 => file \in Binaries /\ IsTask(file, m, todo[1])
    BY NextTask
  <1>2. m \in Nat /\ (m = 0 \/ m \in Nat \ {0})
    BY WhileToDo
  <1>3. CASE m = 0
    <2>1. Done(<< >>).op = "done" /\ Done(<< >>).binary = << >>
      BY DEF Done
    <2>2. \/ todo[1].op \in {"heap", "pml4"}
          \/ todo[1].op = "done" /\ todo[1].binary = << >>
      BY <1>1, <1>3, <2>1
    <2>3. \/ todo[1].op = "heap" \/ todo[1].op = "pml4"
          \/ todo[1].op = "done" /\ todo[1].binary = << >>
      BY <2>2
    <2>4. todo[1].op # "segment" /\ todo[1].op # "stack" /\ (todo[1].op = "done" => todo[1].binary = << >>)
      BY <2>3
    <2>5. ~(m > 0)
      BY <1>3
    <2>6. At(m)
      BY <1>1, <1>3, <2>4, <2>5 DEF At
    <2> QED
      BY <2>6
  <1>4. CASE m \in Nat \ {0}
    <2> DEFINE b == file
               task == todo[1]
    <2>1. m > 0 /\ b \in Binaries /\ IsTask(b, m, task)
      BY <1>1, <1>4
    <2> HIDE DEF b, task
    <2>2. /\ Areas(b) \in Nat
          /\ m = 1 <=> task.op = "done"
          /\ m = 2 <=> task.op = "stack"
          /\ m \in 3..(Areas(b) + 2) <=> task.op = "segment"
          /\ m = Areas(b) + 3 <=> task.op = "pml4"
          /\ m > Areas(b) + 3 <=> task.op = "heap"
          /\ m \in 3..(Areas(b) + 2) =>
                LET i == Areas(b) + 3 - m
                IN  /\ i \in DOMAIN vmas(b) /\ task = Segment(vmas(b)[i])
                    /\ task.start = vm_start(vmas(b)[i]) /\ task.pages = vm_size(vmas(b)[i])
                    /\ task.vma = vmas(b)[i]
          /\ m = 2 => task.start = StackPage /\ task.pages = 1
          /\ m = 1 => task.binary = b
      BY <1>4, <2>1, TaskKinds
    <2>3. task.op \in {"heap", "pml4"} => m > Areas(b) + 2
      BY <1>2, <2>2
    <2>4. At(m)
      BY <1>1, <2>1, <2>2, <2>3, Zenon DEF At, b, task
    <2> QED
      BY <2>4
  <1> QED
    BY <1>2, <1>3, <1>4

LEMMA TasksStay ==
    ASSUME SpacesInv, ProcessInv, ~faulting, todo # << >>, todo[1].op # "get_elf",
           todo' = todo, file' = file,
           \/ todo[1].op \in {"heap", "pml4"}
           \/ /\ process_cr3' = process_cr3
              /\ \A b \in Binaries, m \in Nat \ {0} :
                    b = file /\ At(m) /\ BuiltIn(process_cr3, b, m) => BuiltIn(process_cr3, b, m)'
    PROVE  Plan'
  <1>1. PICK m \in 0..Len(todo) : At(m)
    BY WhereItIs DEF ProcessInv
  <1>2. Left(m)' /\ m \in 0..Len(todo')
    BY <1>1 DEF Left, At
  <1>3. ASSUME m > 0, m <= Areas(file') + 2 PROVE BuiltIn(process_cr3, file, m)'
    <2>1. m \in Nat \ {0} /\ file \in Binaries /\ Areas(file) \in Nat
      BY <1>1, <1>3, WhileToDo DEF At
    <2>2. todo[1].op \notin {"heap", "pml4"}
      <3>1. ~(m = 0 \/ m > Areas(file) + 2)
        BY <1>3, <2>1
      <3> QED
        BY <1>1, <3>1 DEF At
    <2>3. BuiltIn(process_cr3, file, m)
      BY <1>1, <1>3 DEF At, Built
    <2>4. PICK b \in Binaries : b = file
      BY <2>1
    <2>5. process_cr3' = process_cr3 /\ BuiltIn(process_cr3, b, m)'
      BY <1>1, <2>1, <2>2, <2>3, <2>4
    <2> QED
      BY <2>4, <2>5
  <1>4. Built(m)'
    BY <1>3 DEF Built
  <1> QED
    BY <1>2, <1>4 DEF Plan

LEMMA QuietlyKeepsProcesses ==
    ASSUME ProcessInv, phase' = "late", UNCHANGED <<tables, contents>>,
           Spaces' \subseteq Spaces, spaces' = spaces \/ SpacesAreBuilt',
           CallIsOfTask', Plan', OnlyABadFileHalts'
    PROVE  ProcessInv'
  <1>1. \A r, v : Translate(r, v)' = Translate(r, v) /\ Path(r, v)' = Path(r, v)
    BY DEF Translate, Path
  <1>2. \A r : SpaceStays(r)
    BY <1>1 DEF SpaceStays, ContentsStay
  <1>3. SpacesAreBuilt'
    BY <1>2, SpacesStayBuilt DEF ProcessInv
  <1>4. UserPaths'
    BY <1>1 DEF ProcessInv, UserPaths
  <1> QED
    BY <1>3, <1>4 DEF ProcessInv

LEMMA SpacesStay ==
    ASSUME UNCHANGED <<tables, spaces, process_cr3>>
    PROVE  Spaces' = Spaces
  BY DEF Spaces, Created

LEMMA KmallocUserKeepsProcesses ==
    ASSUME SpacesInv, ProcessInv, kmalloc_user
    PROVE  ProcessInv'
  <1>1. /\ ~faulting /\ todo # << >> /\ todo[1].op = "heap" /\ faulting' = faulting
        /\ call'.kind = "heap" /\ phase' = phase
        /\ UNCHANGED <<tables, contents, spaces, process_cr3, todo, file>>
    BY DEF kmalloc_user, Reaches, Mapping, vars, files
  <1>2. phase = "late"
    BY <1>1, WhileToDo
  <1>3. CallIsOfTask'
    BY <1>1 DEF CallIsOfTask, Places
  <1>4. Plan'
    BY <1>1, TasksStay
  <1>5. OnlyABadFileHalts'
    BY <1>1 DEF OnlyABadFileHalts
  <1> QED
    BY <1>1, <1>2, <1>3, <1>4, <1>5, SpacesStay, QuietlyKeepsProcesses

LEMMA NoMemoryLeft ==
    ASSUME faulting', ~faulting, get_next_free_page_kmalloc
    PROVE  OnlyABadFileHalts'
  BY DEF get_next_free_page_kmalloc, TakePage, Fault, OnlyABadFileHalts, Null

LEMMA CreateUserTableKeepsProcesses ==
    ASSUME RegionsAreApart, SpacesInv, ProcessInv, create_new_user_pml4
    PROVE  ProcessInv'
  <1>1. /\ ~faulting /\ todo # << >> /\ todo[1].op = "pml4" /\ get_next_free_page_kmalloc
        /\ call = NoCall
        /\ UNCHANGED <<tables, contents, spaces, todo, file>>
    BY DEF create_new_user_pml4, Reaches, files
  <1>2. phase = "late" /\ phase' = phase
    BY <1>1, WhileToDo DEF get_next_free_page_kmalloc
  <1>3. CASE faulting'
    <2>1. process_cr3' = process_cr3 /\ call' = call
      BY <1>3 DEF create_new_user_pml4
    <2>2. CallIsOfTask'
      BY <1>1, <2>1 DEF ProcessInv, CallIsOfTask, Places
    <2>3. Plan'
      BY <1>3 DEF Plan
    <2> QED
      BY <1>1, <1>2, <1>3, <2>1, <2>2, <2>3, NoMemoryLeft, SpacesStay, QuietlyKeepsProcesses
  <1>4. CASE ~faulting'
    <2>1. process_cr3' = Fresh /\ call'.kind = "pml4"
      BY <1>4 DEF create_new_user_pml4, Mapping
    <2>2. Fresh \notin DOMAIN tables
      BY <1>1, <1>4, PageIsTaken
    <2>3. Spaces' \subseteq Spaces
      BY <1>1, <2>1, <2>2 DEF Spaces, Created
    <2>4. CallIsOfTask'
      BY <2>1 DEF CallIsOfTask, Places
    <2>5. Plan'
      BY <1>1, TasksStay
    <2>6. OnlyABadFileHalts'
      BY <1>4 DEF OnlyABadFileHalts
    <2> QED
      BY <1>1, <1>2, <2>3, <2>4, <2>5, <2>6, QuietlyKeepsProcesses
  <1> QED
    BY <1>3, <1>4

LEMMA TasksStayMapped ==
    ASSUME SpacesInv, ProcessInv, ~faulting, todo # << >>, todo[1].op # "get_elf",
           UNCHANGED <<todo, file, process_cr3, contents>>,
           \A v \in 0..(UserEnd - 1) :
              /\ Translate(process_cr3, v)' = Translate(process_cr3, v)
              /\ Behind(v)' <=> Behind(v)
    PROVE  Plan'
  <1>1. ASSUME NEW b \in Binaries, NEW m \in Nat \ {0}, BuiltIn(process_cr3, b, m)
        PROVE  BuiltIn(process_cr3, b, m)'
    <2>1. PICK r : r = process_cr3
      OBVIOUS
    <2>2. BuiltIn(r, b, m)
      BY <1>1, <2>1
    <2>3. \A v \in 0..(UserEnd - 1) : Translate(r, v)' = Translate(r, v) /\ (Behind(v)' <=> Behind(v))
      BY <2>1
    <2>4. BuiltIn(r, b, m)'
      BY <2>2, <2>3, BuiltStays
    <2> QED
      BY <2>1, <2>4
  <1> QED
    BY <1>1, TasksStay

LEMMA KmallocTopKeepsProcesses ==
    ASSUME SpacesInv, ProcessInv, kmalloc_top_virtual_address_user
    PROVE  ProcessInv'
  <1>1. /\ ~faulting /\ todo # << >> /\ todo[1].op \in {"segment", "stack"} /\ faulting' = faulting
        /\ call = NoCall /\ call' = Mapping(todo[1].op, todo[1].start, todo[1].pages) /\ phase' = phase
        /\ UNCHANGED <<tables, contents, spaces, process_cr3, todo, file>>
    BY DEF kmalloc_top_virtual_address_user, Reaches, vars, files
  <1>2. phase = "late" /\ todo[1] \in Task /\ todo[1].op # "get_elf"
    BY <1>1, WhileToDo
  <1>3. todo[1].start \in Nat /\ todo[1].pages \in Nat
    BY <1>1, <1>2 DEF Task
  <1>4. call'.v = todo[1].start /\ call'.beyond = todo[1].start + todo[1].pages
    BY <1>1 DEF Mapping
  <1>5. CallIsOfTask'
    BY <1>1, <1>3, <1>4 DEF CallIsOfTask
  <1>6. \A v \in 0..(UserEnd - 1) : ~Behind(v) /\ ~Behind(v)'
    <2>1. \A v \in 0..(UserEnd - 1) : ~Behind(v)
      BY <1>1 DEF Behind, Places, NoCall
    <2>2. \A v \in 0..(UserEnd - 1) : ~(todo[1].start <= v /\ v < todo[1].start)
      BY <1>3, Spans
    <2> QED
      BY <1>1, <1>4, <2>1, <2>2 DEF Behind
  <1>7. \A v : Translate(process_cr3, v)' = Translate(process_cr3, v)
    BY <1>1 DEF Translate, Path
  <1>8. Plan'
    BY <1>1, <1>2, <1>6, <1>7, TasksStayMapped
  <1>9. OnlyABadFileHalts'
    BY <1>1 DEF OnlyABadFileHalts
  <1> QED
    BY <1>1, <1>2, <1>5, <1>8, <1>9, SpacesStay, QuietlyKeepsProcesses

LEMMA TakePageKeepsProcesses ==
    ASSUME RegionsAreApart, SpacesInv, ProcessInv, TakePageToMap
    PROVE  ProcessInv'
  <1>1. /\ ~faulting /\ get_next_free_page_kmalloc /\ call.kind \in {"heap", "segment", "stack"}
        /\ phase = "late" /\ phase' = phase
        /\ UNCHANGED <<tables, contents, spaces, process_cr3, todo, file>>
    BY DEF TakePageToMap, get_next_free_page_kmalloc, files
  <1>2. todo # << >> /\ todo[1].op # "get_elf"
    BY <1>1 DEF SpacesInv, CallFits
  <1>3. call'.kind = call.kind /\ call'.v = call.v /\ call'.beyond = call.beyond
    BY DEF TakePageToMap, SpacesInv, TablesInv, Typed, Call
  <1>4. CallIsOfTask'
    BY <1>1, <1>3 DEF ProcessInv, CallIsOfTask, Places
  <1>5. \A v : Behind(v)' <=> Behind(v)
    BY <1>1, <1>3 DEF Behind, Places
  <1>6. \A v : Translate(process_cr3, v)' = Translate(process_cr3, v)
    BY <1>1 DEF Translate, Path
  <1>7. Plan'
    BY <1>1, <1>2, <1>5, <1>6, TasksStayMapped
  <1>8. OnlyABadFileHalts'
    BY <1>1, NoMemoryLeft DEF OnlyABadFileHalts
  <1> QED
    BY <1>1, <1>4, <1>7, <1>8, SpacesStay, QuietlyKeepsProcesses

LEMMA SetCr3KeepsProcesses ==
    ASSUME SpacesInv, ProcessInv, set_cr3
    PROVE  ProcessInv'
  <1>1. /\ ~faulting /\ todo = << >> /\ call = NoCall /\ faulting' = faulting /\ phase' = phase /\ cr3 # 0
        /\ UNCHANGED <<tables, contents, spaces, process_cr3, todo, call, file>>
    BY DEF set_cr3, Running, vars, files
  <1>2. phase = "late"
    BY <1>1 DEF SpacesInv, TablesInv
  <1>3. CallIsOfTask'
    BY <1>1 DEF CallIsOfTask, Places, NoCall
  <1>4. Plan'
    <2>1. 0 \in 0..Len(todo') /\ ~(0 > 0) /\ \A i \in (0 + 1)..Len(todo') : FALSE /\ \A j \in 1..0 : FALSE
      BY <1>1
    <2>2. Left(0)' /\ Built(0)'
      BY <2>1 DEF Left, Built
    <2> QED
      BY <2>1, <2>2 DEF Plan
  <1>5. OnlyABadFileHalts'
    BY <1>1 DEF OnlyABadFileHalts
  <1> QED
    BY <1>1, <1>2, <1>3, <1>4, <1>5, SpacesStay, QuietlyKeepsProcesses

LEMMA ExecKeepsProcesses ==
    ASSUME SpacesInv, ProcessInv, exec_new_binary
    PROVE  ProcessInv'
  <1>1. /\ ~faulting /\ todo' = << Find >> /\ call = NoCall /\ faulting' = faulting /\ phase' = phase /\ cr3 # 0
        /\ UNCHANGED <<tables, contents, spaces, process_cr3, call, file>>
    BY DEF exec_new_binary, Running, vars, files
  <1>2. phase = "late"
    BY <1>1 DEF SpacesInv, TablesInv
  <1>3. CallIsOfTask'
    BY <1>1 DEF CallIsOfTask, Places, NoCall
  <1>4. Searches'
    <2>1. << Find >> # << >> /\ << Find >>[1] = Find /\ \A i \in 2..Len(<< Find >>) : FALSE
      OBVIOUS
    <2> QED
      BY <1>1, <2>1 DEF Searches
  <1>5. Plan'
    BY <1>4 DEF Plan
  <1>6. OnlyABadFileHalts'
    BY <1>1 DEF OnlyABadFileHalts
  <1> QED
    BY <1>1, <1>2, <1>3, <1>5, <1>6, SpacesStay, QuietlyKeepsProcesses

-----------------------------------------------------------------------------
(* The tasks come and go *)

LEMMA FileTasks ==
    ASSUME NEW b \in Binaries, NEW rest \in Seq(Task), \A i \in 1..Len(rest) : Plain(rest[i])
    PROVE  LET tasks == load_elf_vmas(b) \o create_process(b) \o rest
               m == 2 * Areas(b) + 7
           IN  /\ Areas(b) \in Nat /\ tasks \in Seq(Task) /\ m \in 0..Len(tasks)
               /\ \A i \in 1..m : IsTask(b, m - i + 1, tasks[i])
               /\ \A i \in (m + 1)..Len(tasks) : Plain(tasks[i])
  <1> DEFINE a == Areas(b)
             m == 2 * a + 7
             heaps == load_elf_vmas(b)
             segments == [i \in DOMAIN vmas(b) |-> Segment(vmas(b)[i])]
             first == << Heap(PcbPages), Pml4 >>
             last == << Stack, Done(b) >>
             process == create_process(b)
             tasks == heaps \o process \o rest
  <1>1. a \in Nat /\ DOMAIN vmas(b) = 1..a
    <2>1. Loads(b) \in Seq(ProgramHeader)
      BY PagingAssumption
    <2>2. Len(vmas(b)) = Len(Loads(b)) /\ DOMAIN vmas(b) = DOMAIN Loads(b)
      BY <2>1 DEF vmas
    <2> QED
      BY <2>1, <2>2 DEF Areas
  <1>2. heaps \in Seq(Task) /\ Len(heaps) = a + 3 /\ \A i \in 1..(a + 3) : heaps[i].op = "heap"
    <2>1. Heap(SmallPages) \in Task /\ Heap(SmallPages).op = "heap"
      BY TasksAre, PagingAssumption DEF Heap, ToDo
    <2>2. heaps = [i \in 1..(a + 3) |-> Heap(SmallPages)]
      BY DEF load_elf_vmas, Areas
    <2> HIDE DEF heaps, a
    <2> QED
      BY <1>1, <2>1, <2>2
  <1>3. /\ first \in Seq(Task) /\ Len(first) = 2 /\ first[1].op = "heap" /\ first[2] = Pml4
    <2>1. Heap(PcbPages) \in Task /\ Heap(PcbPages).op = "heap" /\ Pml4 \in Task
      BY TasksAre, PagingAssumption DEF Heap, ToDo
    <2> QED
      BY <2>1
  <1>4. last \in Seq(Task) /\ Len(last) = 2 /\ last[1] = Stack /\ last[2] = Done(b)
    <2>1. Stack \in Task /\ Done(b) \in Task
      BY TasksAre DEF Files
    <2> QED
      BY <2>1
  <1>5. segments \in Seq(Task) /\ Len(segments) = a /\ \A i \in 1..a : segments[i] = Segment(vmas(b)[i])
    <2>1. \A i \in 1..a : Segment(vmas(b)[i]) \in Task
      BY <1>1, SegmentsAre
    <2>2. segments = [i \in 1..a |-> Segment(vmas(b)[i])]
      BY <1>1
    <2> HIDE DEF segments, a
    <2> QED
      BY <1>1, <2>1, <2>2
  <1>6. process = first \o segments \o last
    BY DEF create_process
  <1> HIDE DEF heaps, first, last, segments, process, a
  <1>7. /\ first \o segments \in Seq(Task) /\ Len(first \o segments) = 2 + a
        /\ \A i \in 1..2 : (first \o segments)[i] = first[i]
        /\ \A i \in 1..a : (first \o segments)[2 + i] = segments[i]
    <2>1. first \in Seq(Task) /\ segments \in Seq(Task)
      BY <1>3, <1>5
    <2>2. /\ first \o segments \in Seq(Task) /\ Len(first \o segments) = Len(first) + Len(segments)
          /\ \A i \in 1..Len(first) : (first \o segments)[i] = first[i]
          /\ \A i \in 1..Len(segments) : (first \o segments)[Len(first) + i] = segments[i]
      BY <2>1, Concatenated
    <2> QED
      BY <1>3, <1>5, <2>2, Zenon
  <1>8. /\ process \in Seq(Task) /\ Len(process) = 4 + a
        /\ \A i \in 1..(2 + a) : process[i] = (first \o segments)[i]
        /\ \A i \in 1..2 : process[2 + a + i] = last[i]
    <2>1. Len(first \o segments) + Len(last) = 4 + a
      BY <1>1, <1>4, <1>7
    <2>2. first \o segments \in Seq(Task) /\ last \in Seq(Task)
      BY <1>4, <1>7
    <2>3. /\ process \in Seq(Task) /\ Len(process) = Len(first \o segments) + Len(last)
          /\ \A i \in 1..Len(first \o segments) : process[i] = (first \o segments)[i]
          /\ \A i \in 1..Len(last) : process[Len(first \o segments) + i] = last[i]
      BY <1>6, <2>2, Concatenated
    <2> QED
      BY <1>4, <1>7, <2>1, <2>3, Zenon
  <1>9. /\ process[1].op = "heap" /\ process[2] = Pml4
        /\ \A i \in 1..a : process[2 + i] = Segment(vmas(b)[i])
        /\ process[2 + a + 1] = Stack /\ process[2 + a + 2] = Done(b)
    <2>1. 1 \in 1..2 /\ 2 \in 1..2 /\ 1 \in 1..(2 + a) /\ 2 \in 1..(2 + a) /\ \A i \in 1..a : 2 + i \in 1..(2 + a)
      BY <1>1
    <2>2. process[1].op = "heap" /\ process[2] = Pml4
      <3>1. process[1] = (first \o segments)[1] /\ process[2] = (first \o segments)[2]
        BY <1>8, <2>1, Zenon
      <3>2. (first \o segments)[1] = first[1] /\ (first \o segments)[2] = first[2]
        BY <1>7, <2>1, Zenon
      <3> QED
        BY <1>3, <3>1, <3>2
    <2>3. \A i \in 1..a : process[2 + i] = Segment(vmas(b)[i])
      <3> SUFFICES ASSUME NEW i \in 1..a PROVE process[2 + i] = Segment(vmas(b)[i])
        OBVIOUS
      <3>1. process[2 + i] = (first \o segments)[2 + i]
        BY <1>8, <2>1
      <3>2. (first \o segments)[2 + i] = segments[i]
        BY <1>7
      <3> QED
        BY <1>5, <3>1, <3>2
    <2>4. process[2 + a + 1] = Stack /\ process[2 + a + 2] = Done(b)
      <3>1. process[2 + a + 1] = last[1] /\ process[2 + a + 2] = last[2]
        BY <1>8, <2>1
      <3> QED
        BY <1>4, <3>1
    <2> QED
      BY <2>2, <2>3, <2>4
  <1>10. /\ heaps \o process \in Seq(Task) /\ Len(heaps \o process) = m
         /\ \A i \in 1..(a + 3) : (heaps \o process)[i] = heaps[i]
         /\ \A i \in 1..(4 + a) : (heaps \o process)[a + 3 + i] = process[i]
    <2>1. Len(heaps) + Len(process) = m
      BY <1>1, <1>2, <1>8
    <2>2. heaps \in Seq(Task) /\ process \in Seq(Task)
      BY <1>2, <1>8
    <2>3. /\ heaps \o process \in Seq(Task) /\ Len(heaps \o process) = Len(heaps) + Len(process)
          /\ \A i \in 1..Len(heaps) : (heaps \o process)[i] = heaps[i]
          /\ \A i \in 1..Len(process) : (heaps \o process)[Len(heaps) + i] = process[i]
      BY <2>2, Concatenated
    <2> QED
      BY <1>2, <1>8, <2>1, <2>3, Zenon
  <1>11. /\ tasks \in Seq(Task) /\ Len(tasks) = m + Len(rest)
         /\ \A i \in 1..m : tasks[i] = (heaps \o process)[i]
         /\ \A i \in 1..Len(rest) : tasks[m + i] = rest[i]
    BY <1>10, Concatenated
  <1> HIDE DEF tasks
  <1>12. m \in Nat /\ Len(rest) \in Nat /\ m \in 0..Len(tasks)
    BY <1>1, <1>11
  <1>13. ASSUME NEW i \in 1..m PROVE IsTask(b, m - i + 1, tasks[i])
    <2> DEFINE n == m - i + 1
    <2>1. /\ i \in 1..(2 * a + 7) /\ n \in Nat /\ n = 2 * a + 8 - i
          /\ tasks[i] = (heaps \o process)[i]
      <3>1. tasks[i] = (heaps \o process)[i]
        BY <1>11
      <3>2. i \in 1..(2 * a + 7) /\ n \in Nat /\ n = 2 * a + 8 - i
        BY <1>1
      <3> QED
        BY <3>1, <3>2
    <2> HIDE DEF n
    <2>2. CASE i \in 1..(a + 3)
      <3>1. n > a + 3 /\ n # 1 /\ n # 2 /\ n \notin 3..(a + 2) /\ n # a + 3
        BY <1>1, <2>1, <2>2
      <3>2. tasks[i].op = "heap"
        <4>1. tasks[i] = heaps[i]
          <5>1. (heaps \o process)[i] = heaps[i]
            BY <1>10, <2>2
          <5> QED
            BY <2>1, <5>1
        <4> QED
          BY <1>2, <2>2, <4>1
      <3> QED
        BY <3>1, <3>2 DEF IsTask, n, a
    <2>3. CASE i \in (a + 4)..m
      <3> DEFINE j == i - (a + 3)
      <3>1. j \in 1..(4 + a) /\ i = a + 3 + j /\ n = a + 5 - j
        <4>1. i \in Nat /\ a \in Nat /\ a + 4 <= i /\ i <= 2 * a + 7 /\ n = 2 * a + 8 - i
          BY <1>1, <2>1, <2>3
        <4>2. i - (a + 3) \in 1..(4 + a) /\ i = a + 3 + (i - (a + 3)) /\ n = a + 5 - (i - (a + 3))
          BY <4>1
        <4> QED
          BY <4>2
      <3> HIDE DEF j
      <3>2. tasks[i] = process[j]
        BY <1>10, <2>1, <3>1
      <3>3. CASE j = 1
        <4>1. n > a + 3 /\ n # 1 /\ n # 2 /\ n \notin 3..(a + 2) /\ n # a + 3
          BY <1>1, <3>1, <3>3
        <4>2. tasks[i].op = "heap"
          BY <1>9, <3>2, <3>3
        <4> QED
          BY <4>1, <4>2 DEF IsTask, n, a
      <3>4. CASE j = 2
        <4>1. n = a + 3 /\ n # 1 /\ n # 2 /\ n \notin 3..(a + 2) /\ ~(n > a + 3)
          BY <1>1, <3>1, <3>4
        <4>2. tasks[i] = Pml4
          BY <1>9, <3>2, <3>4
        <4> QED
          BY <4>1, <4>2 DEF IsTask, n, a
      <3>5. CASE j \in 3..(a + 2)
        <4>1. j - 2 \in 1..a /\ j = 2 + (j - 2) /\ a + 3 - n = j - 2
          BY <1>1, <3>1, <3>5
        <4>2. tasks[i] = Segment(vmas(b)[a + 3 - n])
          BY <1>9, <3>2, <4>1
        <4>3. n # 1 /\ n # 2 /\ n \in 3..(a + 2) /\ ~(n > a + 3) /\ n # a + 3
          BY <1>1, <3>1, <3>5
        <4> QED
          BY <4>2, <4>3 DEF IsTask, n, a
      <3>6. CASE j = a + 3
        <4>1. n # 1 /\ n = 2 /\ n \notin 3..(a + 2) /\ ~(n > a + 3) /\ n # a + 3
          BY <1>1, <3>1, <3>6
        <4>2. tasks[i] = Stack
          <5>1. j = 2 + a + 1
            BY <1>1, <3>6
          <5> QED
            BY <1>9, <3>2, <5>1
        <4> QED
          BY <4>1, <4>2 DEF IsTask, n, a
      <3>7. CASE j = a + 4
        <4>1. n = 1 /\ n # 2 /\ n \notin 3..(a + 2) /\ ~(n > a + 3) /\ n # a + 3
          BY <1>1, <3>1, <3>7
        <4>2. tasks[i] = Done(b)
          <5>1. j = 2 + a + 2
            BY <1>1, <3>7
          <5> QED
            BY <1>9, <3>2, <5>1
        <4> QED
          BY <4>1, <4>2 DEF IsTask, n, a
      <3>8. j = 1 \/ j = 2 \/ j \in 3..(a + 2) \/ j = a + 3 \/ j = a + 4
        BY <1>1, <3>1
      <3> QED
        BY <3>3, <3>4, <3>5, <3>6, <3>7, <3>8
    <2> QED
      BY <1>1, <2>2, <2>3
  <1>14. ASSUME NEW i \in (m + 1)..Len(tasks) PROVE Plain(tasks[i])
    <2>1. i - m \in 1..Len(rest) /\ i = m + (i - m)
      BY <1>11, <1>12
    <2>2. tasks[i] = rest[i - m]
      BY <1>11, <2>1
    <2> QED
      BY <2>1, <2>2
  <1> QED
    BY <1>1, <1>11, <1>12, <1>13, <1>14 DEF a, heaps, process, tasks

\* get_elf is called when the rest is create_dummy_process or nothing.
LEMMA FindIsFirst ==
    ASSUME SpacesInv, Plan, ~faulting, todo # << >>, todo[1].op = "get_elf"
    PROVE  \A i \in 2..Len(todo) : Plain(todo[i])
  <1>1. phase = "late" /\ Len(todo) \in Nat \ {0}
    BY WhileToDo
  <1>2. CASE Searches
    BY <1>2 DEF Searches
  <1>3. CASE \E m \in 0..Len(todo) : Left(m) /\ Built(m)
    <2>1. PICK m \in 0..Len(todo) : Left(m)
      BY <1>3
    <2>2. m = 0 => Plain(todo[1])
      <3>1. m = 0 => 1 \in (m + 1)..Len(todo)
        BY <1>1
      <3> QED
        BY <2>1, <3>1 DEF Left
    <2>3. m = 0 => todo[1].op # "get_elf"
      BY <2>2 DEF Plain, Done
    <2>4. m > 0 => file \in Binaries /\ IsTask(file, m, todo[1])
      <3>1. m > 0 => 1 \in 1..m /\ m - 1 + 1 = m
        BY <1>1
      <3>2. \A i \in 1..m : IsTask(file, m - i + 1, todo[i])
        BY <2>1 DEF Left
      <3>3. m > 0 => IsTask(file, m - 1 + 1, todo[1])
        BY <3>1, <3>2
      <3>4. m > 0 => IsTask(file, m, todo[1])
        BY <3>1, <3>3
      <3> QED
        BY <2>1, <3>4 DEF Left
    <2>5. m > 0 => todo[1].op # "get_elf"
      <3> DEFINE b == file
                 task == todo[1]
      <3>1. m > 0 => m \in Nat \ {0} /\ b \in Binaries /\ IsTask(b, m, task)
        BY <1>1, <2>4
      <3> HIDE DEF b, task
      <3>2. m > 0 => /\ Areas(b) \in Nat
                     /\ m = 1 <=> task.op = "done"
                     /\ m = 2 <=> task.op = "stack"
                     /\ m \in 3..(Areas(b) + 2) <=> task.op = "segment"
                     /\ m = Areas(b) + 3 <=> task.op = "pml4"
                     /\ m > Areas(b) + 3 <=> task.op = "heap"
        BY <3>1, TaskKinds
      <3>3. m > 0 => task.op # "get_elf"
        BY <3>1, <3>2
      <3> QED
        BY <3>3 DEF task
    <2> QED
      BY <1>1, <2>3, <2>5
  <1> QED
    BY <1>1, <1>2, <1>3 DEF Plan

LEMMA GetElfKeepsProcesses ==
    ASSUME SpacesInv, ProcessInv, get_elf
    PROVE  ProcessInv'
  <1>1. /\ ~faulting /\ todo # << >> /\ todo[1].op = "get_elf" /\ call = NoCall
        /\ UNCHANGED <<tables, call, process_cr3, spaces, contents>>
    BY DEF get_elf, Reaches
  <1>2. PICK b \in Binaries \union {NoFile} :
          /\ file' = b
          /\ FaultsIf(IF b = NoFile THEN spaces = << >> ELSE ~StartsWith(b))
          /\ todo' = IF StartsWith(b)
                     THEN load_elf_vmas(b) \o create_process(b) \o Tail(todo)
                     ELSE Tail(todo)
    BY DEF get_elf
  <1>3. /\ faulting' = (IF b = NoFile THEN spaces = << >> ELSE ~StartsWith(b))
        /\ phase' = phase
    BY <1>2 DEF FaultsIf
  <1>4. phase = "late" /\ Len(todo) \in Nat \ {0} /\ todo \in Seq(Task)
    BY <1>1, WhileToDo DEF SpacesInv, TablesInv, Typed
  <1>5. CallIsOfTask'
    BY <1>1 DEF CallIsOfTask, Places, NoCall
  <1>6. OnlyABadFileHalts'
    BY <1>1, <1>2, <1>3 DEF OnlyABadFileHalts, StartsWith
  <1>7. /\ Tail(todo) \in Seq(Task) /\ Len(Tail(todo)) = Len(todo) - 1
        /\ \A i \in 1..Len(Tail(todo)) : Plain(Tail(todo)[i])
    <2>1. \A i \in 2..Len(todo) : Plain(todo[i])
      BY <1>1, FindIsFirst DEF ProcessInv
    <2>2. /\ Tail(todo) \in Seq(Task) /\ Len(Tail(todo)) = Len(todo) - 1
          /\ \A i \in 1..Len(Tail(todo)) : Tail(todo)[i] = todo[i + 1] /\ i + 1 \in 2..Len(todo)
      BY <1>1, <1>4
    <2> QED
      BY <2>1, <2>2
  <1>8. ASSUME StartsWith(b) PROVE Plan'
    <2>1. b \in Binaries
      BY <1>8 DEF StartsWith
    <2> DEFINE m == 2 * Areas(b) + 7
    <2>2. /\ Areas(b) \in Nat /\ m \in 0..Len(todo')
          /\ \A i \in 1..m : IsTask(b, m - i + 1, todo'[i])
          /\ \A i \in (m + 1)..Len(todo') : Plain(todo'[i])
      BY <1>2, <1>7, <1>8, <2>1, FileTasks
    <2>3. Left(m)'
      BY <1>2, <2>1, <2>2 DEF Left
    <2>4. ~(m <= Areas(b) + 2)
      BY <2>2
    <2>5. Built(m)'
      BY <1>2, <2>4 DEF Built
    <2> QED
      BY <2>2, <2>3, <2>5 DEF Plan
  <1>9. ASSUME ~StartsWith(b) PROVE Plan'
    <2>1. todo' = Tail(todo)
      BY <1>2, <1>9
    <2>2. ~(0 > 0) /\ \A i \in 1..0 : FALSE
      OBVIOUS
    <2>3. Left(0)' /\ Built(0)'
      BY <1>7, <2>1, <2>2 DEF Left, Built
    <2>4. 0 \in 0..Len(todo')
      BY <1>4, <1>7, <2>1
    <2> QED
      BY <2>3, <2>4 DEF Plan
  <1>10. Plan'
    BY <1>8, <1>9
  <1> QED
    BY <1>1, <1>3, <1>4, <1>5, <1>6, <1>10, SpacesStay, QuietlyKeepsProcesses

LEMMA LoadKeepsProcesses ==
    ASSUME SpacesInv, ProcessInv, LoadKernelTables
    PROVE  ProcessInv'
  <1>1. /\ phase = "early" /\ phase' = "late" /\ faulting' = faulting /\ call' = NoCall
        /\ todo' = << Find >> \o create_dummy_process
        /\ UNCHANGED <<tables, contents, spaces, process_cr3, file>>
    BY DEF LoadKernelTables, set_new_free_list_head, files
  <1>2. ~faulting
    BY <1>1 DEF ProcessInv
  <1>3. CallIsOfTask'
    BY <1>1 DEF CallIsOfTask, Places, NoCall
  <1>4. OnlyABadFileHalts'
    BY <1>1, <1>2 DEF OnlyABadFileHalts
  <1>5. Plan'
    <2> DEFINE s == create_dummy_process
    <2>1. Heap(PcbPages) \in Task /\ Heap(PcbPages).op = "heap" /\ Pml4 \in Task /\ Pml4.op = "pml4"
          /\ Done(<< >>) \in Task
      BY TasksAre, PagingAssumption DEF Heap, Pml4, ToDo, Files
    <2>2. s \in Seq(Task) /\ Len(s) = 3 /\ \A i \in 1..3 : Plain(s[i])
      <3>1. Plain(Heap(PcbPages)) /\ Plain(Pml4) /\ Plain(Done(<< >>))
        BY <2>1 DEF Plain
      <3>2. s = << Heap(PcbPages), Pml4, Done(<< >>) >>
        BY DEF create_dummy_process
      <3>3. s \in Seq(Task) /\ Len(s) = 3 /\ s[1] = Heap(PcbPages) /\ s[2] = Pml4 /\ s[3] = Done(<< >>)
        BY <2>1, <3>2
      <3>4. \A i \in 1..3 : i = 1 \/ i = 2 \/ i = 3
        OBVIOUS
      <3> QED
        BY <3>1, <3>3, <3>4
    <2>3. todo' = << Find >> \o s
      BY <1>1
    <2> HIDE DEF s
    <2>4. /\ todo' \in Seq(Task) /\ Len(todo') = 4 /\ todo'[1] = Find
          /\ \A i \in 1..3 : todo'[i + 1] = s[i]
      <3>1. /\ << Find >> \o s \in Seq(Task) /\ Len(<< Find >> \o s) = Len(s) + 1
            /\ (<< Find >> \o s)[1] = Find
            /\ \A i \in 1..Len(s) : (<< Find >> \o s)[i + 1] = s[i]
        <4>1. Find \in Task /\ s \in Seq(Task)
          BY <2>2, TasksAre
        <4> QED
          BY <4>1, OneBefore
      <3>2. Len(s) + 1 = 4 /\ Len(s) = 3
        BY <2>2
      <3> QED
        BY <2>3, <3>1, <3>2, Zenon
    <2>5. todo' # << >>
      <3>1. Len(todo') = 4
        BY <2>4
      <3>2. Len(<< >>) # 4
        OBVIOUS
      <3> QED
        BY <3>1, <3>2, Zenon
    <2>6. \A i \in 2..4 : i - 1 \in 1..3 /\ (i - 1) + 1 = i
      OBVIOUS
    <2>7. \A i \in 2..Len(todo') : Plain(todo'[i])
      BY <2>2, <2>4, <2>6
    <2>8. Searches'
      BY <2>4, <2>5, <2>7 DEF Searches
    <2> QED
      BY <2>8 DEF Plan
  <1> QED
    BY <1>1, <1>3, <1>4, <1>5, SpacesStay, QuietlyKeepsProcesses

LEMMA ProcessCreatedKeepsProcesses ==
    ASSUME SpacesInv, ProcessInv, ProcessCreated
    PROVE  ProcessInv'
  <1>1. /\ ~faulting /\ todo # << >> /\ todo[1].op = "done" /\ call = NoCall
        /\ faulting' = faulting /\ phase' = phase
        /\ spaces' = Append(spaces, [cr3 |-> process_cr3, binary |-> todo[1].binary])
        /\ todo' = Tail(todo)
        /\ UNCHANGED <<tables, contents, call, process_cr3, file>>
    BY DEF ProcessCreated, Reaches, vars, files
  <1>2. phase = "late" /\ spaces \in Seq([cr3 : Nat, binary : Files])
    BY <1>1, WhileToDo DEF SpacesInv, TablesInv, Typed
  <1> DEFINE new == [cr3 |-> process_cr3, binary |-> todo[1].binary]
  <1>3. Created' = Created \union {new}
    <2> HIDE DEF new
    <2>1. spaces' = Append(spaces, new)
      BY <1>1 DEF new
    <2>2. /\ Len(spaces) \in Nat /\ Len(spaces') = Len(spaces) + 1 /\ spaces'[Len(spaces) + 1] = new
          /\ \A k \in 1..Len(spaces) : spaces'[k] = spaces[k]
      BY <1>2, <2>1
    <2>3. \A k \in 1..(Len(spaces) + 1) : k \in 1..Len(spaces) \/ k = Len(spaces) + 1
      BY <2>2
    <2>4. Len(spaces) + 1 \in 1..Len(spaces') /\ \A k \in 1..Len(spaces) : k \in 1..Len(spaces')
      BY <2>2
    <2> QED
      BY <2>2, <2>3, <2>4 DEF Created
  <1>4. Spaces' = Spaces
    BY <1>1, <1>3 DEF Spaces
  <1>5. CallIsOfTask'
    BY <1>1 DEF CallIsOfTask, Places, NoCall
  <1>6. OnlyABadFileHalts'
    BY <1>1 DEF OnlyABadFileHalts
  <1>7. PICK m \in 0..Len(todo) : At(m)
    BY <1>1, WhereItIs DEF ProcessInv
  <1>8. \/ m = 1 /\ todo[1].binary = file
        \/ m = 0 /\ todo[1].binary = << >>
    BY <1>1, <1>7 DEF At
  <1>9. Plan'
    <2>1. OneLess(m) \in 0..Len(todo') /\ Left(OneLess(m))'
      BY <1>1, <1>7, LeftGoesOn DEF At
    <2>2. OneLess(m) = 0
      BY <1>8 DEF OneLess
    <2>3. Built(0)'
      BY DEF Built
    <2> QED
      BY <2>1, <2>2, <2>3 DEF Plan
  <1>10. \A r, v : Translate(r, v)' = Translate(r, v)
    BY <1>1 DEF Translate, Path
  <1>11. ASSUME m = 1, todo[1].binary = file
         PROVE  SpaceIsBuilt(process_cr3, todo[1].binary)
    <2>1. PICK b \in Binaries : b = file
      BY <1>7, <1>11 DEF At
    <2>2. Areas(b) \in Nat /\ \A i \in DOMAIN vmas(b) : i \in 1..Areas(b)
      <3>1. Areas(b) \in Nat
        BY <1>7, <1>11, <2>1 DEF At
      <3> QED
        BY <3>1, AreaIs
    <2>3. BuiltIn(process_cr3, b, 1)
      BY <1>7, <1>11, <2>1, <2>2 DEF At, Built
    <2>4. \A i \in DOMAIN vmas(b) : i \in InPlace(b, 1)
      BY <2>2 DEF InPlace
    <2>5. SpaceIsBuilt(process_cr3, b)
      BY <2>3, <2>4 DEF BuiltIn, SpaceIsBuilt
    <2> QED
      BY <1>11, <2>1, <2>5
  <1>12. SpaceIsBuilt(process_cr3, todo[1].binary)
    BY <1>8, <1>11 DEF SpaceIsBuilt
  <1>13. SpacesAreBuilt'
    <2>1. \A space \in Created \union {new} : SpaceIsBuilt(space.cr3, space.binary)
      BY <1>12 DEF ProcessInv, SpacesAreBuilt
    <2>2. \A r, b : SpaceIsBuilt(r, b) => SpaceIsBuilt(r, b)'
      BY <1>1, <1>10 DEF SpaceIsBuilt, Has, Filled
    <2>3. \A space \in Created' : SpaceIsBuilt(space.cr3, space.binary)'
      BY <1>3, <2>1, <2>2, Zenon
    <2> QED
      BY <2>3 DEF SpacesAreBuilt
  <1> QED
    BY <1>1, <1>2, <1>4, <1>5, <1>6, <1>9, <1>13, QuietlyKeepsProcesses

-----------------------------------------------------------------------------
(* Steps that map *)

LEMMA CreatedAreTops ==
    ASSUME SpacesInv, kernel_cr3 # 0
    PROVE  \A space \in Created : space.cr3 \in Tops
  BY DEF SpacesInv, TopsAreAlike, Created, Tops, Roots

\* The process whose memory is being mapped has its top-level table.
LEMMA ProcessIsOpen ==
    ASSUME SpacesInv, todo # << >>, todo[1].op \in {"segment", "stack", "done"}
    PROVE  process_cr3 \in Tops
  BY FirstInOrder, OpenMeans

LEMMA EntryKeepsProcesses ==
    ASSUME SpacesInv, ProcessInv,
           NEW lev, Sound(lev), NEW t0, NEW s0, NEW e, NEW added, Enters(lev, t0, s0, e, added),
           tables[t0][s0].page = 0, e.user = TRUE,
           contents' = contents, phase = "late", ~faulting', CallIsOfTask', Plan'
    PROVE  ProcessInv'
  <1>1. spaces' = spaces /\ phase' = "late" /\ kernel_cr3 # 0
    BY DEF Enters, Sound
  <1>2. \A r \in Tops : SpaceStays(r)
    BY MappedStays DEF SpaceStays, ContentsStay
  <1>3. SpacesAreBuilt'
    BY <1>1, <1>2, CreatedAreTops, SpacesStayBuilt DEF ProcessInv
  <1>4. UserPaths'
    BY UserPathsStay DEF ProcessInv
  <1>5. OnlyABadFileHalts'
    BY DEF OnlyABadFileHalts
  <1> QED
    BY <1>1, <1>3, <1>4, <1>5 DEF ProcessInv

LEMMA AddTableKeepsProcesses ==
    ASSUME RegionsAreApart, SpacesInv, Fits, ProcessInv, page_walk_user_AddTable
    PROVE  ProcessInv'
  <1>1. /\ Walking /\ ~faulting /\ AddTable(get_next_free_page_kmalloc) /\ get_next_free_page_kmalloc
        /\ User = TRUE /\ call.kind # "none"
        /\ UNCHANGED <<call, todo, contents, file, spaces, process_cr3>>
    BY DEF page_walk_user_AddTable, Walking, AddTable, User, files
  <1>2. /\ todo # << >> /\ todo[1].op = call.kind /\ call.kind \in {"heap", "pml4", "segment", "stack"}
        /\ phase = "late" /\ kernel_cr3 # 0
    BY <1>1, WalkingIs
  <1>3. phase' = phase
    BY <1>1 DEF get_next_free_page_kmalloc
  <1>4. CallIsOfTask'
    BY <1>1 DEF ProcessInv, CallIsOfTask, Places
  <1>5. CASE handed_out' = handed_out
    <2>1. tables' = tables
      BY <1>1, <1>5 DEF AddTable
    <2>2. faulting' = TRUE
      BY <1>1, <1>5, Allocates DEF SpacesInv, TablesInv
    <2>3. Plan'
      BY <2>2 DEF Plan
    <2> QED
      BY <1>1, <1>2, <1>3, <1>4, <2>1, <2>2, <2>3, NoMemoryLeft, SpacesStay, QuietlyKeepsProcesses
  <1>6. CASE handed_out' # handed_out
    <2>1. PICK lev : Sound(lev)
      BY <1>2, SpacesAreSound
    <2>2. CallFits /\ KernelTopIsFree
      BY DEF SpacesInv
    <2>3. PICK t0, s0 :
             /\ Enters(lev, t0, s0, Entry(Fresh, User), {Fresh}) /\ lev[t0] > 0
             /\ tables[t0][s0].page = 0
      BY <1>1, <1>6, <2>1, <2>2, TableIsEntered
    <2>4. ~faulting'
      <3>1. faulting' = faulting
        BY <1>1, <1>6, <2>1, <2>2, TableIsEntered
      <3> QED
        BY <1>1, <3>1
    <2>5. Entry(Fresh, User).user = TRUE
      BY <1>1 DEF Entry
    <2>6. ASSUME NEW r \in Tops, NEW v \in 0..(UserEnd - 1) PROVE Translate(r, v)' = Translate(r, v)
      <3>1. v \in Nat /\ Slot(v, 3) # SelfSlot
        BY UserPages
      <3>2. lev[t0] # 0
        BY <2>3
      <3> QED
        BY <2>1, <2>3, <3>1, <3>2, TranslationsGrow
    <2>7. \A v : Behind(v)' <=> Behind(v)
      BY <1>1 DEF Behind, Places
    <2>8. Plan'
      <3>1. CASE call.kind \in {"heap", "pml4"}
        BY <1>1, <1>2, <3>1, TasksStay
      <3>2. CASE call.kind \in {"segment", "stack"}
        <4>1. process_cr3 \in Tops
          BY <1>2, <3>2, ProcessIsOpen
        <4>2. PICK r \in Tops : r = process_cr3
          BY <4>1
        <4>3. \A v \in 0..(UserEnd - 1) : Translate(process_cr3, v)' = Translate(process_cr3, v)
          BY <1>1, <2>6, <4>2
        <4> QED
          BY <1>1, <1>2, <2>7, <3>2, <4>3, TasksStayMapped
      <3> QED
        BY <1>2, <3>1, <3>2
    <2> QED
      BY <1>1, <1>2, <1>4, <2>1, <2>3, <2>4, <2>5, <2>8, EntryKeepsProcesses
  <1> QED
    BY <1>5, <1>6

\* Where the leaf is set, and nowhere else, something new is mapped.
LEMMA LeafIsMapped ==
    ASSUME NEW lev, Sound(lev), NEW t0, NEW s0, NEW e, Enters(lev, t0, s0, e, {}), t0 # 0,
           NEW r \in Tops, NEW w \in 0..(UserEnd - 1), t0 = Path(r, w)[0], s0 = Slot(w, 0)
    PROVE  /\ Translate(r, w)' = e.page
           /\ \A v \in 0..(UserEnd - 1) : Translate(r, v)' # 0 => v = w \/ Translate(r, v) # 0
  <1>1. w \in Nat /\ Slot(w, 3) # SelfSlot /\ w \in 0..(AddressEnd - 1)
    BY UserPages
  <1>2. Path(r, w)'[0] = t0
    <2>1. \/ Path(r, w)'[0] = Path(r, w)[0]
          \/ Path(r, w)[0] = 0 /\ Path(r, w)'[0] \in {}
      BY <1>1, PathsGrow, LevelsOfAPath
    <2> QED
      BY <2>1
  <1>3. tables'[t0][s0] = e
    BY EntryIsSet
  <1>4. Translate(r, w)' = e.page
    BY <1>2, <1>3 DEF Translate
  <1>5. ASSUME NEW v \in 0..(UserEnd - 1), Translate(r, v)' # 0, v # w PROVE Translate(r, v) # 0
    <2>1. v \in Nat /\ Slot(v, 3) # SelfSlot
      BY UserPages
    <2>2. \/ Translate(r, v)' = Translate(r, v)
          \/ Path(r, v)[0] = t0 /\ Slot(v, 0) = s0
      BY <2>1, TranslationsGrow
    <2>3. ~(Path(r, v)[0] = t0 /\ Slot(v, 0) = s0)
      BY <1>1, <1>5, LeafIsOne
    <2> QED
      BY <1>5, <2>2, <2>3
  <1> QED
    BY <1>4, <1>5

LEMMA SetEntryKeepsProcesses ==
    ASSUME RegionsAreApart, SpacesInv, Fits, ProcessInv, page_walk_user_SetEntry
    PROVE  ProcessInv'
  <1>1. /\ Walking /\ ~faulting /\ AtLeaf /\ call.v < call.beyond /\ call.page # 0
        /\ Translate(Root, call.v) = 0
        /\ tables' = SetLeaf
        /\ call' = [call EXCEPT !.v = @ + 1, !.page = 0]
        /\ UNCHANGED vars
        /\ UNCHANGED <<kernel_cr3, cr3, todo, process_cr3, spaces, file, contents>>
    BY DEF page_walk_user_SetEntry, Walking, AtLeaf, files
  <1>2. /\ todo # << >> /\ todo[1].op = call.kind /\ call.kind \in {"heap", "pml4", "segment", "stack"}
        /\ phase = "late" /\ kernel_cr3 # 0 /\ faulting' = faulting /\ todo[1] \in Task
    BY <1>1, WalkingIs, WhileToDo DEF vars
  <1>3. PICK lev : Sound(lev)
    BY <1>2, SpacesAreSound
  <1>4. CallFits /\ KernelTopIsFree /\ call \in Call
    BY DEF SpacesInv, TablesInv, Typed
  <1>5. PICK t0, s0 :
           /\ t0 = Path(Root, call.v)[0] /\ s0 = Slot(call.v, 0)
           /\ Enters(lev, t0, s0, Entry(call.page, User), {})
           /\ tables[t0][s0].page = 0 /\ t0 # 0
    BY <1>1, <1>2, <1>3, <1>4, LeafIsEntered
  <1>6. /\ call'.kind = call.kind /\ call'.v = call.v + 1 /\ call'.beyond = call.beyond
    <2>1. call' = [call EXCEPT !.v = @ + 1, !.page = 0]
      BY <1>1
    <2> QED
      BY <1>4, <2>1, CallGoesOn
  <1>7. call.v \in Nat /\ call.beyond \in Nat
    BY <1>4 DEF Call
  <1>8. Places(call) => todo[1].start \in Nat /\ todo[1].start <= call.v
                        /\ call.beyond = todo[1].start + todo[1].pages
    <2>1. Places(call) => todo[1].start \in Nat
      BY <1>2 DEF Places, Task
    <2> QED
      BY <2>1 DEF ProcessInv, CallIsOfTask
  <1>9. CallIsOfTask'
    <2>1. Places(call) => todo[1].start <= call.v + 1
      BY <1>7, <1>8
    <2> QED
      BY <1>1, <1>6, <1>8, <2>1 DEF CallIsOfTask, Places
  <1>10. Entry(call.page, User).user = TRUE /\ Entry(call.page, User).page = call.page
    BY <1>1 DEF Entry, User, Walking
  <1>11. ASSUME call.kind \in {"segment", "stack"}, NEW b \in Binaries, NEW m \in Nat \ {0}, b = file,
                At(m), BuiltIn(process_cr3, b, m)
         PROVE  BuiltIn(process_cr3, b, m)'
    <2>1. Root = process_cr3 /\ process_cr3 \in Tops /\ call.beyond <= UserEnd
      <3>1. cr3 = process_cr3 /\ call.beyond <= UserEnd
        BY <1>11, <1>4 DEF CallFits
      <3>2. Root = cr3
        BY <1>2, <1>3, RootIsATop
      <3>3. process_cr3 \in Tops
        BY <1>2, <1>11, ProcessIsOpen
      <3> QED
        BY <3>1, <3>2, <3>3
    <2>2. PICK r \in Tops : r = process_cr3
      BY <2>1
    <2>3. PICK w \in 0..(UserEnd - 1) : w = call.v
      BY <1>1, <1>7, <2>1, Spans
    <2>4. t0 = Path(r, w)[0] /\ s0 = Slot(w, 0)
      BY <1>5, <2>1, <2>2, <2>3
    <2>5. /\ Translate(r, w)' = call.page
          /\ \A v \in 0..(UserEnd - 1) : Translate(r, v)' # 0 => v = w \/ Translate(r, v) # 0
      BY <1>3, <1>5, <1>10, <2>4, LeafIsMapped
    <2>6. SpaceStays(r)
      BY <1>1, <1>3, <1>5, MappedStays DEF SpaceStays, ContentsStay
    <2>7. BuiltIn(r, b, m)
      BY <1>11, <2>2
    <2>8. m # 1
      <3>1. Areas(file) \in Nat
        BY <1>11 DEF At
      <3> QED
        BY <1>2, <1>11, <3>1 DEF At
    <2>9. \A i \in InPlace(b, m) : Has(r, b, i) /\ Has(r, b, i)'
      BY <2>6, <2>7, AreaStays DEF BuiltIn, InPlace
    <2>10. \A v \in 0..(UserEnd - 1) : Behind(v)' <=> Behind(v) \/ v = w
      <3>1. Places(call) /\ Places(call)'
        BY <1>6, <1>11 DEF Places
      <3>2. \A v \in 0..(UserEnd - 1) : (todo[1].start <= v /\ v < call.v + 1)
                                          <=> (todo[1].start <= v /\ v < call.v) \/ v = call.v
        BY <1>7, <1>8, <3>1, Spans
      <3> QED
        BY <1>1, <1>6, <2>3, <3>1, <3>2 DEF Behind
    <2>11. Translate(r, w) = 0
      BY <1>1, <2>1, <2>2, <2>3
    <2>12. ASSUME NEW v \in 0..(UserEnd - 1), Behind(v)'
           PROVE  /\ Translate(r, v)' # 0
                  /\ \A i \in InPlace(b, m) : v \notin PagesOf(vmas(b)[i])
      <3>1. CASE v = w
        <4>1. \A i \in InPlace(b, m) : v \notin PagesOf(vmas(b)[i])
          BY <2>9, <2>11, <3>1 DEF Has
        <4> QED
          BY <1>1, <2>5, <3>1, <4>1
      <3>2. CASE Behind(v)
        <4>1. /\ Translate(r, v) # 0
              /\ \A i \in InPlace(b, m) : v \notin PagesOf(vmas(b)[i])
          BY <2>7, <3>2 DEF BuiltIn
        <4>2. Translate(r, v)' = Translate(r, v)
          BY <2>6, <4>1 DEF SpaceStays
        <4> QED
          BY <4>1, <4>2
      <3> QED
        BY <2>10, <2>12, <3>1, <3>2
    <2>13. ASSUME NEW v \in 0..(UserEnd - 1), Translate(r, v)' # 0
           PROVE  \/ Behind(v)'
                  \/ \E i \in InPlace(b, m) : v \in PagesOf(vmas(b)[i])
                  \/ m = 1 /\ v = StackPage
      <3>1. CASE v = w
        BY <2>10, <3>1
      <3>2. CASE Translate(r, v) # 0
        BY <2>7, <2>10, <3>2 DEF BuiltIn
      <3> QED
        BY <2>5, <2>13, <3>1, <3>2
    <2>14. BuiltIn(r, b, m)'
      BY <2>8, <2>9, <2>12, <2>13 DEF BuiltIn
    <2> QED
      BY <1>1, <2>2, <2>14
  <1>12. Plan'
    <2>1. CASE call.kind \in {"heap", "pml4"}
      BY <1>1, <1>2, <2>1, TasksStay
    <2>2. CASE call.kind \in {"segment", "stack"}
      BY <1>1, <1>2, <1>11, <2>2, TasksStay
    <2> QED
      BY <1>2, <2>1, <2>2
  <1> QED
    BY <1>1, <1>2, <1>3, <1>5, <1>9, <1>10, <1>12, EntryKeepsProcesses

-----------------------------------------------------------------------------
(* Calls end *)

LEMMA TaskEnds ==
    ASSUME SpacesInv, ProcessInv, ~faulting, todo # << >>, todo[1].op # "get_elf",
           todo' = Tail(todo), file' = file, NEW m \in 0..Len(todo), At(m),
           m > 0 /\ m <= Areas(file) + 3 => m > 1 /\ BuiltIn(process_cr3, file, m - 1)'
    PROVE  Plan'
  <1>1. At(m)
    OBVIOUS
  <1>2. OneLess(m) \in 0..Len(todo') /\ Left(OneLess(m))'
    BY <1>1, LeftGoesOn DEF At
  <1>3. ASSUME OneLess(m) > 0, OneLess(m) <= Areas(file') + 2 PROVE BuiltIn(process_cr3, file, OneLess(m))'
    <2>1. m \in Nat /\ m > 0 /\ OneLess(m) = m - 1
      BY <1>1, <1>3, WhileToDo DEF OneLess
    <2>2. Areas(file) \in Nat
      BY <1>1, <2>1 DEF At
    <2>3. m > 0 /\ m <= Areas(file) + 3
      BY <1>3, <2>1, <2>2
    <2>4. BuiltIn(process_cr3, file, m - 1)'
      BY <2>3
    <2> QED
      BY <2>1, <2>4
  <1>4. Built(OneLess(m))'
    <2> DEFINE n == OneLess(m)
    <2>1. n > 0 /\ n <= Areas(file') + 2 => BuiltIn(process_cr3, file, n)'
      BY <1>3
    <2> HIDE DEF n
    <2>2. Built(n)'
      BY <2>1 DEF Built
    <2> QED
      BY <2>2 DEF n
  <1> QED
    BY <1>2, <1>4 DEF Plan

\* The address a call is refused at is in its task.
LEMMA CallsPage ==
    ASSUME SpacesInv, CallIsOfTask, Walking, call.kind \in {"segment", "stack"}
    PROVE  /\ todo[1].start \in Nat /\ todo[1].pages \in Nat /\ todo[1].start <= call.v
           /\ call.v \in Nat /\ call.beyond = todo[1].start + todo[1].pages
           /\ call.beyond <= UserEnd /\ call.v <= call.beyond
           /\ Root = process_cr3 /\ process_cr3 \in Tops /\ process_cr3 \notin Roots
  <1>1. todo # << >> /\ todo[1].op = call.kind /\ todo[1] \in Task /\ phase = "late" /\ kernel_cr3 # 0
    BY WalkingIs, WhileToDo
  <1>2. todo[1].start \in Nat /\ todo[1].pages \in Nat
    BY <1>1 DEF Task
  <1>3. call.v \in Nat /\ call.v <= call.beyond /\ call.beyond <= UserEnd /\ cr3 = process_cr3
    BY DEF SpacesInv, TablesInv, Typed, Call, CallFits
  <1>4. todo[1].start <= call.v /\ call.beyond = todo[1].start + todo[1].pages
    BY DEF CallIsOfTask, Places
  <1>5. process_cr3 \in Tops /\ process_cr3 \notin Roots
    BY <1>1, FirstInOrder, OpenMeans
  <1>6. Root = cr3
    <2>1. cr3 \in Tops /\ TopsAreAlike /\ cr3 # 0
      <3>1. cr3 \in Tops /\ TopsAreAlike
        BY <1>1, WhileToDo DEF SpacesInv
      <3>2. 0 \notin DOMAIN tables
        BY TablesAreNumbers DEF SpacesInv
      <3> QED
        BY <3>1, <3>2 DEF Tops
    <2> QED
      BY <2>1 DEF Root, TopsAreAlike
  <1> QED
    BY <1>2, <1>3, <1>4, <1>5, <1>6

LEMMA AlreadyMappedKeepsProcesses ==
    ASSUME SpacesInv, Fits, ProcessInv, page_walk_user_AlreadyMapped
    PROVE  ProcessInv'
  <1>1. /\ Walking /\ ~faulting /\ call.v < call.beyond /\ Translate(Root, call.v) # 0
        /\ call' = NoCall /\ faulting' = (call.kind \in {"heap", "segment"}) /\ phase' = phase
        /\ todo' = Tail(todo)
        /\ UNCHANGED <<tables, contents, file, process_cr3, spaces>>
    BY DEF page_walk_user_AlreadyMapped, Walking, AtLeaf, FaultsIf, files
  <1>2. /\ todo # << >> /\ todo[1].op = call.kind /\ call.kind \in {"segment", "stack"}
        /\ phase = "late" /\ todo[1].op # "get_elf"
    <2>1. call.kind \in {"segment", "stack"}
      BY <1>1, OnlyAProcessIsRefused
    <2> QED
      BY <1>1, <2>1, WalkingIs
  <1>3. /\ todo[1].start \in Nat /\ todo[1].pages \in Nat /\ todo[1].start <= call.v
        /\ call.v \in Nat /\ call.beyond = todo[1].start + todo[1].pages
        /\ call.beyond <= UserEnd /\ call.v <= call.beyond
        /\ Root = process_cr3
    BY <1>1, <1>2, CallsPage DEF ProcessInv
  <1>4. call.v \in 0..(UserEnd - 1) /\ Translate(process_cr3, call.v) # 0 /\ ~Behind(call.v)
    <2>1. call.v \in 0..(UserEnd - 1) /\ ~(call.v < call.v)
      <3>1. call.v < call.beyond
        BY <1>1
      <3> QED
        BY <1>3, <3>1, Spans
    <2>2. Translate(process_cr3, call.v) # 0
      BY <1>1, <1>3
    <2> QED
      BY <2>1, <2>2 DEF Behind
  <1>5. CallIsOfTask'
    BY <1>1 DEF CallIsOfTask, Places, NoCall
  <1>6. \A v : Translate(process_cr3, v)' = Translate(process_cr3, v)
    <2>1. tables' = tables /\ process_cr3' = process_cr3
      BY <1>1
    <2> QED
      BY <2>1 DEF Translate, Path
  <1>7. PICK m \in 0..Len(todo) : At(m)
    BY <1>1, <1>2, WhereItIs DEF ProcessInv
  <1>8. ASSUME call.kind = "segment" PROVE OnlyABadFileHalts' /\ Plan'
    <2> DEFINE i == Areas(file) + 3 - m
    <2>1. /\ m \in 3..(Areas(file) + 2) /\ i \in DOMAIN vmas(file)
          /\ todo[1].start = vm_start(vmas(file)[i]) /\ todo[1].pages = vm_size(vmas(file)[i])
      BY <1>2, <1>7, <1>8 DEF At
    <2>2. PICK b \in Binaries : b = file
      BY <1>7, <2>1 DEF At
    <2>3. Areas(b) \in Nat /\ m \in 3..(Areas(b) + 2) /\ i = Areas(b) + 3 - m /\ i \in DOMAIN vmas(b)
      BY <1>7, <2>1, <2>2 DEF At
    <2> HIDE DEF i
    <2>4. call.v \in PagesOf(vmas(b)[i])
      <3>1. call.v \in Int /\ vm_start(vmas(b)[i]) <= call.v
            /\ call.v < vm_start(vmas(b)[i]) + vm_size(vmas(b)[i])
        BY <1>1, <1>3, <2>1, <2>2
      <3> QED
        BY <2>3, <3>1, AreasAreLow
    <2>5. BuiltIn(process_cr3, b, m)
      <3>1. m > 0 /\ m <= Areas(file) + 2
        BY <2>2, <2>3
      <3> QED
        BY <1>7, <2>2, <3>1 DEF At, Built
    <2>6. PICK j \in InPlace(b, m) : call.v \in PagesOf(vmas(b)[j])
      <3>1. m # 1
        BY <2>3
      <3> QED
        BY <1>4, <2>5, <3>1 DEF BuiltIn
    <2>7. j \in DOMAIN vmas(b) /\ j < i
      <3>1. j \in DOMAIN vmas(b) /\ j + m <= Areas(b) + 2
        BY DEF InPlace
      <3>2. j \in 1..Areas(b)
        BY <3>1, AreaIs
      <3> QED
        BY <2>3, <3>1, <3>2
    <2>8. SharesAPage(b)
      <3>1. /\ i \in DOMAIN Loads(b) /\ PagesOf(vmas(b)[i]) = PagesNeeded(Loads(b)[i])
            /\ j \in DOMAIN Loads(b) /\ PagesOf(vmas(b)[j]) = PagesNeeded(Loads(b)[j])
        BY <2>3, <2>7, AreaIs
      <3>2. PagesNeeded(Loads(b)[j]) \intersect PagesNeeded(Loads(b)[i]) # {}
        BY <2>4, <2>6, <3>1
      <3> QED
        BY <2>7, <3>1, <3>2 DEF SharesAPage
    <2>9. file' # NoFile /\ SharesAPage(file')
      BY <1>1, <2>2, <2>8, PagingAssumption
    <2>10. faulting'
      BY <1>1, <1>8
    <2> QED
      BY <2>9, <2>10 DEF OnlyABadFileHalts, Plan
  <1>9. ASSUME call.kind = "stack" PROVE OnlyABadFileHalts' /\ Plan'
    <2>1. ~faulting'
      BY <1>1, <1>9
    <2>2. m = 2 /\ todo[1].start = StackPage /\ todo[1].pages = 1 /\ file \in Binaries /\ Areas(file) \in Nat
      BY <1>2, <1>7, <1>9 DEF At
    <2>3. call.v = StackPage
      <3>1. StackPage \in Nat
        BY PagingAssumption
      <3> QED
        BY <1>1, <1>3, <2>2, <3>1
    <2>4. m > 1 /\ BuiltIn(process_cr3, file, m - 1)'
      <3>2. PICK b \in Binaries : b = file
        BY <2>2
      <3>3. BuiltIn(process_cr3, b, 2)
        <4>1. 2 > 0 /\ 2 <= Areas(file) + 2
          BY <2>2
        <4> QED
          BY <1>7, <2>2, <3>2, <4>1 DEF At, Built
      <3>4. InPlace(b, 1) = InPlace(b, 2)
        <4>1. \A j \in DOMAIN vmas(b) : j + 1 <= Areas(b) + 2 /\ j + 2 <= Areas(b) + 2
          <5>1. Areas(b) \in Nat
            BY <2>2, <3>2
          <5>2. \A j \in DOMAIN vmas(b) : j \in 1..Areas(b)
            BY AreaIs
          <5> QED
            BY <5>1, <5>2
        <4> QED
          BY <4>1 DEF InPlace
      <3>5. \A j \in InPlace(b, 1) : Has(process_cr3, b, j)'
        <4>1. \A j \in InPlace(b, 1) : Has(process_cr3, b, j)
          BY <3>3, <3>4 DEF BuiltIn
        <4> QED
          BY <1>1, <1>6, <4>1 DEF Has, Filled
      <3>6. \A v \in 0..(UserEnd - 1) : ~Behind(v)'
        BY <1>1 DEF Behind, Places, NoCall
      <3>7. \A v \in 0..(UserEnd - 1) : ~Behind(v)
        <4>1. \A v \in 0..(UserEnd - 1) : ~(todo[1].start <= v /\ v < call.v)
          BY <1>3, <2>2, <2>3, Spans
        <4> QED
          BY <4>1 DEF Behind
      <3>8. \A v \in 0..(UserEnd - 1) : Translate(process_cr3, v)' # 0 =>
                 \E j \in InPlace(b, 1) : v \in PagesOf(vmas(b)[j])
        <4>1. \A v \in 0..(UserEnd - 1) : Translate(process_cr3, v) # 0 =>
                 \E j \in InPlace(b, 2) : v \in PagesOf(vmas(b)[j])
          BY <3>3, <3>7 DEF BuiltIn
        <4> QED
          BY <1>6, <3>4, <4>1
      <3>9. Translate(process_cr3, StackPage)' # 0
        BY <1>4, <1>6, <2>3
      <3>10. BuiltIn(process_cr3, b, 1)'
        BY <1>1, <3>5, <3>6, <3>8, <3>9 DEF BuiltIn
      <3>11. m - 1 = 1 /\ m > 1
        BY <2>2
      <3> QED
        BY <1>1, <3>2, <3>10, <3>11
    <2>5. Plan'
      BY <1>1, <1>2, <1>7, <2>4, TaskEnds
    <2> QED
      BY <2>1, <2>5 DEF OnlyABadFileHalts
  <1>10. phase' = "late" /\ OnlyABadFileHalts' /\ Plan'
    BY <1>1, <1>2, <1>8, <1>9
  <1> QED
    BY <1>1, <1>5, <1>10, SpacesStay, QuietlyKeepsProcesses

LEMMA PathsRemain ==
    ASSUME tables' = tables
    PROVE  \A r, v : Translate(r, v)' = Translate(r, v) /\ Path(r, v)' = Path(r, v)
  BY DEF Translate, Path

\* The copy fills the pages of the area, and no others.
LEMMA CopyFills ==
    ASSUME NEW lev, Sound(lev), NEW r \in Tops, r = Root, NEW b \in Binaries, b = file,
           NEW i \in DOMAIN vmas(b), contents' = Copied(vmas(b)[i]),
           \A v \in PagesOf(vmas(b)[i]) : Translate(r, v) # 0,
           tables' = tables
    PROVE  /\ Has(r, b, i)'
           /\ \A q \in Tops, v \in 0..(UserEnd - 1) :
                 Translate(q, v) # 0 /\ ~(q = r /\ v \in PagesOf(vmas(b)[i])) => ContentsStay(Translate(q, v))
  <1> DEFINE vma == vmas(b)[i]
             copied == {Translate(r, v) : v \in PagesOf(vma)}
             part(page) == PartFor(vma, CHOOSE v \in PagesOf(vma) : Translate(r, v) = page)
  <1>1. PagesOf(vma) \subseteq 0..(UserEnd - 1)
    BY AreasAreLow
  <1>2. contents' = [page \in DOMAIN contents \union copied |->
                       IF \E v \in PagesOf(vma) : Translate(r, v) = page
                       THEN [file |-> b, from |-> part(page)]
                       ELSE contents[page]]
    BY DEF Copied
  <1>3. ASSUME NEW v \in PagesOf(vma), NEW w \in PagesOf(vma), Translate(r, v) = Translate(r, w)
        PROVE  v = w
    BY <1>1, <1>3, PagesAreApart
  <1> HIDE DEF vma
  <1>4. ASSUME NEW v \in PagesOf(vma) PROVE Translate(r, v)' # 0 /\ Filled(Translate(r, v), b, PartFor(vma, v))'
    <2>1. Translate(r, v)' = Translate(r, v)
      BY PathsRemain
    <2> DEFINE page == Translate(r, v)
    <2>2. part(page) = PartFor(vma, v)
      <3> DEFINE w == CHOOSE u \in PagesOf(vma) : Translate(r, u) = page
      <3>1. w \in PagesOf(vma) /\ Translate(r, w) = page
        OBVIOUS
      <3>2. w = v
        BY <1>3, <3>1
      <3> QED
        BY <3>2
    <2>3. page \in copied /\ \E u \in PagesOf(vma) : Translate(r, u) = page
      OBVIOUS
    <2> HIDE DEF page, part, copied
    <2>4. page \in DOMAIN contents' /\ contents'[page] = [file |-> b, from |-> PartFor(vma, v)]
      <3>1. page \in DOMAIN contents'
        BY <1>2, <2>3
      <3>2. contents'[page] = [file |-> b, from |-> part(page)]
        BY <1>2, <2>3
      <3> QED
        BY <2>2, <3>1, <3>2
    <2>5. Translate(r, v) # 0
      BY DEF vma
    <2>6. Translate(r, v)' = page
      BY <2>1 DEF page
    <2>7. Filled(Translate(r, v), b, PartFor(vma, v))'
      BY <2>4, <2>6 DEF Filled
    <2> QED
      BY <2>1, <2>5, <2>7
  <1>5. ASSUME NEW q \in Tops, NEW v \in 0..(UserEnd - 1), Translate(q, v) # 0,
               ~(q = r /\ v \in PagesOf(vma))
        PROVE  ContentsStay(Translate(q, v))
    <2> DEFINE page == Translate(q, v)
    <2>1. ~\E w \in PagesOf(vma) : Translate(r, w) = page
      <3> SUFFICES ASSUME NEW w \in PagesOf(vma), Translate(r, w) = Translate(q, v) PROVE FALSE
        OBVIOUS
      <3>1. w \in 0..(UserEnd - 1)
        BY <1>1
      <3>2. v = w /\ q = r
        BY <1>5, <3>1, PagesAreApart
      <3> QED
        BY <1>5, <3>2
    <2> HIDE DEF page, part, copied
    <2>2. page \in DOMAIN contents => page \in DOMAIN contents' /\ contents'[page] = contents[page]
      BY <1>2, <2>1
    <2> QED
      BY <2>2 DEF ContentsStay, page
  <1> QED
    BY <1>4, <1>5 DEF vma, Has

LEMMA SegmentReturnsKeepsProcesses ==
    ASSUME SpacesInv, Fits, ProcessInv, SegmentReturns
    PROVE  ProcessInv'
  <1>1. /\ Walking /\ ~faulting /\ call.v = call.beyond /\ call.kind = "segment"
        /\ call' = NoCall /\ todo' = Tail(todo)
        /\ UNCHANGED <<tables, kernel_cr3, file, process_cr3, spaces>>
    BY DEF SegmentReturns, Walking
  <1>2. /\ CopyIsReadable(todo[1].vma) =>
              FaultsIf(FALSE) /\ contents' = Copied(todo[1].vma)
        /\ ~CopyIsReadable(todo[1].vma) => FaultsIf(TRUE) /\ UNCHANGED contents
    BY DEF SegmentReturns
  <1>3. phase' = phase /\ (faulting' <=> ~CopyIsReadable(todo[1].vma))
    BY <1>2 DEF FaultsIf
  <1>4. /\ todo # << >> /\ todo[1].op = "segment" /\ phase = "late" /\ kernel_cr3 # 0
    BY <1>1, WalkingIs
  <1>5. /\ todo[1].start \in Nat /\ todo[1].pages \in Nat
        /\ call.v = todo[1].start + todo[1].pages
        /\ Root = process_cr3 /\ process_cr3 \in Tops /\ process_cr3 \notin Roots
    BY <1>1, CallsPage DEF ProcessInv
  <1>6. CallIsOfTask'
    BY <1>1 DEF CallIsOfTask, Places, NoCall
  <1>7. PICK m \in 0..Len(todo) : At(m)
    BY <1>1, <1>4, WhereItIs DEF ProcessInv
  <1>8. PICK i \in DOMAIN vmas(file) :
           /\ m \in 3..(Areas(file) + 2) /\ i = Areas(file) + 3 - m
           /\ todo[1].start = vm_start(vmas(file)[i]) /\ todo[1].pages = vm_size(vmas(file)[i])
           /\ todo[1].vma = vmas(file)[i]
    BY <1>4, <1>7 DEF At
  <1>9. PICK b \in Binaries : b = file
    BY <1>7, <1>8 DEF At
  <1>10. Areas(b) \in Nat /\ m \in 3..(Areas(b) + 2) /\ i = Areas(b) + 3 - m /\ i \in DOMAIN vmas(b)
    BY <1>7, <1>8, <1>9 DEF At
  <1>11. CASE ~CopyIsReadable(todo[1].vma)
    <2>1. file' # NoFile /\ i \in DOMAIN vmas(file') /\ ~CopyIsReadable(vmas(file')[i])
      BY <1>1, <1>8, <1>9, <1>11, PagingAssumption
    <2>2. OnlyABadFileHalts' /\ Plan'
      BY <1>3, <1>11, <2>1 DEF OnlyABadFileHalts, Plan
    <2> QED
      BY <1>1, <1>2, <1>3, <1>4, <1>6, <1>11, <2>2, SpacesStay, QuietlyKeepsProcesses
  <1>12. CASE CopyIsReadable(todo[1].vma)
    <2>1. ~faulting' /\ contents' = Copied(vmas(b)[i])
      BY <1>2, <1>3, <1>8, <1>9, <1>12
    <2>2. PICK lev : Sound(lev)
      BY <1>4, SpacesAreSound
    <2>3. PICK r \in Tops : r = process_cr3
      BY <1>5
    <2>4. r = Root
      BY <1>5, <2>3
    <2>5. BuiltIn(r, b, m)
      <3>1. m > 0 /\ m <= Areas(file) + 2
        BY <1>9, <1>10
      <3> QED
        BY <1>7, <1>9, <2>3, <3>1 DEF At, Built
    <2>6. \A v \in 0..(UserEnd - 1) : Behind(v) <=> v \in PagesOf(vmas(b)[i])
      <3>1. \A v \in Int : v \in PagesOf(vmas(b)[i]) <=>
                 /\ vm_start(vmas(b)[i]) <= v
                 /\ v < vm_start(vmas(b)[i]) + vm_size(vmas(b)[i])
        BY <1>10, AreasAreLow
      <3>2. \A v \in 0..(UserEnd - 1) : v \in Int
        OBVIOUS
      <3>3. \A v \in 0..(UserEnd - 1) : Behind(v) <=> todo[1].start <= v /\ v < call.v
        BY <1>1 DEF Behind, Places
      <3> QED
        BY <1>5, <1>8, <1>9, <3>1, <3>2, <3>3
    <2>7. PagesOf(vmas(b)[i]) \subseteq 0..(UserEnd - 1)
      BY <1>10, AreasAreLow
    <2>8. \A v \in PagesOf(vmas(b)[i]) :
             /\ Translate(r, v) # 0
             /\ \A j \in InPlace(b, m) : v \notin PagesOf(vmas(b)[j])
      BY <2>5, <2>6, <2>7 DEF BuiltIn
    <2>9. /\ Has(r, b, i)'
          /\ \A q \in Tops, v \in 0..(UserEnd - 1) :
                Translate(q, v) # 0 /\ ~(q = r /\ v \in PagesOf(vmas(b)[i])) => ContentsStay(Translate(q, v))
      <3>1. \A v \in PagesOf(vmas(b)[i]) : Translate(r, v) # 0
        BY <2>8
      <3>2. tables' = tables
        BY <1>1
      <3> QED
        BY <1>9, <1>10, <2>1, <2>2, <2>4, <3>1, <3>2, CopyFills
    <2>10. \A q, v : Translate(q, v)' = Translate(q, v) /\ Path(q, v)' = Path(q, v)
      BY <1>1 DEF Translate, Path
    <2>11. \A space \in Created : SpaceStays(space.cr3)
      <3> SUFFICES ASSUME NEW space \in Created PROVE SpaceStays(space.cr3)
        OBVIOUS
      <3>1. space.cr3 \in Tops /\ space.cr3 \in Roots
        BY <1>4, CreatedAreTops DEF Created, Roots
      <3>2. space.cr3 # r
        BY <1>5, <2>3, <3>1
      <3> QED
        BY <2>9, <2>10, <3>1, <3>2 DEF SpaceStays
    <2>12. SpacesAreBuilt'
      BY <1>1, <2>11, SpacesStayBuilt DEF ProcessInv
    <2>13. UserPaths'
      <3>1. Spaces' = Spaces
        BY <1>1, SpacesStay
      <3> QED
        BY <1>1, <2>10, <3>1 DEF ProcessInv, UserPaths
    <2>14. InPlace(b, m - 1) = InPlace(b, m) \union {i}
      <3>1. \A j \in DOMAIN vmas(b) : j \in 1..Areas(b)
        BY AreaIs
      <3>2. \A j \in DOMAIN vmas(b) : j + (m - 1) <= Areas(b) + 2 <=> (j + m <= Areas(b) + 2 \/ j = i)
        BY <1>10, <3>1
      <3> QED
        BY <1>10, <3>2 DEF InPlace
    <2>15. ASSUME NEW j \in InPlace(b, m) PROVE Has(r, b, j)'
      <3>1. j \in DOMAIN vmas(b) /\ Has(r, b, j)
        BY <2>5 DEF BuiltIn, InPlace
      <3>2. ASSUME NEW v \in PagesOf(vmas(b)[j])
            PROVE  /\ Translate(r, v) # 0 => Translate(r, v)' = Translate(r, v)
                   /\ ContentsStay(Translate(r, v))
        <4>1. v \in 0..(UserEnd - 1)
          BY <3>1, AreasAreLow
        <4>2. v \notin PagesOf(vmas(b)[i])
          BY <2>8
        <4>3. Translate(r, v) # 0
          BY <3>1 DEF Has
        <4> QED
          BY <2>9, <2>10, <4>1, <4>2, <4>3
      <3> QED
        BY <3>1, <3>2, HasStays
    <2>16. BuiltIn(r, b, m - 1)'
      <3>1. \A j \in InPlace(b, m - 1) : Has(r, b, j)'
        <4> SUFFICES ASSUME NEW j \in InPlace(b, m - 1) PROVE Has(r, b, j)'
          OBVIOUS
        <4>1. CASE j = i
          BY <2>9, <4>1
        <4>2. CASE j \in InPlace(b, m)
          BY <2>15, <4>2
        <4> QED
          BY <2>14, <4>1, <4>2
      <3>2. m # 1 /\ m - 1 # 1
        BY <1>10
      <3>3. \A v \in 0..(UserEnd - 1) : ~Behind(v)'
        BY <1>1 DEF Behind, Places, NoCall
      <3>4. \A v \in 0..(UserEnd - 1) : Translate(r, v)' # 0 =>
                \E j \in InPlace(b, m - 1) : v \in PagesOf(vmas(b)[j])
        <4>1. \A v \in 0..(UserEnd - 1) : Translate(r, v) # 0 =>
                 Behind(v) \/ \E j \in InPlace(b, m) : v \in PagesOf(vmas(b)[j])
          BY <2>5, <3>2 DEF BuiltIn
        <4> QED
          BY <2>6, <2>10, <2>14, <4>1
      <3> QED
        BY <3>1, <3>2, <3>3, <3>4 DEF BuiltIn
    <2>17. m > 1 /\ BuiltIn(process_cr3, file, m - 1)'
      <3>1. m > 1
        BY <1>10
      <3> QED
        BY <1>1, <1>9, <2>3, <2>16, <3>1
    <2>18. Plan'
      BY <1>1, <1>4, <1>7, <2>17, TaskEnds
    <2>19. OnlyABadFileHalts'
      BY <2>1 DEF OnlyABadFileHalts
    <2> QED
      BY <1>3, <1>4, <1>6, <2>12, <2>13, <2>18, <2>19 DEF ProcessInv
  <1> QED
    BY <1>11, <1>12

\* The new top-level table maps nothing for users.
LEMMA NewSpaceIsEmpty ==
    ASSUME SpacesInv, Fits, CallReturns, call.kind = "pml4", NEW v \in 0..(UserEnd - 1)
    PROVE  /\ Translate(process_cr3, v)' = 0
           /\ \A l \in 0..3 : LET t == Path(process_cr3, v)'[l]
                              IN  t = 0 \/ tables'[t][Slot(v, l)].page = 0
  <1>1. PICK r : r = process_cr3
    OBVIOUS
  <1>2. process_cr3' = process_cr3
    BY DEF CallReturns
  <1>3. r # 0 /\ tables'[r][Slot(v, 3)].page = 0
    <2>1. Slot(v, 3) \in Slots \ {KernelSlot, SelfSlot}
      BY UserPages
    <2>2. tables'[process_cr3][Slot(v, 3)].page = 0 /\ process_cr3 \in HandedOut
      BY <2>1, UserTableIsSet
    <2>3. 0 \notin HandedOut
      BY HandedOutIsAPage DEF SpacesInv, TablesInv
    <2> QED
      BY <1>1, <2>2, <2>3
  <1> DEFINE q == Path(r, v)'
  <1>4. /\ q[3] = r
        /\ \A l \in 0..2 : q[l] = IF q[l + 1] = 0 THEN 0 ELSE tables'[q[l + 1]][Slot(v, l + 1)].page
    BY PathsStepNext DEF PathsGoDown
  <1>5. Translate(r, v)' = IF q[0] = 0 THEN 0 ELSE tables'[q[0]][Slot(v, 0)].page
    BY DEF Translate
  <1> HIDE DEF q
  <1>6. 2 \in 0..2 /\ 1 \in 0..2 /\ 0 \in 0..2 /\ 2 + 1 = 3 /\ 1 + 1 = 2 /\ 0 + 1 = 1
    OBVIOUS
  <1>7. q[2] = 0
    BY <1>3, <1>4, <1>6
  <1>8. q[1] = 0
    BY <1>4, <1>6, <1>7
  <1>9. q[0] = 0
    BY <1>4, <1>6, <1>8
  <1>10. \A l \in 0..3 : q[l] = 0 \/ tables'[q[l]][Slot(v, l)].page = 0
    BY <1>3, <1>4, <1>7, <1>8, <1>9, LevelsOfAPath
  <1> QED
    BY <1>1, <1>2, <1>5, <1>9, <1>10 DEF q

LEMMA UserTableKeepsProcesses ==
    ASSUME SpacesInv, Fits, ProcessInv, CallReturns, call.kind = "pml4"
    PROVE  ProcessInv'
  <1>1. /\ Walking /\ ~faulting /\ call' = NoCall /\ todo' = Tail(todo)
        /\ faulting' = faulting /\ phase' = phase
        /\ UNCHANGED <<kernel_cr3, process_cr3, spaces, file, contents>>
    BY DEF CallReturns, Walking, vars, files
  <1>2. /\ todo # << >> /\ todo[1].op = "pml4" /\ phase = "late" /\ kernel_cr3 # 0
    BY <1>1, WalkingIs
  <1>3. CallIsOfTask'
    BY <1>1 DEF CallIsOfTask, Places, NoCall
  <1>4. ASSUME NEW r \in Tops, NEW v \in 0..(UserEnd - 1)
        PROVE  /\ \A l \in 0..3 : Path(r, v)'[l] = Path(r, v)[l]
               /\ Translate(r, v)' = Translate(r, v)
    <2>1. v \in Nat /\ Slot(v, 3) # SelfSlot
      BY UserPages
    <2> QED
      BY <2>1, UserTableKeepsPaths
  <1>5. \A space \in Created : SpaceStays(space.cr3)
    BY <1>1, <1>2, <1>4, CreatedAreTops DEF SpaceStays, ContentsStay
  <1>6. SpacesAreBuilt'
    BY <1>1, <1>5, SpacesStayBuilt DEF ProcessInv
  <1>7. UserPaths'
    <2>1. Spaces' \subseteq Spaces \union {process_cr3} /\ Spaces \subseteq Tops
      <3>1. DOMAIN tables' = DOMAIN tables \union {process_cr3}
        BY UserTableIsSet
      <3>2. Created' = Created
        BY <1>1 DEF Created
      <3> QED
        BY <1>1, <3>1, <3>2 DEF Spaces, Tops, Roots, Created
    <2> SUFFICES ASSUME NEW r \in Spaces', NEW v \in 0..(UserEnd - 1), NEW l \in 0..3,
                        Path(r, v)'[l] # 0, tables'[Path(r, v)'[l]][Slot(v, l)].page # 0
                 PROVE  tables'[Path(r, v)'[l]][Slot(v, l)].user
      BY DEF UserPaths
    <2>2. CASE r \in Spaces
      <3> DEFINE t == Path(r, v)[l]
                 s == Slot(v, l)
      <3>1. r \in Tops /\ Path(r, v)'[l] = t
        BY <1>4, <2>1, <2>2
      <3>2. t \in DOMAIN tables
        <4>1. PICK lev : Leveled(lev)
          BY DEF SpacesInv
        <4>2. v \in Nat /\ Slot(v, 3) # SelfSlot
          BY UserPages
        <4> QED
          BY <3>1, <4>1, <4>2, PathIsLeveled DEF SpacesInv
      <3>3. tables'[t] = tables[t]
        BY <3>2, UserTableIsSet
      <3>4. t # 0 /\ tables[t][s].page # 0 => tables[t][s].user
        BY <2>2 DEF ProcessInv, UserPaths
      <3> HIDE DEF t, s
      <3> QED
        BY <3>1, <3>3, <3>4 DEF s
    <2>3. CASE r = process_cr3
      <3>1. \A k \in 0..3 : LET t == Path(process_cr3, v)'[k]
                            IN  t = 0 \/ tables'[t][Slot(v, k)].page = 0
        BY NewSpaceIsEmpty
      <3>2. Path(process_cr3, v)' = Path(r, v)'
        BY <1>1, <2>3
      <3> QED
        BY <3>1, <3>2
    <2> QED
      BY <2>1, <2>2, <2>3
  <1>8. PICK m \in 0..Len(todo) : At(m)
    BY <1>1, <1>2, WhereItIs DEF ProcessInv
  <1>9. ASSUME m > 0, m <= Areas(file) + 3
        PROVE  m > 1 /\ BuiltIn(process_cr3, file, m - 1)'
    <2>1. m = Areas(file) + 3 /\ Areas(file) \in Nat
      BY <1>2, <1>8, <1>9 DEF At
    <2>2. PICK b \in Binaries : b = file
      BY <1>8, <1>9 DEF At
    <2>3. Areas(b) \in Nat /\ m - 1 = Areas(b) + 2 /\ m > 1 /\ m - 1 # 1
      BY <2>1, <2>2
    <2>4. InPlace(b, m - 1) = {}
      <3>1. \A j \in DOMAIN vmas(b) : j \in 1..Areas(b)
        BY AreaIs
      <3> QED
        BY <2>3, <3>1 DEF InPlace
    <2>5. \A v \in 0..(UserEnd - 1) : ~Behind(v)' /\ Translate(process_cr3, v)' = 0
      BY <1>1, NewSpaceIsEmpty DEF Behind, Places, NoCall
    <2>6. BuiltIn(process_cr3, b, m - 1)'
      BY <2>3, <2>4, <2>5 DEF BuiltIn
    <2> QED
      BY <1>1, <2>2, <2>3, <2>6
  <1>10. Plan'
    BY <1>1, <1>2, <1>8, <1>9, TaskEnds
  <1>11. OnlyABadFileHalts'
    BY <1>1 DEF OnlyABadFileHalts
  <1> QED
    BY <1>1, <1>2, <1>3, <1>6, <1>7, <1>10, <1>11 DEF ProcessInv

LEMMA CallReturnsKeepsProcesses ==
    ASSUME SpacesInv, Fits, ProcessInv, CallReturns
    PROVE  ProcessInv'
  <1>1. /\ Walking /\ ~faulting /\ call.v = call.beyond /\ call.kind # "segment"
        /\ call' = NoCall /\ todo' = Tail(todo)
        /\ faulting' = faulting /\ phase' = phase
        /\ UNCHANGED <<kernel_cr3, process_cr3, spaces, file, contents>>
    BY DEF CallReturns, Walking, vars, files
  <1>2. /\ todo # << >> /\ todo[1].op = call.kind /\ call.kind \in {"heap", "pml4", "stack"}
        /\ phase = "late" /\ todo[1].op # "get_elf"
    BY <1>1, WalkingIs
  <1>3. CASE call.kind = "pml4"
    BY <1>3, UserTableKeepsProcesses
  <1>4. ASSUME call.kind \in {"heap", "stack"} PROVE ProcessInv'
    <2>1. tables' = tables
      BY <1>4 DEF CallReturns
    <2>2. CallIsOfTask'
      BY <1>1 DEF CallIsOfTask, Places, NoCall
    <2>3. OnlyABadFileHalts'
      BY <1>1 DEF OnlyABadFileHalts
    <2>4. PICK m \in 0..Len(todo) : At(m)
      BY <1>1, <1>2, WhereItIs DEF ProcessInv
    <2>5. ASSUME m > 0, m <= Areas(file) + 3
          PROVE  m > 1 /\ BuiltIn(process_cr3, file, m - 1)'
      <3>1. Areas(file) \in Nat /\ file \in Binaries
        BY <2>4, <2>5 DEF At
      <3>2. call.kind = "stack"
        <4>1. ~(m = 0 \/ m > Areas(file) + 3)
          BY <2>5, <3>1
        <4> QED
          BY <1>2, <1>4, <2>4, <4>1 DEF At
      <3>3. m = 2 /\ todo[1].start = StackPage /\ todo[1].pages = 1
        BY <1>2, <2>4, <3>2 DEF At
      <3>4. PICK b \in Binaries : b = file
        BY <3>1
      <3>5. BuiltIn(process_cr3, b, 2)
        <4>1. 2 > 0 /\ 2 <= Areas(file) + 2
          BY <3>1
        <4> QED
          BY <2>4, <3>3, <3>4, <4>1 DEF At, Built
      <3>6. InPlace(b, 1) = InPlace(b, 2)
        <4>1. \A j \in DOMAIN vmas(b) : j + 1 <= Areas(b) + 2 /\ j + 2 <= Areas(b) + 2
          <5>1. Areas(b) \in Nat
            BY <3>1, <3>4
          <5>2. \A j \in DOMAIN vmas(b) : j \in 1..Areas(b)
            BY AreaIs
          <5> QED
            BY <5>1, <5>2
        <4> QED
          BY <4>1 DEF InPlace
      <3>7. \A v : Translate(process_cr3, v)' = Translate(process_cr3, v)
        BY <1>1, <2>1, PathsRemain
      <3>8. \A j \in InPlace(b, 1) : Has(process_cr3, b, j)'
        <4>1. \A j \in InPlace(b, 1) : Has(process_cr3, b, j)
          BY <3>5, <3>6 DEF BuiltIn
        <4> QED
          BY <1>1, <3>7, <4>1 DEF Has, Filled
      <3>9. \A v \in 0..(UserEnd - 1) : ~Behind(v)'
        BY <1>1 DEF Behind, Places, NoCall
      <3>10. \A v \in 0..(UserEnd - 1) : Behind(v) <=> v = StackPage
        <4>1. /\ todo[1].start \in Nat /\ call.v = todo[1].start + todo[1].pages
          BY <1>1, <3>2, CallsPage DEF ProcessInv
        <4>2. \A v \in 0..(UserEnd - 1) : todo[1].start <= v /\ v < call.v <=> v = StackPage
          <5>1. todo[1].start = StackPage /\ call.v = StackPage + 1 /\ StackPage \in Nat
            BY <3>3, <4>1
          <5>2. \A v \in 0..(UserEnd - 1) : StackPage <= v /\ v < StackPage + 1 <=> v = StackPage
            <6>1. UserEnd \in Nat
              BY Spans
            <6> QED
              BY <5>1, <6>1
          <5> QED
            BY <5>1, <5>2
        <4> QED
          BY <3>2, <4>2 DEF Behind, Places
      <3>11. Translate(process_cr3, StackPage)' # 0
        BY <3>5, <3>7, <3>10, StackIsLow DEF BuiltIn
      <3>12. \A v \in 0..(UserEnd - 1) : Translate(process_cr3, v)' # 0 =>
                 \/ \E j \in InPlace(b, 1) : v \in PagesOf(vmas(b)[j])
                 \/ v = StackPage
        <4>1. \A v \in 0..(UserEnd - 1) : Translate(process_cr3, v) # 0 =>
                 Behind(v) \/ \E j \in InPlace(b, 2) : v \in PagesOf(vmas(b)[j])
          BY <3>5 DEF BuiltIn
        <4> QED
          BY <3>6, <3>7, <3>10, <4>1
      <3>13. BuiltIn(process_cr3, b, 1)'
        BY <3>8, <3>9, <3>11, <3>12 DEF BuiltIn
      <3>14. m - 1 = 1 /\ m > 1
        BY <3>3
      <3> QED
        BY <1>1, <3>4, <3>13, <3>14
    <2>6. Plan'
      BY <1>1, <1>2, <2>4, <2>5, TaskEnds
    <2> QED
      BY <1>1, <1>2, <2>1, <2>2, <2>3, <2>6, SpacesStay, QuietlyKeepsProcesses
  <1> QED
    BY <1>2, <1>3, <1>4

-----------------------------------------------------------------------------
(* Every step *)

LEMMA InitHasNoProcesses ==
    ASSUME RegionsAreApart, PagingInit
    PROVE  ProcessInv
  <1>1. TablesInv
    BY InitHasSpaces DEF SpacesInv
  <1>2. phase # "late" /\ ~faulting
    BY DEF PagingInit, Init
  <1> QED
    BY <1>1, <1>2, NoProcessesYet DEF Booting

LEMMA NextKeepsProcesses ==
    ASSUME RegionsAreApart, SpacesInv, SpacesInv', Fits, ProcessInv, [PagingNext]_allVars
    PROVE  ProcessInv'
  <1>1. CASE UNCHANGED allVars
    BY <1>1, UnchangedKeepsProcesses
  <1>2. CASE faulting /\ PagingNext
    BY <1>2, FaultIsFinal, UnchangedKeepsProcesses
  <1>3. ASSUME BuildFreeList \/ create_kernel_pml4 \/ map_all_kernel_pages \/ map_video_memory, ~faulting
        PROVE  ProcessInv'
    <2>1. phase # "late" /\ phase' # "late" /\ faulting' = faulting
      <3>1. CASE BuildFreeList
        BY <3>1 DEF BuildFreeList, append_free_list, set_free_list_head
      <3>2. CASE create_kernel_pml4
        BY <3>2 DEF create_kernel_pml4, get_next_free_page
      <3>3. CASE map_all_kernel_pages
        <4>1. phase # "late"
          BY <3>3 DEF map_all_kernel_pages, SpacesInv, TablesInv
        <4>2. get_next_free_page \/ UNCHANGED vars
          BY <3>3 DEF map_all_kernel_pages, AddTable
        <4> QED
          BY <4>1, <4>2 DEF get_next_free_page, vars
      <3>4. CASE map_video_memory
        <4>1. phase # "late" /\ UNCHANGED vars
          BY <3>4 DEF map_video_memory, SpacesInv, TablesInv
        <4> QED
          BY <4>1 DEF vars
      <3> QED
        BY <1>3, <3>1, <3>2, <3>3, <3>4
    <2>2. Booting'
      BY <1>3, <2>1 DEF SpacesInv, Booting
    <2> QED
      BY <2>2, NoProcessesYet, PTL
  <1>4. CASE LoadKernelTables
    BY <1>4, LoadKeepsProcesses
  <1>5. CASE get_elf \/ kmalloc_user \/ create_new_user_pml4 \/ kmalloc_top_virtual_address_user
    BY <1>5, GetElfKeepsProcesses, KmallocUserKeepsProcesses, CreateUserTableKeepsProcesses,
       KmallocTopKeepsProcesses
  <1>6. CASE TakePageToMap \/ page_walk_user_AddTable \/ page_walk_user_SetEntry
    BY <1>6, TakePageKeepsProcesses, AddTableKeepsProcesses, SetEntryKeepsProcesses
  <1>7. CASE page_walk_user_AlreadyMapped \/ SegmentReturns \/ CallReturns \/ ProcessCreated
    BY <1>7, AlreadyMappedKeepsProcesses, SegmentReturnsKeepsProcesses, CallReturnsKeepsProcesses,
       ProcessCreatedKeepsProcesses
  <1>8. CASE set_cr3 \/ exec_new_binary
    BY <1>8, SetCr3KeepsProcesses, ExecKeepsProcesses
  <1>9. PageFault => faulting
    BY DEF PageFault, page_fault_handler
  <1> QED
    BY <1>1, <1>2, <1>3, <1>4, <1>5, <1>6, <1>7, <1>8, <1>9 DEF PagingNext

(***************************************************************************)
(* What create_process has mapped and copied, with as many of its tasks    *)
(* left, holds in every state of every machine.                            *)
(***************************************************************************)
THEOREM ProcessesInvariant ==
    ASSUME RegionsAreApart PROVE PagingSpec /\ []Fits => []ProcessInv
  <1>1. PagingInit => ProcessInv
    BY InitHasNoProcesses
  <1>2. SpacesInv /\ SpacesInv' /\ Fits /\ ProcessInv /\ [PagingNext]_allVars => ProcessInv'
    BY NextKeepsProcesses
  <1>3. PagingSpec /\ []Fits => []SpacesInv
    BY SpacesInvariant
  <1> QED
    BY <1>1, <1>2, <1>3, PTL DEF PagingSpec

-----------------------------------------------------------------------------
(* What a process has *)

LEMMA QuotientsAscend ==
    ASSUME NEW a \in Nat, NEW b \in Nat, NEW n \in Nat \ {0}, a <= b
    PROVE  a \div n <= b \div n
  <1> DEFINE p == a \div n
             q == b \div n
  <1>1. p \in Nat /\ a = n * p + (a % n) /\ a % n \in 0..(n - 1)
    OBVIOUS
  <1>2. q \in Nat /\ b = n * q + (b % n) /\ b % n \in 0..(n - 1)
    OBVIOUS
  <1> HIDE DEF p, q
  <1>3. n * p \in Nat /\ n * q \in Nat /\ n * (q + 1) = n * q + n
    BY <1>1, <1>2
  <1>4. ASSUME p > q PROVE FALSE
    <2>1. n * (q + 1) <= n * p
      <3>1. q + 1 <= p /\ q + 1 \in Nat
        BY <1>1, <1>2, <1>4
      <3> DEFINE t == q + 1
      <3> HIDE DEF t
      <3>2. t \in Nat /\ t <= p => n * t <= n * p
        BY <1>1
      <3> QED
        BY <3>1, <3>2 DEF t
    <2>2. a < n * (q + 1)
      BY <1>2, <1>3
    <2>3. n * p <= a
      BY <1>1, <1>3
    <2> QED
      BY <1>1, <1>3, <2>1, <2>2, <2>3
  <1>5. p <= q
    BY <1>1, <1>2, <1>4
  <1> QED
    BY <1>5 DEF p, q

\* The page of a byte of a segment.
LEMMA BytesPage ==
    ASSUME NEW b \in Binaries, NEW j \in DOMAIN Loads(b),
           NEW byte \in Loads(b)[j].p_vaddr .. (Loads(b)[j].p_vaddr + Loads(b)[j].p_memsz - 1)
    PROVE  /\ j \in DOMAIN vmas(b) /\ byte \in Nat
           /\ byte \div PAGESIZE \in PagesOf(vmas(b)[j])
           /\ byte \div PAGESIZE \in 0..(UserEnd - 1)
  <1> DEFINE phdr == Loads(b)[j]
  <1>1. j \in DOMAIN vmas(b)
    BY DEF vmas
  <1>2. phdr.p_vaddr \in Nat /\ phdr.p_memsz \in Nat
    BY <1>1, AreaIs DEF ProgramHeader
  <1>3. byte \in Nat /\ phdr.p_vaddr <= byte /\ byte <= phdr.p_vaddr + phdr.p_memsz - 1
    BY <1>2
  <1>4. PagesOf(vmas(b)[j]) = PagesNeeded(phdr)
    BY <1>1, AreaIs
  <1>5. PagesOf(vmas(b)[j]) \subseteq 0..(UserEnd - 1)
    BY <1>1, AreasAreLow
  <1> DEFINE from == phdr.p_vaddr
             last == phdr.p_vaddr + phdr.p_memsz - 1
  <1>6. from \in Nat /\ last \in Nat /\ from <= byte /\ byte <= last
    BY <1>2, <1>3
  <1>7. PagesNeeded(phdr) = (from \div PAGESIZE)..(last \div PAGESIZE)
    BY DEF PagesNeeded
  <1> HIDE DEF from, last, phdr
  <1>8. from \div PAGESIZE <= byte \div PAGESIZE /\ byte \div PAGESIZE <= last \div PAGESIZE
    BY <1>3, <1>6, QuotientsAscend, SizesAssumption
  <1>9. byte \div PAGESIZE \in Nat /\ from \div PAGESIZE \in Nat /\ last \div PAGESIZE \in Nat
    BY <1>3, <1>6, SizesAssumption
  <1>10. byte \div PAGESIZE \in PagesNeeded(phdr)
    BY <1>7, <1>8, <1>9
  <1> QED
    BY <1>1, <1>3, <1>4, <1>5, <1>10 DEF phdr

LEMMA ASpaceIsATable ==
    ASSUME SpacesInv, NEW i \in 1..Len(spaces)
    PROVE  /\ spaces[i] \in Created /\ kernel_cr3 # 0
           /\ spaces[i].cr3 \in Spaces /\ spaces[i].cr3 \in Tops
  <1>1. phase = "late" /\ kernel_cr3 # 0
    <2>1. phase = "late"
      BY DEF SpacesInv, TablesInv
    <2>2. kernel_cr3 \in DOMAIN tables /\ 0 \notin DOMAIN tables
      BY <2>1, TablesAreNumbers DEF SpacesInv, TablesInv
    <2> QED
      BY <2>1, <2>2
  <1>2. spaces[i] \in Created
    BY DEF Created
  <1>3. spaces[i].cr3 \in Tops
    BY <1>1, <1>2, CreatedAreTops
  <1> QED
    BY <1>1, <1>2, <1>3 DEF Spaces, Tops

LEMMA MappedIsForUsers ==
    ASSUME UserPaths, NEW r \in Spaces, NEW v \in 0..(UserEnd - 1), Translate(r, v) # 0
    PROVE  UserMayUse(r, v)
  BY MappedPath DEF UserPaths, UserMayUse

LEMMA ProcessInvImpliesMemory ==
    ASSUME SpacesInv, ProcessInv
    PROVE  ProcessesHaveTheirMemory
  <1> SUFFICES ASSUME NEW i \in 1..Len(spaces), spaces[i].binary # << >>
               PROVE  /\ UserMayUse(spaces[i].cr3, StackPage)
                      /\ \A j \in 1..Len(Loads(spaces[i].binary)) :
                            \A byte \in Loads(spaces[i].binary)[j].p_vaddr
                                        .. (Loads(spaces[i].binary)[j].p_vaddr
                                            + Loads(spaces[i].binary)[j].p_memsz - 1) :
                               UserMayUse(spaces[i].cr3, byte \div PAGESIZE)
    BY DEF ProcessesHaveTheirMemory
  <1> DEFINE r == spaces[i].cr3
             b == spaces[i].binary
  <1>1. r \in Spaces /\ spaces[i] \in Created
    BY ASpaceIsATable
  <1>2. /\ b \in Binaries
        /\ Translate(r, StackPage) # 0
        /\ \A j \in DOMAIN vmas(b) : Has(r, b, j)
    BY <1>1 DEF ProcessInv, SpacesAreBuilt, SpaceIsBuilt
  <1> HIDE DEF r, b
  <1>3. UserMayUse(r, StackPage)
    BY <1>1, <1>2, MappedIsForUsers, StackIsLow DEF ProcessInv
  <1>4. ASSUME NEW j \in 1..Len(Loads(b)),
               NEW byte \in Loads(b)[j].p_vaddr .. (Loads(b)[j].p_vaddr + Loads(b)[j].p_memsz - 1)
        PROVE  UserMayUse(r, byte \div PAGESIZE)
    <2>1. j \in DOMAIN Loads(b)
      BY <1>2, PagingAssumption
    <2>2. /\ j \in DOMAIN vmas(b) /\ byte \div PAGESIZE \in PagesOf(vmas(b)[j])
          /\ byte \div PAGESIZE \in 0..(UserEnd - 1)
      BY <1>2, <2>1, BytesPage
    <2>3. Translate(r, byte \div PAGESIZE) # 0
      BY <1>2, <2>2 DEF Has
    <2> QED
      BY <1>1, <2>2, <2>3, MappedIsForUsers DEF ProcessInv
  <1> QED
    BY <1>3, <1>4 DEF r, b

\* A segment that starts with its file starts with a page.
LEMMA PlaceOfAByte ==
    ASSUME NEW b \in Binaries, NEW j \in DOMAIN Loads(b), Loads(b)[j].p_offset = 0,
           NEW k \in Nat
    PROVE  LET address == Loads(b)[j].p_vaddr + k
           IN  PartFor(vmas(b)[j], address \div PAGESIZE) + (address % PAGESIZE) = k
  <1> DEFINE phdr == Loads(b)[j]
             n == PAGESIZE
             from == phdr.p_vaddr
             s == from \div n
             address == from + k
             v == address \div n
  <1>1. j \in DOMAIN vmas(b) /\ n \in Nat \ {0} /\ WordBytes \in Nat
    BY SizesAssumption, PagingAssumption DEF vmas
  <1>2. from \in Nat /\ vmas(b)[j].vm_start = from /\ vmas(b)[j].vm_offset = 0
    BY <1>1, AreaIs DEF ProgramHeader
  <1>3. from % n = 0
    <2>1. phdr.p_offset % n = from % n
      BY <1>1, PagingAssumption
    <2>2. 0 % n = 0
      BY <1>1
    <2> QED
      BY <2>1, <2>2
  <1>4. vm_start(vmas(b)[j]) = s /\ offset(vmas(b)[j]) = 0
    <2>1. WordBytes * 0 = 0
      BY <1>1
    <2> QED
      BY <1>2, <2>1 DEF vm_start, offset
  <1>5. PartFor(vmas(b)[j], v) = 0 + (v - s) * n
    BY <1>4 DEF PartFor
  <1> HIDE DEF phdr, n, from
  <1>6. address \in Nat
    BY <1>2
  <1> HIDE DEF address
  <1>7. v \in Nat /\ address = n * v + (address % n) /\ address % n \in 0..(n - 1)
    BY <1>1, <1>6
  <1>8. s \in Nat /\ from = n * s
    <2>1. s \in Nat /\ from = n * s + (from % n)
      BY <1>1, <1>2
    <2>2. n * s \in Nat
      BY <1>1, <2>1
    <2> QED
      BY <1>3, <2>1, <2>2
  <1> HIDE DEF v, s
  <1>9. (v - s) * n = n * v - n * s /\ n * v \in Nat /\ n * s \in Nat
    BY <1>1, <1>7, <1>8
  <1>10. 0 + (v - s) * n + (address % n) = k
    <2>1. address = from + k
      BY DEF address
    <2> QED
      BY <1>7, <1>8, <1>9, <2>1
  <1>11. PartFor(vmas(b)[j], v) + (address % n) = k
    BY <1>5, <1>10
  <1> QED
    BY <1>11 DEF v, address, from, phdr, n

LEMMA ProcessInvImpliesArrival ==
    ASSUME SpacesInv, ProcessInv
    PROVE  FirstSegmentsArrive
  <1> SUFFICES ASSUME NEW i \in 1..Len(spaces), spaces[i].binary # << >>,
                      NEW j \in DOMAIN Loads(spaces[i].binary),
                      Loads(spaces[i].binary)[j].p_offset = 0
               PROVE  Arrives(spaces[i], Loads(spaces[i].binary)[j])
    BY DEF FirstSegmentsArrive
  <1> DEFINE r == spaces[i].cr3
             b == spaces[i].binary
             phdr == Loads(b)[j]
  <1>1. spaces[i] \in Created
    BY ASpaceIsATable
  <1>2. b \in Binaries /\ \A a \in DOMAIN vmas(b) : Has(r, b, a)
    BY <1>1 DEF ProcessInv, SpacesAreBuilt, SpaceIsBuilt
  <1>3. j \in DOMAIN Loads(b) /\ phdr.p_offset = 0
    OBVIOUS
  <1> HIDE DEF r, b
  <1>4. j \in DOMAIN vmas(b) /\ phdr.p_vaddr \in Nat /\ phdr.p_memsz \in Nat /\ phdr.p_filesz \in 1..phdr.p_memsz
    <2>1. j \in DOMAIN vmas(b)
      BY <1>3 DEF vmas
    <2> QED
      BY <1>2, <1>3, <2>1, AreaIs, PagingAssumption DEF ProgramHeader
  <1>5. ASSUME NEW k \in 0 .. phdr.p_filesz - 1
        PROVE  ByteAt(spaces[i], phdr.p_vaddr + k) = [file |-> b, place |-> phdr.p_offset + k]
    <2> DEFINE address == phdr.p_vaddr + k
               v == address \div PAGESIZE
               page == Translate(r, v)
    <2>1. k \in Nat /\ address \in phdr.p_vaddr .. (phdr.p_vaddr + phdr.p_memsz - 1)
      <3> DEFINE start == phdr.p_vaddr
                 size == phdr.p_memsz
                 filled == phdr.p_filesz
      <3>1. start \in Nat /\ size \in Nat /\ filled \in 1..size /\ k \in 0 .. filled - 1
        BY <1>4
      <3> HIDE DEF start, size, filled
      <3>2. k \in Nat /\ start + k \in start .. (start + size - 1)
        BY <3>1
      <3> QED
        BY <3>2 DEF start, size
    <2>2. v \in PagesOf(vmas(b)[j])
      BY <1>2, <1>3, <2>1, BytesPage
    <2>3. Filled(page, b, PartFor(vmas(b)[j], v))
      BY <1>2, <1>4, <2>2 DEF Has
    <2>4. PartFor(vmas(b)[j], v) + (address % PAGESIZE) = k
      BY <1>2, <1>3, <2>1, PlaceOfAByte
    <2>5. phdr.p_offset + k = k
      BY <1>3, <2>1
    <2> HIDE DEF address, v
    <2>6. page \in DOMAIN contents /\ contents[page].file = b /\ contents[page].from = PartFor(vmas(b)[j], v)
      BY <2>3 DEF Filled
    <2>7. ByteAt(spaces[i], address)
          = [file |-> contents[page].file, place |-> contents[page].from + (address % PAGESIZE)]
      BY <2>6 DEF ByteAt, v, r
    <2>8. ByteAt(spaces[i], address) = [file |-> b, place |-> k]
      BY <2>4, <2>6, <2>7
    <2> QED
      BY <2>5, <2>8 DEF address
  <1> QED
    BY <1>5 DEF Arrives, b

(***************************************************************************)
(* ProcessesHaveTheirMemory: every process create_process has returned has *)
(* its segments and its stack, mapped for user mode at all levels.         *)
(***************************************************************************)
THEOREM ProcessesHaveMemory ==
    ASSUME RegionsAreApart PROVE PagingSpec /\ []Fits => []ProcessesHaveTheirMemory
  BY SpacesInvariant, ProcessesInvariant, ProcessInvImpliesMemory, PTL

(***************************************************************************)
(* FirstSegmentsArrive: the bytes of a segment that starts with its file   *)
(* are, and stay, at their addresses in the process.                       *)
(***************************************************************************)
THEOREM ProcessesHaveTheirFirstSegment ==
    ASSUME RegionsAreApart PROVE PagingSpec /\ []Fits => []FirstSegmentsArrive
  BY SpacesInvariant, ProcessesInvariant, ProcessInvImpliesArrival, PTL

(***************************************************************************)
(* OnlyABadFileHalts: what the kernel faults for is the file it loads, or  *)
(* the want of memory.                                                     *)
(***************************************************************************)
THEOREM ProcessesHaltOnlyForABadFile ==
    ASSUME RegionsAreApart PROVE PagingSpec /\ []Fits => []OnlyABadFileHalts
  <1>1. ProcessInv => OnlyABadFileHalts
    BY DEF ProcessInv
  <1> QED
    BY <1>1, ProcessesInvariant, PTL

-----------------------------------------------------------------------------
(* The account of pages *)

\* Of the pages handed out, those that are entered somewhere, are a top-level
\* table, or are held by the call in progress.
Calling == call.kind \notin {"none", "boot"}
IsOwned(page) == \E o \in Owners : PageOf(o) = page
Accounted(page) ==
    \/ IsOwned(page)
    \/ page \in {kernel_cr3, process_cr3}
    \/ Calling /\ page = call.page
Lost == {page \in HandedOut : ~Accounted(page)}

\* The top-level table of the process being created is entered as soon as the
\* call that maps it has come that far.
RootIsKept ==
    process_cr3 # 0 => IsOwned(process_cr3) \/ (call.kind = "pml4" /\ call.page # 0)

\* A call that comes to its end holds no page.
HandsAreEmpty == Calling /\ call.v = call.beyond => call.page = 0

\* The kernel's calls map at the top, which is above the direct map.
TopIsHigh ==
    phase = "late" =>
        top_virtual_address >= KernBase + Physfree \div PAGESIZE + free_list_page_length + TopSlack

Account ==
    /\ ~faulting => Lost = {}
    /\ \A p, q \in Lost : p = q
    /\ RootIsKept
    /\ HandsAreEmpty
    /\ TopIsHigh

(***************************************************************************)
(* No file has a segment on the page of the stack.  Otherwise the stack    *)
(* would be refused and its page lost, without a fault.                    *)
(***************************************************************************)
StackIsApart == \A b \in Binaries : \A i \in DOMAIN vmas(b) : StackPage \notin PagesOf(vmas(b)[i])

\* An entry owned stays owned.
LEMMA OwnersRemain ==
    ASSUME NEW lev, Sound(lev), NEW t0, NEW s0, NEW e, NEW added, Enters(lev, t0, s0, e, added)
    PROVE  /\ \A page : IsOwned(page) => IsOwned(page)'
           /\ <<t0, s0>> \notin Direct => \A page : page = e.page => IsOwned(page)'
  <1>0. /\ tables'[t0][s0] = e
        /\ \A t \in DOMAIN tables, s \in Slots :
              (t = t0 /\ s = s0) \/ tables'[t][s] = tables[t][s]
    BY EntryIsSet
  <1>1. DOMAIN tables' = DOMAIN tables \union added /\ added \intersect DOMAIN tables = {}
    BY TablesAreAdded
  <1>2. Roots' = Roots /\ Tops' = Tops /\ DirectMap' = DirectMap
    BY TopsStay
  <1>3. process_cr3' = process_cr3 /\ kernel_cr3' = kernel_cr3
    BY DEF Enters
  <1>4. TablesInv /\ Fits /\ Leveled(lev) /\ kernel_cr3 # 0
    BY DEF Sound
  <1>5. ASSUME NEW t \in DOMAIN tables, NEW s, <<t, s>> \in Direct'
        PROVE  <<t, s>> \in Direct
    <2>1. PICK w \in DirectMap : t = Path(kernel_cr3, w)'[0] /\ s = Slot(w, 0)
      <3>1. \E w \in DirectMap' : <<t, s>> = <<Path(kernel_cr3, w)'[0], Slot(w, 0)>>
        BY <1>5 DEF Direct
      <3> QED
        BY <1>2, <3>1
    <2>2. w \in Nat /\ Slot(w, 3) # SelfSlot /\ kernel_cr3 \in Tops
      BY <1>4, DirectMapIsTheKernels DEF Tops, Roots, TablesInv
    <2>3. PICK r \in Tops : r = kernel_cr3
      BY <2>2
    <2>4. \/ Path(r, w)'[0] = Path(r, w)[0]
          \/ Path(r, w)[0] = 0 /\ Path(r, w)'[0] \in added
      <3>1. 0 \in 0..3
        OBVIOUS
      <3> QED
        BY <2>2, <3>1, PathsGrow
    <2>5. Path(r, w)'[0] = t
      BY <1>3, <2>1, <2>3
    <2>6. Path(r, w)[0] = t
      BY <1>1, <1>5, <2>4, <2>5
    <2> QED
      BY <2>1, <2>3, <2>6 DEF Direct
  <1>6. ASSUME NEW t \in DOMAIN tables, NEW s \in Slots, tables'[t][s].page # 0,
               t \in Roots \union {process_cr3} => s # SelfSlot /\ (s = KernelSlot => t = kernel_cr3),
               <<t, s>> \notin Direct
        PROVE  <<t, s>> \in Owners'
    <2>1. <<t, s>> \notin Direct'
      BY <1>5, <1>6
    <2>2. t \in DOMAIN tables'
      BY <1>1
    <2>3. t \in Roots' \union {process_cr3'} => s # SelfSlot /\ (s = KernelSlot => t = kernel_cr3')
      BY <1>2, <1>3, <1>6
    <2> QED
      BY <1>6, <2>1, <2>2, <2>3 DEF Owners, Direct
  <1>7. ASSUME NEW o \in Owners PROVE o \in Owners' /\ PageOf(o)' = PageOf(o)
    <2>1. PICK t, s : o = <<t, s>>
      BY DEF Owners
    <2>2. /\ t \in DOMAIN tables /\ s \in Slots /\ tables[t][s].page # 0
          /\ t \in Roots \union {process_cr3} => s # SelfSlot /\ (s = KernelSlot => t = kernel_cr3)
          /\ <<t, s>> \notin Direct
      BY <2>1, OwnersAre
    <2>3. ~(t = t0 /\ s = s0)
      <3>1. lev[t0] \in 0..3
        BY <1>4 DEF Enters, Leveled
      <3>2. lev[t0] > 0 \/ lev[t0] = 0
        BY <3>1
      <3>3. tables[t0][s0].page = 0 \/ <<t0, s0>> \in Direct
        BY <3>2 DEF Enters
      <3> QED
        BY <2>2, <3>3
    <2>4. tables'[t][s] = tables[t][s]
      BY <1>0, <2>2, <2>3
    <2>5. <<t, s>> \in Owners'
      BY <1>6, <2>2, <2>4
    <2> QED
      BY <2>1, <2>4, <2>5 DEF PageOf
  <1>8. \A page : IsOwned(page) => IsOwned(page)'
    BY <1>7 DEF IsOwned
  <1>9. ASSUME <<t0, s0>> \notin Direct
        PROVE  \A page : page = e.page => IsOwned(page)'
    <2>1. t0 \in DOMAIN tables /\ s0 \in Slots /\ e.page # 0
      BY DEF Enters
    <2>2. t0 \in Roots \union {process_cr3} => s0 # SelfSlot /\ (s0 = KernelSlot => t0 = kernel_cr3)
      <3>1. t0 \in Roots \union {process_cr3} => t0 \in Tops
        BY <2>1 DEF Tops
      <3> QED
        BY <3>1 DEF Enters
    <2>3. <<t0, s0>> \in Owners'
      BY <1>0, <1>6, <1>9, <2>1, <2>2
    <2>4. PageOf(<<t0, s0>>)' = e.page
      BY <1>0 DEF PageOf
    <2> QED
      BY <2>3, <2>4 DEF IsOwned
  <1> QED
    BY <1>8, <1>9

\* The place of an address outside of the direct map is none of the direct map.
LEMMA LeafIsNotDirect ==
    ASSUME NEW lev, Sound(lev), NEW r \in Tops, NEW v \in 0..(AddressEnd - 1),
           Slot(v, 3) # SelfSlot, v \notin DirectMap, Path(r, v)[0] # 0
    PROVE  <<Path(r, v)[0], Slot(v, 0)>> \notin Direct
  <1> SUFFICES ASSUME <<Path(r, v)[0], Slot(v, 0)>> \in Direct PROVE FALSE
    OBVIOUS
  <1>1. TablesInv /\ Fits /\ Leveled(lev) /\ kernel_cr3 # 0 /\ TopsAreAlike /\ PagesAreOwned
    BY DEF Sound
  <1>2. PICK w \in DirectMap : Path(r, v)[0] = Path(kernel_cr3, w)[0] /\ Slot(v, 0) = Slot(w, 0)
    BY DEF Direct
  <1>3. w \in 0..(AddressEnd - 1) /\ w \in Nat /\ Slot(w, 3) # SelfSlot
    <2>1. w \in Nat /\ w < AddressEnd /\ Slot(w, 3) # SelfSlot
      BY <1>1, DirectMapIsTheKernels
    <2> QED
      BY <2>1, Spans
  <1>4. kernel_cr3 \in Tops /\ v \in Nat
    BY <1>1, Spans DEF Tops, Roots, TablesInv
  <1>5. \A l \in 1..3 : Slot(v, l) = Slot(w, l)
    BY <1>1, <1>2, <1>3, <1>4, PathsOfLeaves
  <1>6. \A l \in 0..3 : l = 0 \/ l \in 1..3
    OBVIOUS
  <1>7. \A l \in 0..3 : Slot(v, l) = Slot(w, l)
    BY <1>2, <1>5, <1>6
  <1>8. v = w
    BY <1>3, <1>7, DigitsDetermine
  <1> QED
    BY <1>2, <1>8

-----------------------------------------------------------------------------
(* What keeps the account *)

LEMMA NothingIsLost ==
    ASSUME SpacesInv, Account, ~faulting,
           kernel_cr3 # 0 => kernel_cr3' = kernel_cr3,
           \A page : page = process_cr3 /\ page # 0 => IsOwned(page)' \/ process_cr3' = page,
           \A page : IsOwned(page) => IsOwned(page)',
           \A page : Calling /\ page = call.page /\ page # 0 =>
              IsOwned(page)' \/ (Calling' /\ call'.page = page),
           \A page : page \in HandedOut' /\ page \notin HandedOut => Accounted(page)'
    PROVE  Lost' = {}
  <1>1. HandedOut \subseteq Nat \ {0}
    BY HandedOutIsAPage DEF SpacesInv, TablesInv
  <1>2. \A page \in HandedOut : Accounted(page)
    BY DEF Account, Lost
  <1>3. ASSUME NEW page \in HandedOut PROVE Accounted(page)'
    <2>1. page # 0
      BY <1>1
    <2>2. \/ IsOwned(page)
          \/ page = kernel_cr3 \/ page = process_cr3
          \/ Calling /\ page = call.page
      BY <1>2 DEF Accounted
    <2>3. IsOwned(page)' \/ kernel_cr3' = page \/ process_cr3' = page \/ (Calling' /\ call'.page = page)
      BY <2>1, <2>2
    <2> QED
      BY <2>3 DEF Accounted
  <1>4. \A page \in HandedOut' : Accounted(page)'
    BY <1>3
  <1> QED
    BY <1>4 DEF Lost

\* The tables stay, and with them what is owned.
LEMMA OwnedRemains ==
    ASSUME UNCHANGED <<tables, kernel_cr3, free_list_page_length>>, Tops' = Tops
    PROVE  \A page : IsOwned(page)' <=> IsOwned(page)
  <1>1. Owners' = Owners /\ \A o : PageOf(o)' = PageOf(o)
    BY PlacesStay
  <1> QED
    BY <1>1 DEF IsOwned

\* Nothing is taken and no table changes: what the call held must not be dropped.
LEMMA QuietlyKeepsAccount ==
    ASSUME SpacesInv, Account, ~faulting,
           UNCHANGED <<tables, kernel_cr3, free_list_page_length, process_cr3>>,
           Tops' = Tops, HandedOut' = HandedOut,
           \/ ~Calling
           \/ call.page = 0
           \/ Calling' /\ call'.page = call.page /\ call'.kind = call.kind,
           HandsAreEmpty', TopIsHigh'
    PROVE  Account'
  <1>1. \A page : IsOwned(page)' <=> IsOwned(page)
    BY OwnedRemains
  <1>2. Lost' = {}
    <2>1. \A page : Calling /\ page = call.page /\ page # 0 =>
             IsOwned(page)' \/ (Calling' /\ call'.page = page)
      OBVIOUS
    <2>2. \A page : page = process_cr3 /\ page # 0 => IsOwned(page)' \/ process_cr3' = page
      OBVIOUS
    <2> QED
      BY <1>1, <2>1, <2>2, NothingIsLost
  <1>3. RootIsKept'
    <2>1. \A page : page = process_cr3 /\ page # 0 => IsOwned(page) \/ (call.kind = "pml4" /\ call.page # 0)
      BY DEF Account, RootIsKept
    <2>2. \A page : page = process_cr3' /\ page # 0 => IsOwned(page)' \/ (call'.kind = "pml4" /\ call'.page # 0)
      BY <1>1, <2>1 DEF Calling
    <2>3. PICK page : page = process_cr3'
      OBVIOUS
    <2>4. IsOwned(process_cr3)' <=> IsOwned(page)'
      BY <2>3 DEF IsOwned
    <2> QED
      BY <2>2, <2>3, <2>4 DEF RootIsKept
  <1> QED
    BY <1>2, <1>3 DEF Account

\* An entry is made, of the page of the call or of one just taken.
LEMMA EntryKeepsAccount ==
    ASSUME SpacesInv, Account, ~faulting,
           NEW lev, Sound(lev), NEW t0, NEW s0, NEW e, NEW added, Enters(lev, t0, s0, e, added),
           \/ HandedOut' = HandedOut
           \/ HandedOut' \subseteq HandedOut \union {e.page} /\ <<t0, s0>> \notin Direct,
           \/ ~Calling
           \/ call' = call
           \/ call.page = e.page /\ <<t0, s0>> \notin Direct,
           HandsAreEmpty', TopIsHigh'
    PROVE  Account'
  <1>1. /\ \A page : IsOwned(page) => IsOwned(page)'
        /\ <<t0, s0>> \notin Direct => \A page : page = e.page => IsOwned(page)'
    BY OwnersRemain
  <1>2. process_cr3' = process_cr3 /\ kernel_cr3' = kernel_cr3
    BY DEF Enters
  <1>3. \A page : Calling /\ page = call.page /\ page # 0 =>
             IsOwned(page)' \/ (Calling' /\ call'.page = page)
    BY <1>1 DEF Calling
  <1>4. \A page : page \in HandedOut' /\ page \notin HandedOut => Accounted(page)'
    <2> SUFFICES ASSUME NEW page, page \in HandedOut', page \notin HandedOut
                 PROVE  Accounted(page)'
      OBVIOUS
    <2>1. page = e.page /\ <<t0, s0>> \notin Direct
      OBVIOUS
    <2>2. IsOwned(page)'
      BY <1>1, <2>1
    <2> QED
      BY <2>2 DEF Accounted
  <1>5. \A page : page = process_cr3 /\ page # 0 => IsOwned(page)' \/ process_cr3' = page
    BY <1>2
  <1>6. Lost' = {}
    BY <1>1, <1>2, <1>3, <1>4, <1>5, NothingIsLost
  <1>7. RootIsKept'
    <2>1. \A page : page = process_cr3 /\ page # 0 => IsOwned(page) \/ (call.kind = "pml4" /\ call.page # 0)
      BY DEF Account, RootIsKept
    <2>2. call.kind = "pml4" /\ call.page # 0 => Calling /\ call.page = process_cr3
      BY DEF Calling, SpacesInv, CallFits
    <2>3. \A page : page = process_cr3 /\ page # 0 => IsOwned(page)' \/ (call'.kind = "pml4" /\ call'.page # 0)
      BY <1>1, <2>1, <2>2
    <2>4. PICK page : page = process_cr3'
      OBVIOUS
    <2>5. IsOwned(process_cr3)' <=> IsOwned(page)'
      BY <2>4 DEF IsOwned
    <2> QED
      BY <1>2, <2>3, <2>4, <2>5 DEF RootIsKept
  <1> QED
    BY <1>6, <1>7 DEF Account

-----------------------------------------------------------------------------
(* Boot *)

\* Before the kernel's top-level table is taken, nothing is.
LEMMA NothingIsTaken ==
    ASSUME SpacesInv, Account, ~faulting, phase # "late", kernel_cr3 = 0
    PROVE  HandedOut = {} /\ process_cr3 = 0 /\ call = NoCall /\ DOMAIN tables = {} /\ spaces = << >>
  <1>1. process_cr3 = 0 /\ call = NoCall /\ DOMAIN tables = {} /\ spaces = << >>
    BY DEF SpacesInv, TablesInv
  <1>2. HandedOut \subseteq Nat \ {0}
    BY HandedOutIsAPage DEF SpacesInv, TablesInv
  <1>3. Owners = {}
    BY <1>1 DEF Owners
  <1>4. ~Calling
    BY <1>1 DEF Calling, NoCall
  <1>5. \A page \in HandedOut : FALSE
    BY <1>1, <1>2, <1>3, <1>4 DEF Account, Lost, Accounted, IsOwned
  <1> QED
    BY <1>1, <1>5

\* An account of what there is in boot.
LEMMA BootsAccount ==
    ASSUME phase # "late", process_cr3 = 0, ~Calling, Lost = {}
    PROVE  Account
  BY DEF Account, RootIsKept, HandsAreEmpty, TopIsHigh

Ready == phase # "late" /\ process_cr3 = 0 /\ ~Calling /\ Lost = {}
LEMMA ReadyIsAccounted == Ready => Account
  BY BootsAccount DEF Ready

LEMMA InitHasAccount ==
    ASSUME PagingInit
    PROVE  Account
  <1>1. handed_out = << >> /\ phase # "late" /\ process_cr3 = 0 /\ call = NoCall
    BY DEF PagingInit, Init
  <1>2. HandedOut = {}
    BY <1>1 DEF HandedOut
  <1>3. Ready
    BY <1>1, <1>2 DEF Ready, Calling, NoCall, Lost
  <1> QED
    BY <1>3, ReadyIsAccounted

LEMMA BuildFreeListKeepsAccount ==
    ASSUME SpacesInv, Account, ~faulting, BuildFreeList
    PROVE  Account'
  <1>1. /\ phase = "smap" /\ phase' # "late" /\ handed_out' = handed_out
        /\ UNCHANGED <<tables, kernel_cr3, call, process_cr3>>
    BY DEF BuildFreeList, append_free_list, set_free_list_head, pagingVars
  <1>2. kernel_cr3 = 0
    BY <1>1 DEF SpacesInv, TablesInv
  <1>3. HandedOut = {} /\ process_cr3 = 0 /\ call = NoCall
    BY <1>1, <1>2, NothingIsTaken
  <1>4. HandedOut' = HandedOut
    BY <1>1 DEF HandedOut
  <1>5. Lost' = {}
    BY <1>3, <1>4 DEF Lost
  <1>6. ~Calling'
    BY <1>1, <1>3 DEF Calling, NoCall
  <1>7. Ready'
    BY <1>1, <1>3, <1>5, <1>6 DEF Ready
  <1> QED
    BY <1>7, ReadyIsAccounted, PTL

LEMMA CreateKernelTableKeepsAccount ==
    ASSUME RegionsAreApart, SpacesInv, Account, ~faulting, create_kernel_pml4
    PROVE  Account'
  <1>1. /\ kernel_cr3 = 0 /\ get_next_free_page /\ kernel_cr3' = Fresh
        /\ process_cr3' = process_cr3
        /\ call'.kind = "boot"
    <2>1. call' = [Mapping("boot", KernBase + Physbase, 0) EXCEPT
                   !.beyond = KernBase + Physfree \div PAGESIZE
                              + free_list_page_length + MapSlack + 1,
                   !.page = Physbase]
      BY DEF create_kernel_pml4
    <2> QED
      BY <2>1 DEF create_kernel_pml4, Mapping
  <1>2. phase = "early" /\ phase' = "early"
    BY <1>1 DEF get_next_free_page
  <1>3. HandedOut = {} /\ process_cr3 = 0
    BY <1>1, <1>2, NothingIsTaken
  <1>4. HandedOut' \subseteq {Fresh}
    BY <1>1, <1>3, Allocates DEF SpacesInv, TablesInv
  <1>5. Lost' = {}
    BY <1>1, <1>4 DEF Lost, Accounted
  <1>6. Ready'
    BY <1>1, <1>2, <1>3, <1>5 DEF Ready, Calling
  <1> QED
    BY <1>6, ReadyIsAccounted, PTL

\* A table is entered above the last level, where the direct map is not.
LEMMA TableKeepsAccount ==
    ASSUME RegionsAreApart, SpacesInv, Fits, Account, ~faulting, call.kind # "none",
           AddTable(get_next_free_page) \/ AddTable(get_next_free_page_kmalloc),
           handed_out' # handed_out
    PROVE  Account'
  <1>1. kernel_cr3 # 0
    BY DEF SpacesInv, TablesInv, NoCall
  <1>2. PICK lev : Sound(lev)
    BY <1>1, SpacesAreSound
  <1>3. CallFits /\ KernelTopIsFree
    BY DEF SpacesInv
  <1>4. PICK t0, s0 :
           /\ Enters(lev, t0, s0, Entry(Fresh, User), {Fresh}) /\ lev[t0] > 0
           /\ tables[t0][s0].page = 0
    BY <1>2, <1>3, TableIsEntered
  <1>5. /\ get_next_free_page \/ get_next_free_page_kmalloc
        /\ UNCHANGED <<call, top_virtual_address>>
    BY DEF AddTable
  <1>6. HandedOut' = HandedOut \union {Fresh} /\ phase' = phase
    BY <1>5, Allocates DEF SpacesInv, TablesInv
  <1>7. Entry(Fresh, User).page = Fresh
    BY DEF Entry
  <1>8. <<t0, s0>> \notin Direct
    <2>1. t0 \in DOMAIN tables /\ t0 # 0
      BY <1>4, TablesAreNumbers DEF Enters, SpacesInv
    <2>2. <<t0, s0>> \in Direct => lev[t0] = 0
      BY <1>2, <2>1, DirectIsAtTheLeaves DEF Sound
    <2> QED
      BY <1>4, <2>2
  <1>9. HandsAreEmpty'
    BY <1>5 DEF Account, HandsAreEmpty, Calling
  <1>10. TopIsHigh'
    BY <1>4, <1>5, <1>6 DEF Account, TopIsHigh, Enters
  <1> QED
    BY <1>2, <1>4, <1>5, <1>6, <1>7, <1>8, <1>9, <1>10, EntryKeepsAccount

LEMMA BootKeepsAccount ==
    ASSUME RegionsAreApart, SpacesInv, Fits, Account, ~faulting, map_all_kernel_pages
    PROVE  Account'
  <1>1. call.kind = "boot" /\ phase # "late" /\ kernel_cr3 # 0
    <2>1. call.kind = "boot"
      BY DEF map_all_kernel_pages
    <2> QED
      BY <2>1 DEF SpacesInv, TablesInv, NoCall
  <1>2. CASE AddTable(get_next_free_page)
    <2>1. handed_out' # handed_out
      <3>1. phase # "late" /\ get_next_free_page
        BY <1>1, <1>2 DEF AddTable
      <3>2. ~get_next_free_page_kmalloc
        BY <3>1 DEF get_next_free_page_kmalloc
      <3> QED
        BY <3>1, <3>2, Allocates DEF SpacesInv, TablesInv
    <2> QED
      BY <1>1, <1>2, <2>1, TableKeepsAccount
  <1>3. CASE /\ AtLeaf
             /\ tables' = SetLeaf
             /\ call' = [call EXCEPT !.v = @ + 1, !.page = @ + 1]
             /\ UNCHANGED vars
             /\ UNCHANGED <<kernel_cr3, cr3, top_virtual_address, todo, process_cr3, spaces, files>>
    <2>1. PICK lev : Sound(lev)
      BY <1>1, SpacesAreSound
    <2>2. CallFits /\ KernelTopIsFree
      BY DEF SpacesInv
    <2>3. PICK t0, s0, e : Enters(lev, t0, s0, e, {})
      BY <1>1, <1>3, <2>1, <2>2, LeafIsEntered
    <2>4. HandedOut' = HandedOut /\ phase' = phase
      BY <1>3 DEF vars, HandedOut
    <2>5. ~Calling /\ ~Calling'
      <3>1. call \in Call
        BY DEF SpacesInv, TablesInv, Typed
      <3>2. call'.kind = call.kind
        BY <1>3, <3>1 DEF Call
      <3> QED
        BY <1>1, <3>2 DEF Calling
    <2>6. HandsAreEmpty' /\ TopIsHigh'
      BY <1>1, <2>4, <2>5 DEF HandsAreEmpty, TopIsHigh
    <2> QED
      BY <2>1, <2>3, <2>4, <2>5, <2>6, EntryKeepsAccount
  <1> QED
    BY <1>2, <1>3 DEF map_all_kernel_pages

LEMMA VideoKeepsAccount ==
    ASSUME SpacesInv, Account, ~faulting, map_video_memory
    PROVE  Account'
  <1>1. /\ call.kind = "boot" /\ UNCHANGED vars /\ call'.kind = "boot"
        /\ UNCHANGED <<tables, kernel_cr3, process_cr3, spaces>>
    <2>1. call' = [Mapping("boot", KernBase + VideoPage, 2) EXCEPT !.page = VideoPage]
      BY DEF map_video_memory
    <2> QED
      BY <2>1 DEF map_video_memory, Mapping
  <1>2. UNCHANGED <<phase, free_list_page_length>> /\ HandedOut' = HandedOut
    BY <1>1 DEF vars, HandedOut
  <1>3. Tops' = Tops
    BY <1>1 DEF Tops, Roots
  <1>4. phase # "late" /\ ~Calling /\ ~Calling'
    BY <1>1 DEF SpacesInv, TablesInv, Calling
  <1>5. HandsAreEmpty' /\ TopIsHigh'
    BY <1>2, <1>4 DEF HandsAreEmpty, TopIsHigh
  <1> QED
    BY <1>1, <1>2, <1>3, <1>4, <1>5, QuietlyKeepsAccount

LEMMA LoadKeepsAccount ==
    ASSUME SpacesInv, Account, ~faulting, LoadKernelTables
    PROVE  Account'
  <1>1. /\ call.kind = "boot" /\ call' = NoCall
        /\ UNCHANGED <<tables, kernel_cr3, process_cr3, spaces>>
        /\ set_new_free_list_head
    BY DEF LoadKernelTables
  <1>2. UNCHANGED free_list_page_length /\ handed_out' = handed_out
    BY <1>1 DEF set_new_free_list_head
  <1>3. Tops' = Tops /\ HandedOut' = HandedOut
    BY <1>1, <1>2 DEF Tops, Roots, HandedOut
  <1>4. ~Calling /\ ~Calling'
    BY <1>1 DEF Calling, NoCall
  <1>5. TopIsHigh'
    <2>1. /\ KernBase \in Nat /\ Physfree \div PAGESIZE \in Nat /\ TopSlack \in Nat
          /\ free_list_page_length \in Nat
      BY PagingAssumption, ImageIsBelowPhysfree, TypeFacts DEF SpacesInv, TablesInv, IInv, Counted
    <2> DEFINE p == Physfree \div PAGESIZE
    <2> HIDE DEF p
    <2>2. KernBase + p + free_list_page_length + TopSlack >= KernBase + p + free_list_page_length + TopSlack
      BY <2>1 DEF p
    <2>3. top_virtual_address' = KernBase + p + free_list_page_length + TopSlack
      BY DEF LoadKernelTables, p
    <2> QED
      BY <1>2, <2>2, <2>3 DEF TopIsHigh, p
  <1>6. HandsAreEmpty'
    BY <1>4 DEF HandsAreEmpty
  <1> QED
    BY <1>1, <1>2, <1>3, <1>4, <1>5, <1>6, QuietlyKeepsAccount

-----------------------------------------------------------------------------
(* The kernel's calls *)

LEMMA TopStaysHigh ==
    ASSUME Account, UNCHANGED <<phase, top_virtual_address, free_list_page_length>>
    PROVE  TopIsHigh'
  BY DEF Account, TopIsHigh

\* Between two calls nothing is held.
LEMMA BetweenCallsKeepsAccount ==
    ASSUME SpacesInv, Account, ~faulting, call = NoCall,
           UNCHANGED <<phase, tables, kernel_cr3, top_virtual_address, free_list_page_length,
                       process_cr3, handed_out>>,
           Tops' = Tops, call'.kind = "none" \/ call'.page = 0
    PROVE  Account'
  <1>1. ~Calling
    BY DEF Calling, NoCall
  <1>2. HandsAreEmpty'
    BY DEF HandsAreEmpty, Calling
  <1>3. TopIsHigh' /\ HandedOut' = HandedOut
    BY TopStaysHigh DEF HandedOut
  <1> QED
    BY <1>1, <1>2, <1>3, QuietlyKeepsAccount

LEMMA GetElfKeepsAccount ==
    ASSUME SpacesInv, Account, ~faulting, get_elf
    PROVE  Account'
  <1>1. /\ call = NoCall /\ call' = call
        /\ UNCHANGED <<tables, kernel_cr3, top_virtual_address, process_cr3, spaces>>
    BY DEF get_elf, Reaches
  <1>2. UNCHANGED <<phase, free_list_page_length, handed_out>>
    BY DEF get_elf, FaultsIf
  <1>3. Tops' = Tops /\ call'.kind = "none"
    BY <1>1 DEF Tops, Roots, NoCall
  <1> QED
    BY <1>1, <1>2, <1>3, BetweenCallsKeepsAccount

LEMMA KmallocUserKeepsAccount ==
    ASSUME SpacesInv, Account, ~faulting, kmalloc_user
    PROVE  Account'
  <1>1. /\ call = NoCall /\ UNCHANGED vars
        /\ UNCHANGED <<tables, kernel_cr3, top_virtual_address, process_cr3, spaces>>
    BY DEF kmalloc_user, Reaches
  <1>2. call'.page = 0
    BY DEF kmalloc_user, Mapping
  <1>3. Tops' = Tops /\ UNCHANGED <<phase, free_list_page_length, handed_out>>
    BY <1>1 DEF Tops, Roots, vars
  <1> QED
    BY <1>1, <1>2, <1>3, BetweenCallsKeepsAccount

LEMMA KmallocTopKeepsAccount ==
    ASSUME SpacesInv, Account, ~faulting, kmalloc_top_virtual_address_user
    PROVE  Account'
  <1>1. /\ call = NoCall /\ UNCHANGED vars
        /\ UNCHANGED <<tables, kernel_cr3, top_virtual_address, process_cr3, spaces>>
    BY DEF kmalloc_top_virtual_address_user, Reaches
  <1>2. call'.page = 0
    BY DEF kmalloc_top_virtual_address_user, Mapping
  <1>3. Tops' = Tops /\ UNCHANGED <<phase, free_list_page_length, handed_out>>
    BY <1>1 DEF Tops, Roots, vars
  <1> QED
    BY <1>1, <1>2, <1>3, BetweenCallsKeepsAccount

LEMMA BetweenTasksKeepsAccount ==
    ASSUME SpacesInv, Account, ~faulting, set_cr3 \/ exec_new_binary
    PROVE  Account'
  <1>1. /\ call = NoCall /\ call' = call /\ UNCHANGED vars
        /\ UNCHANGED <<tables, kernel_cr3, top_virtual_address, process_cr3, spaces>>
    BY DEF set_cr3, exec_new_binary, Running
  <1>2. Tops' = Tops /\ UNCHANGED <<phase, free_list_page_length, handed_out>> /\ call'.kind = "none"
    BY <1>1 DEF Tops, Roots, vars, NoCall
  <1> QED
    BY <1>1, <1>2, BetweenCallsKeepsAccount

\* A process created has had its top-level table for a while.
LEMMA ProcessCreatedKeepsAccount ==
    ASSUME SpacesInv, Account, ~faulting, ProcessCreated
    PROVE  Account'
  <1>1. /\ call = NoCall /\ call' = call /\ UNCHANGED vars /\ todo # << >> /\ todo[1].op = "done"
        /\ UNCHANGED <<tables, kernel_cr3, top_virtual_address, process_cr3>>
        /\ spaces' = Append(spaces, [cr3 |-> process_cr3, binary |-> todo[1].binary])
    BY DEF ProcessCreated, Reaches
  <1>2. UNCHANGED <<phase, free_list_page_length, handed_out>> /\ call'.kind = "none"
    BY <1>1 DEF vars, NoCall
  <1>3. spaces \in Seq([cr3 : Nat, binary : Files])
    BY DEF SpacesInv, TablesInv, Typed
  <1>4. Roots' = Roots \union {process_cr3}
    <2> DEFINE n == Len(spaces)
               new == [cr3 |-> process_cr3, binary |-> todo[1].binary]
    <2>1. /\ n \in Nat /\ Len(spaces') = n + 1 /\ spaces'[n + 1] = new
          /\ \A i \in 1..n : spaces'[i] = spaces[i]
      BY <1>1, <1>3
    <2>2. new.cr3 = process_cr3
      OBVIOUS
    <2> HIDE DEF n, new
    <2>3. \A i \in 1..(n + 1) : i \in 1..n \/ i = n + 1
      BY <2>1
    <2>4. 1..n \subseteq 1..(n + 1) /\ n + 1 \in 1..(n + 1)
      BY <2>1
    <2>5. {spaces'[i].cr3 : i \in 1..(n + 1)} = {spaces[i].cr3 : i \in 1..n} \union {process_cr3}
      BY <2>1, <2>2, <2>3, <2>4
    <2>6. Roots = {kernel_cr3} \union {spaces[i].cr3 : i \in 1..n}
      BY DEF Roots, n
    <2>7. Roots' = {kernel_cr3} \union {spaces'[i].cr3 : i \in 1..(n + 1)}
      BY <1>1, <2>1 DEF Roots
    <2> QED
      BY <2>5, <2>6, <2>7
  <1>5. Tops' = Tops
    BY <1>1, <1>4 DEF Tops
  <1> QED
    BY <1>1, <1>2, <1>5, BetweenCallsKeepsAccount

\* The page of a new top-level table is held at once.  The one before is entered.
LEMMA CreateUserTableKeepsAccount ==
    ASSUME RegionsAreApart, SpacesInv, Account, ~faulting, create_new_user_pml4
    PROVE  Account'
  <1>1. /\ call = NoCall /\ todo # << >> /\ todo[1].op = "pml4" /\ get_next_free_page_kmalloc
        /\ UNCHANGED <<tables, kernel_cr3, top_virtual_address, spaces>>
    BY DEF create_new_user_pml4, Reaches
  <1>2. Roots' = Roots
    BY <1>1 DEF Roots
  <1>3. CASE faulting'
    <2>1. process_cr3' = process_cr3 /\ call' = call
      BY <1>3 DEF create_new_user_pml4
    <2>2. handed_out' = handed_out /\ UNCHANGED <<phase, free_list_page_length>>
      <3>1. handed_out' = handed_out \/ faulting' = faulting
        BY <1>1, Allocates DEF SpacesInv, TablesInv
      <3>2. UNCHANGED <<phase, free_list_page_length>>
        BY <1>1 DEF get_next_free_page_kmalloc
      <3> QED
        BY <1>3, <3>1, <3>2
    <2>3. Tops' = Tops /\ call'.kind = "none"
      BY <1>1, <1>2, <2>1 DEF Tops, NoCall
    <2> QED
      BY <1>1, <2>1, <2>2, <2>3, BetweenCallsKeepsAccount
  <1>4. CASE ~faulting'
    <2>1. process_cr3' = Fresh /\ call' = [Mapping("pml4", top_virtual_address, 1) EXCEPT !.page = Fresh]
      BY <1>4 DEF create_new_user_pml4
    <2>2. /\ UNCHANGED <<phase, free_list_page_length>> /\ Fresh # 0
          /\ HandedOut' = HandedOut \union {Fresh} /\ Fresh \notin DOMAIN tables
      BY <1>1, <1>4, PageIsTaken
    <2>3. /\ call'.kind = "pml4" /\ call'.v = top_virtual_address /\ call'.page = Fresh
          /\ call'.beyond = top_virtual_address + 1
      BY <2>1 DEF Mapping
    <2>4. Tops' = Tops
      <3>1. process_cr3 \in Roots \/ process_cr3 \notin DOMAIN tables
        BY <1>1, FirstInOrder, OpenMeans
      <3> QED
        BY <1>1, <1>2, <2>1, <2>2, <3>1 DEF Tops
    <2>5. \A page : IsOwned(page)' <=> IsOwned(page)
      BY <1>1, <2>2, <2>4, OwnedRemains
    <2>6. ~Calling /\ \A page : page = process_cr3 /\ page # 0 => IsOwned(page)
      BY <1>1 DEF Calling, NoCall, Account, RootIsKept
    <2>7. \A page : page \in HandedOut' /\ page \notin HandedOut => Accounted(page)'
      BY <2>1, <2>2 DEF Accounted
    <2>8. Lost' = {}
      BY <1>1, <2>5, <2>6, <2>7, NothingIsLost
    <2>9. RootIsKept'
      BY <2>2, <2>3 DEF RootIsKept
    <2>10. HandsAreEmpty'
      <3>1. top_virtual_address \in Nat
        BY DEF SpacesInv, TablesInv, Typed
      <3>2. call'.v # call'.beyond
        BY <2>3, <3>1
      <3> QED
        BY <3>2 DEF HandsAreEmpty
    <2>11. TopIsHigh'
      BY <1>1, <2>2, TopStaysHigh
    <2> QED
      BY <2>8, <2>9, <2>10, <2>11 DEF Account
  <1> QED
    BY <1>3, <1>4

LEMMA TakePageKeepsAccount ==
    ASSUME RegionsAreApart, SpacesInv, Account, ~faulting, TakePageToMap
    PROVE  Account'
  <1>1. /\ call.kind \in {"heap", "segment", "stack"} /\ get_next_free_page_kmalloc
        /\ call.v < call.beyond /\ call.page = 0
        /\ UNCHANGED <<tables, kernel_cr3, top_virtual_address, process_cr3, spaces>>
    BY DEF TakePageToMap
  <1>2. Tops' = Tops
    BY <1>1 DEF Tops, Roots
  <1>3. call \in Call /\ call.v \in Nat /\ call.beyond \in Nat
    BY DEF SpacesInv, TablesInv, Typed, Call
  <1>4. UNCHANGED <<phase, free_list_page_length>>
    BY <1>1 DEF get_next_free_page_kmalloc
  <1>5. TopIsHigh'
    BY <1>1, <1>4, TopStaysHigh
  <1>6. /\ call'.kind = call.kind /\ call'.v = call.v /\ call'.beyond = call.beyond
        /\ ~faulting' => call'.page = Fresh
    BY <1>3 DEF TakePageToMap, Call
  <1>7. HandsAreEmpty'
    <2>1. call'.v # call'.beyond
      BY <1>1, <1>3, <1>6
    <2> QED
      BY <2>1 DEF HandsAreEmpty
  <1>8. CASE faulting'
    <2>1. HandedOut' = HandedOut
      <3>1. HandedOut' = HandedOut \/ faulting' = faulting
        BY <1>1, Allocates DEF SpacesInv, TablesInv
      <3> QED
        BY <1>8, <3>1
    <2> QED
      BY <1>1, <1>2, <1>4, <1>5, <1>7, <2>1, QuietlyKeepsAccount
  <1>9. CASE ~faulting'
    <2>1. HandedOut' = HandedOut \union {Fresh}
      BY <1>1, <1>9, PageIsTaken
    <2>2. \A page : IsOwned(page)' <=> IsOwned(page)
      BY <1>1, <1>2, <1>4, OwnedRemains
    <2>3. \A page : page \in HandedOut' /\ page \notin HandedOut => Accounted(page)'
      <3>1. Calling' /\ call'.page = Fresh
        BY <1>1, <1>6, <1>9 DEF Calling
      <3> QED
        BY <2>1, <3>1 DEF Accounted
    <2>4. \A page : ~(Calling /\ page = call.page /\ page # 0)
      BY <1>1
    <2>5. \A page : page = process_cr3 /\ page # 0 => process_cr3' = page
      BY <1>1
    <2>6. Lost' = {}
      BY <1>1, <2>2, <2>3, <2>4, <2>5, NothingIsLost
    <2>7. RootIsKept'
      <3>1. \A page : page = process_cr3 /\ page # 0 => IsOwned(page)
        BY <1>1 DEF Account, RootIsKept
      <3>2. PICK page : page = process_cr3
        OBVIOUS
      <3>3. process_cr3' = page
        BY <1>1, <3>2
      <3>4. page # 0 => IsOwned(page)'
        BY <2>2, <3>1, <3>2
      <3>5. IsOwned(process_cr3)' <=> IsOwned(page)'
        BY <3>3 DEF IsOwned
      <3> QED
        BY <3>3, <3>4, <3>5 DEF RootIsKept
    <2> QED
      BY <1>5, <1>7, <2>6, <2>7 DEF Account
  <1> QED
    BY <1>8, <1>9

-----------------------------------------------------------------------------
(* The page walks *)

LEMMA AddTableKeepsAccount ==
    ASSUME RegionsAreApart, SpacesInv, Fits, Account, page_walk_user_AddTable
    PROVE  Account'
  <1>1. /\ Walking /\ AddTable(get_next_free_page_kmalloc) /\ ~faulting
    BY DEF page_walk_user_AddTable, Walking
  <1>2. CASE handed_out' = handed_out
    <2>1. tables' = tables /\ get_next_free_page_kmalloc
          /\ UNCHANGED <<kernel_cr3, top_virtual_address, call, process_cr3, spaces>>
      BY <1>1, <1>2 DEF AddTable
    <2>2. Tops' = Tops /\ HandedOut' = HandedOut
      BY <1>2, <2>1 DEF Tops, Roots, HandedOut
    <2>3. UNCHANGED <<phase, free_list_page_length>>
      BY <2>1 DEF get_next_free_page_kmalloc
    <2>4. HandsAreEmpty'
      BY <2>1 DEF Account, HandsAreEmpty, Calling
    <2>5. TopIsHigh'
      BY <2>1, <2>3, TopStaysHigh
    <2>6. Calling'
      BY <1>1, <2>1 DEF Calling, Walking
    <2> QED
      BY <1>1, <2>1, <2>2, <2>3, <2>4, <2>5, <2>6, QuietlyKeepsAccount
  <1>3. CASE handed_out' # handed_out
    <2>1. call.kind # "none"
      BY <1>1 DEF Walking
    <2> QED
      BY <1>1, <1>3, <2>1, TableKeepsAccount
  <1> QED
    BY <1>2, <1>3

\* The calls do not map in the direct map.
LEMMA CallIsApart ==
    ASSUME NEW lev, Sound(lev), SpacesInv, Account, Walking, call.v < call.beyond
    PROVE  call.v \notin DirectMap
  <1> SUFFICES ASSUME call.v \in DirectMap PROVE FALSE
    OBVIOUS
  <1>1. call.kind \in {"heap", "pml4", "segment", "stack"} /\ call.kind # "none"
    BY WalkingIs
  <1>2. CallFits /\ KernelTopIsFree
    BY DEF SpacesInv
  <1>3. /\ call.kind \in {"heap", "pml4"} => call.v = top_virtual_address /\ phase = "late"
        /\ call.kind \in {"segment", "stack"} => Slot(call.v, 3) # KernelSlot
    BY <1>1, <1>2, CallsAddress
  <1> DEFINE end == KernBase + Physfree \div PAGESIZE + free_list_page_length + TopSlack
  <1>4. Slot(call.v, 3) = KernelSlot /\ call.v < end
    BY DirectMapIsTheKernels DEF Sound
  <1>5. call.v = top_virtual_address /\ phase = "late"
    BY <1>1, <1>3, <1>4
  <1>6. top_virtual_address >= end
    BY <1>5 DEF Account, TopIsHigh
  <1>7. top_virtual_address \in Nat /\ end \in Nat
    <2>1. /\ KernBase \in Nat /\ Physfree \div PAGESIZE \in Nat /\ TopSlack \in Nat
          /\ free_list_page_length \in Nat
      BY PagingAssumption, ImageIsBelowPhysfree, TypeFacts DEF SpacesInv, TablesInv, IInv, Counted
    <2> DEFINE p == Physfree \div PAGESIZE
    <2> HIDE DEF p
    <2>2. KernBase + p + free_list_page_length + TopSlack \in Nat
      BY <2>1 DEF p
    <2> QED
      BY <2>2 DEF SpacesInv, TablesInv, Typed, p
  <1> HIDE DEF end
  <1> QED
    BY <1>4, <1>5, <1>6, <1>7

LEMMA SetEntryKeepsAccount ==
    ASSUME SpacesInv, Fits, Account, page_walk_user_SetEntry
    PROVE  Account'
  <1>1. /\ Walking /\ ~faulting /\ AtLeaf /\ call.v < call.beyond /\ tables' = SetLeaf
        /\ Translate(Root, call.v) = 0 /\ UNCHANGED <<vars, kernel_cr3, cr3, process_cr3, spaces>>
        /\ call' = [call EXCEPT !.v = @ + 1, !.page = 0]
        /\ top_virtual_address' = top_virtual_address + (IF MovesTop(call) THEN 1 ELSE 0)
    BY DEF page_walk_user_SetEntry, AtLeaf, Walking
  <1>2. call.kind # "none" /\ kernel_cr3 # 0
    BY <1>1, WalkingIs
  <1>3. PICK lev : Sound(lev)
    BY <1>2, SpacesAreSound
  <1>4. CallFits /\ KernelTopIsFree
    BY DEF SpacesInv
  <1> DEFINE t0 == Path(Root, call.v)[0]
             s0 == Slot(call.v, 0)
             e  == Entry(call.page, User)
  <1>5. Enters(lev, t0, s0, e, {}) /\ t0 # 0
    BY <1>1, <1>2, <1>3, <1>4, LeafIsEntered
  <1>6. <<t0, s0>> \notin Direct
    <2>1. PICK r \in Tops : r = Root
      BY <1>3, RootIsATop
    <2>2. call.v \in 0..(AddressEnd - 1) /\ Slot(call.v, 3) # SelfSlot
      BY <1>1, <1>2, <1>3, <1>4, CallsAddress
    <2>3. call.v \notin DirectMap
      BY <1>1, <1>3, CallIsApart
    <2>4. PICK v \in 0..(AddressEnd - 1) : v = call.v
      BY <2>2
    <2>5. <<Path(r, v)[0], Slot(v, 0)>> \notin Direct
      BY <1>3, <1>5, <2>1, <2>2, <2>3, <2>4, LeafIsNotDirect
    <2> QED
      BY <2>1, <2>4, <2>5
  <1>7. e.page = call.page
    BY DEF Entry
  <1>8. HandedOut' = HandedOut /\ UNCHANGED <<phase, free_list_page_length>>
    BY <1>1 DEF vars, HandedOut
  <1>9. call'.page = 0
    <2>1. call \in Call
      BY DEF SpacesInv, TablesInv, Typed
    <2> QED
      BY <1>1, <2>1 DEF Call
  <1>10. HandsAreEmpty'
    BY <1>9 DEF HandsAreEmpty
  <1>11. TopIsHigh'
    <2>1. top_virtual_address \in Nat /\ top_virtual_address' >= top_virtual_address
          /\ top_virtual_address' \in Nat
      <3>1. top_virtual_address \in Nat
        BY DEF SpacesInv, TablesInv, Typed
      <3> QED
        BY <1>1, <3>1
    <2> DEFINE end == KernBase + Physfree \div PAGESIZE + free_list_page_length + TopSlack
    <2>2. end \in Nat
      <3>1. /\ KernBase \in Nat /\ Physfree \div PAGESIZE \in Nat /\ TopSlack \in Nat
            /\ free_list_page_length \in Nat
        BY PagingAssumption, ImageIsBelowPhysfree, TypeFacts DEF SpacesInv, TablesInv, IInv, Counted
      <3> DEFINE p == Physfree \div PAGESIZE
      <3> HIDE DEF p
      <3>2. KernBase + p + free_list_page_length + TopSlack \in Nat
        BY <3>1 DEF p
      <3> QED
        BY <3>2 DEF p
    <2>3. phase = "late" => top_virtual_address >= end
      BY DEF Account, TopIsHigh
    <2>4. end' = end
      BY <1>8
    <2> HIDE DEF end
    <2>5. phase' = "late" => top_virtual_address' >= end
      BY <1>8, <2>1, <2>2, <2>3
    <2> QED
      BY <2>4, <2>5 DEF TopIsHigh, end
  <1> HIDE DEF t0, s0, e
  <1> QED
    BY <1>1, <1>3, <1>5, <1>6, <1>7, <1>8, <1>10, <1>11, EntryKeepsAccount

\* No stack is refused: the files' segments are not there, and nothing else is.
LEMMA OnlyASegmentIsRefused ==
    ASSUME StackIsApart, SpacesInv, Fits, ProcessInv, page_walk_user_AlreadyMapped
    PROVE  call.kind = "segment"
  <1>1. /\ Walking /\ ~faulting /\ call.v < call.beyond /\ Translate(Root, call.v) # 0
    BY DEF page_walk_user_AlreadyMapped, Walking, AtLeaf
  <1>2. /\ todo # << >> /\ todo[1].op = call.kind /\ call.kind \in {"segment", "stack"}
        /\ todo[1].op # "get_elf"
    <2>1. call.kind \in {"segment", "stack"}
      BY <1>1, OnlyAProcessIsRefused
    <2> QED
      BY <1>1, <2>1, WalkingIs
  <1>3. SUFFICES ASSUME call.kind = "stack" PROVE FALSE
    BY <1>2
  <1>4. /\ todo[1].start \in Nat /\ todo[1].start <= call.v
        /\ call.v \in Nat /\ call.beyond = todo[1].start + todo[1].pages
        /\ Root = process_cr3
    BY <1>1, <1>2, CallsPage DEF ProcessInv
  <1>5. PICK m \in 0..Len(todo) : At(m)
    BY <1>1, <1>2, WhereItIs DEF ProcessInv
  <1>6. m = 2 /\ todo[1].start = StackPage /\ todo[1].pages = 1 /\ file \in Binaries /\ Areas(file) \in Nat
    BY <1>2, <1>3, <1>5 DEF At
  <1>7. call.v = StackPage /\ StackPage \in 0..(UserEnd - 1)
    <2>1. StackPage \in Nat
      BY PagingAssumption
    <2> QED
      BY <1>1, <1>4, <1>6, <2>1, StackIsLow
  <1>8. PICK b \in Binaries : b = file
    BY <1>6
  <1>9. BuiltIn(process_cr3, b, 2)
    <2>1. 2 > 0 /\ 2 <= Areas(file) + 2
      BY <1>6
    <2> QED
      BY <1>5, <1>6, <1>8, <2>1 DEF At, Built
  <1>10. ~Behind(StackPage) /\ Translate(process_cr3, StackPage) # 0
    <2>1. ~(StackPage < StackPage)
      BY StackIsLow, Spans
    <2> QED
      BY <1>1, <1>4, <1>7, <2>1 DEF Behind
  <1>11. PICK j \in InPlace(b, 2) : StackPage \in PagesOf(vmas(b)[j])
    BY <1>7, <1>9, <1>10 DEF BuiltIn
  <1> QED
    BY <1>11 DEF StackIsApart, InPlace

\* A segment refused: its page is the one that is lost, and the kernel faults.
LEMMA AlreadyMappedKeepsAccount ==
    ASSUME StackIsApart, SpacesInv, Fits, ProcessInv, Account, page_walk_user_AlreadyMapped
    PROVE  Account'
  <1>1. /\ ~faulting /\ call' = NoCall /\ FaultsIf(call.kind \in {"heap", "segment"})
        /\ UNCHANGED <<tables, kernel_cr3, top_virtual_address, process_cr3, spaces>>
    BY DEF page_walk_user_AlreadyMapped, Walking
  <1>2. call.kind = "segment"
    BY OnlyASegmentIsRefused
  <1>3. faulting' /\ UNCHANGED <<phase, free_list_page_length, handed_out>>
    BY <1>1, <1>2 DEF FaultsIf
  <1>4. HandedOut' = HandedOut /\ Tops' = Tops
    BY <1>1, <1>3 DEF HandedOut, Tops, Roots
  <1>5. \A page : IsOwned(page)' <=> IsOwned(page)
    BY <1>1, <1>3, <1>4, OwnedRemains
  <1>6. \A page \in Lost' : page = call.page
    <2> SUFFICES ASSUME NEW page \in Lost', page # call.page PROVE FALSE
      OBVIOUS
    <2>1. page \in HandedOut /\ ~Accounted(page)'
      BY <1>4 DEF Lost
    <2>2. Accounted(page)
      BY <1>1, <2>1 DEF Account, Lost
    <2>3. IsOwned(page) \/ page \in {kernel_cr3, process_cr3}
      BY <2>2 DEF Accounted
    <2>4. IsOwned(page)' \/ page \in {kernel_cr3', process_cr3'}
      BY <1>1, <1>5, <2>3
    <2> QED
      BY <2>1, <2>4 DEF Accounted
  <1>7. RootIsKept'
    <2>1. \A page : page = process_cr3 /\ page # 0 => IsOwned(page)
      BY <1>2 DEF Account, RootIsKept
    <2>2. PICK page : page = process_cr3
      OBVIOUS
    <2>3. process_cr3' = page
      BY <1>1, <2>2
    <2>4. page # 0 => IsOwned(page)'
      BY <1>5, <2>1, <2>2
    <2>5. IsOwned(process_cr3)' <=> IsOwned(page)'
      BY <2>3 DEF IsOwned
    <2> QED
      BY <2>3, <2>4, <2>5 DEF RootIsKept
  <1>8. HandsAreEmpty'
    BY <1>1 DEF HandsAreEmpty, Calling, NoCall
  <1>9. TopIsHigh'
    BY <1>1, <1>3, TopStaysHigh
  <1>10. \A p, q \in Lost' : p = q
    BY <1>6
  <1> QED
    BY <1>3, <1>7, <1>8, <1>9, <1>10 DEF Account

-----------------------------------------------------------------------------
(* A call comes back *)

LEMMA SegmentReturnsKeepsAccount ==
    ASSUME SpacesInv, Account, SegmentReturns
    PROVE  Account'
  <1>1. /\ Walking /\ ~faulting /\ call.v = call.beyond /\ call' = NoCall
        /\ UNCHANGED <<tables, kernel_cr3, top_virtual_address, process_cr3, spaces>>
    BY DEF SegmentReturns, Walking
  <1>2. UNCHANGED <<phase, free_list_page_length, handed_out>>
    BY DEF SegmentReturns, FaultsIf
  <1>3. HandedOut' = HandedOut /\ Tops' = Tops
    BY <1>1, <1>2 DEF HandedOut, Tops, Roots
  <1>4. call.page = 0
    BY <1>1 DEF Account, HandsAreEmpty, Calling, Walking
  <1>5. HandsAreEmpty'
    BY <1>1 DEF HandsAreEmpty, Calling, NoCall
  <1>6. TopIsHigh'
    BY <1>1, <1>2, TopStaysHigh
  <1> QED
    BY <1>1, <1>2, <1>3, <1>4, <1>5, <1>6, QuietlyKeepsAccount

\* The new top-level table has entries only that no page is accounted by.
LEMMA CallReturnsKeepsAccount ==
    ASSUME SpacesInv, Fits, Account, CallReturns
    PROVE  Account'
  <1>1. /\ Walking /\ ~faulting /\ call.v = call.beyond /\ call' = NoCall /\ UNCHANGED vars
        /\ UNCHANGED <<kernel_cr3, top_virtual_address, process_cr3, spaces>>
    BY DEF CallReturns, Walking
  <1>2. UNCHANGED <<phase, free_list_page_length, handed_out>> /\ HandedOut' = HandedOut
    BY <1>1 DEF vars, HandedOut
  <1>3. call.page = 0
    BY <1>1 DEF Account, HandsAreEmpty, Calling, Walking
  <1>4. HandsAreEmpty'
    BY <1>1 DEF HandsAreEmpty, Calling, NoCall
  <1>5. TopIsHigh'
    BY <1>1, <1>2, TopStaysHigh
  <1>6. CASE call.kind # "pml4"
    <2>1. tables' = tables
      BY <1>6 DEF CallReturns
    <2>2. Tops' = Tops
      BY <1>1, <2>1 DEF Tops, Roots
    <2> QED
      BY <1>1, <1>2, <1>3, <1>4, <1>5, <2>1, <2>2, QuietlyKeepsAccount
  <1>7. CASE call.kind = "pml4"
    <2>1. Owners' = Owners /\ \A o \in Owners : PageOf(o)' = PageOf(o)
      BY <1>7, UserTableKeepsOwners
    <2>2. \A page : IsOwned(page) => IsOwned(page)'
      BY <2>1 DEF IsOwned
    <2>3. Lost' = {}
      <3>1. \A page : page = process_cr3 /\ page # 0 => process_cr3' = page
        BY <1>1
      <3>2. \A page : ~(Calling /\ page = call.page /\ page # 0)
        BY <1>3
      <3>3. \A page : ~(page \in HandedOut' /\ page \notin HandedOut)
        BY <1>2
      <3> QED
        BY <1>1, <2>2, <3>1, <3>2, <3>3, NothingIsLost
    <2>4. RootIsKept'
      <3>1. \A page : page = process_cr3 /\ page # 0 => IsOwned(page)
        BY <1>3 DEF Account, RootIsKept
      <3>2. PICK page : page = process_cr3
        OBVIOUS
      <3>3. process_cr3' = page
        BY <1>1, <3>2
      <3>4. page # 0 => IsOwned(page)'
        BY <2>2, <3>1, <3>2
      <3>5. IsOwned(process_cr3)' <=> IsOwned(page)'
        BY <3>3 DEF IsOwned
      <3> QED
        BY <3>3, <3>4, <3>5 DEF RootIsKept
    <2> QED
      BY <1>4, <1>5, <2>3, <2>4 DEF Account
  <1> QED
    BY <1>6, <1>7

-----------------------------------------------------------------------------
(* Every step *)

LEMMA UnchangedKeepsAccount ==
    ASSUME Account, UNCHANGED allVars
    PROVE  Account'
  <1>1. /\ UNCHANGED <<phase, free_list_page_length, handed_out, faulting>>
        /\ UNCHANGED <<tables, kernel_cr3, top_virtual_address, call, process_cr3, spaces>>
    BY DEF allVars, vars, pagingVars
  <1>2. Tops' = Tops /\ HandedOut' = HandedOut
    BY <1>1 DEF Tops, Roots, HandedOut
  <1>3. \A page : IsOwned(page)' <=> IsOwned(page)
    BY <1>1, <1>2, OwnedRemains
  <1>4. \A page : Accounted(page)' <=> Accounted(page)
    BY <1>1, <1>3 DEF Accounted, Calling
  <1>5. Lost' = Lost
    BY <1>2, <1>4 DEF Lost
  <1>6. RootIsKept'
    <2>1. PICK page : page = process_cr3
      OBVIOUS
    <2>2. IsOwned(process_cr3) <=> IsOwned(page)
      BY <2>1
    <2>3. IsOwned(process_cr3)' <=> IsOwned(page)'
      <3>1. process_cr3' = page
        BY <1>1, <2>1
      <3> QED
        BY <3>1 DEF IsOwned
    <2>4. IsOwned(page)' <=> IsOwned(page)
      BY <1>3
    <2> QED
      BY <1>1, <2>2, <2>3, <2>4 DEF Account, RootIsKept
  <1>7. HandsAreEmpty' /\ TopIsHigh'
    BY <1>1 DEF Account, HandsAreEmpty, Calling, TopIsHigh
  <1> QED
    BY <1>1, <1>5, <1>6, <1>7 DEF Account

LEMMA NextKeepsAccount ==
    ASSUME RegionsAreApart, StackIsApart, SpacesInv, Fits, ProcessInv, Account, [PagingNext]_allVars
    PROVE  Account'
  <1>1. CASE UNCHANGED allVars
    BY <1>1, UnchangedKeepsAccount
  <1>2. CASE faulting /\ PagingNext
    BY <1>2, FaultIsFinal, UnchangedKeepsAccount
  <1>3. CASE ~faulting /\ PagingNext
    <2>1. CASE BuildFreeList \/ create_kernel_pml4 \/ map_all_kernel_pages \/ map_video_memory
               \/ LoadKernelTables
      BY <1>3, <2>1, BuildFreeListKeepsAccount, CreateKernelTableKeepsAccount, BootKeepsAccount,
         VideoKeepsAccount, LoadKeepsAccount
    <2>2. CASE get_elf \/ kmalloc_user \/ create_new_user_pml4 \/ kmalloc_top_virtual_address_user
      BY <1>3, <2>2, GetElfKeepsAccount, KmallocUserKeepsAccount, CreateUserTableKeepsAccount,
         KmallocTopKeepsAccount
    <2>3. CASE TakePageToMap \/ page_walk_user_AddTable \/ page_walk_user_SetEntry
      BY <1>3, <2>3, TakePageKeepsAccount, AddTableKeepsAccount, SetEntryKeepsAccount
    <2>4. CASE page_walk_user_AlreadyMapped \/ SegmentReturns \/ CallReturns
      BY <2>4, AlreadyMappedKeepsAccount, SegmentReturnsKeepsAccount, CallReturnsKeepsAccount
    <2>5. CASE ProcessCreated \/ set_cr3 \/ exec_new_binary
      BY <1>3, <2>5, ProcessCreatedKeepsAccount, BetweenTasksKeepsAccount
    <2>6. ~PageFault
      BY <1>3 DEF PageFault, page_fault_handler
    <2> QED
      BY <1>3, <2>1, <2>2, <2>3, <2>4, <2>5, <2>6 DEF PagingNext
  <1> QED
    BY <1>1, <1>2, <1>3

LEMMA AccountImpliesNoLoss ==
    ASSUME SpacesInv, Account
    PROVE  OnlyARefusalLosesAPage
  <1>1. ASSUME NEW page \in LostPages PROVE page \in Lost
    <2>1. PICK i \in 1..Len(handed_out) : page = handed_out[i]
      BY DEF LostPages
    <2>2. page \in HandedOut
      BY <2>1 DEF HandedOut
    <2>3. ~IsOwned(page) /\ page \notin {kernel_cr3, process_cr3, call.page}
      BY DEF LostPages, IsOwned
    <2> QED
      BY <2>2, <2>3 DEF Lost, Accounted
  <1> QED
    BY <1>1 DEF Account, OnlyARefusalLosesAPage

(***************************************************************************)
(* Where each page is that the allocator has returned, in every state of   *)
(* every machine.                                                          *)
(***************************************************************************)
THEOREM AccountInvariant ==
    ASSUME RegionsAreApart, StackIsApart PROVE PagingSpec /\ []Fits => []Account
  <1>1. PagingInit => Account
    BY InitHasAccount
  <1>2. SpacesInv /\ Fits /\ ProcessInv /\ Account /\ [PagingNext]_allVars => Account'
    BY NextKeepsAccount
  <1> QED
    BY <1>1, <1>2, SpacesInvariant, ProcessesInvariant, PTL DEF PagingSpec

(***************************************************************************)
(* OnlyARefusalLosesAPage: every page the allocator has returned is        *)
(* entered somewhere, is a top-level table or is in the hands of the call  *)
(* in progress; only a segment that is refused loses one, and then the     *)
(* kernel stops.                                                           *)
(***************************************************************************)
THEOREM NoPageIsLost ==
    ASSUME RegionsAreApart, StackIsApart
    PROVE  PagingSpec /\ []Fits => []OnlyARefusalLosesAPage
  BY AccountInvariant, AccountImpliesNoLoss, SpacesInvariant, PTL
=============================================================================
