--------------------------- MODULE FreeListProofs ---------------------------
(***************************************************************************)
(* The types of the allocator and HandedOutPagesTouchMemory, for every     *)
(* page and descriptor size, every physfree and every set of memory maps;  *)
(* NoPageHandedOutTwice and KernelAndListAreNeverHandedOut for maps whose  *)
(* regions lie apart, without which they do not hold.                      *)
(***************************************************************************)
EXTENDS FreeList, TLAPS

\* The list ascends, from the first page after the kernel, at least one page a
\* descriptor: so descriptor k's page is beyond k - 1 pages.
ListAscends ==
    /\ \A i, j \in 1..Len(free_list) : i < j => free_list[i] < free_list[j]
    /\ \A i \in 1..Len(free_list) : round_up(Physfree) + i - 1 <= free_list[i]

\* What is in the list lies below every region still to be read.
ListIsBelowTheRest ==
    \A i \in 1..Len(free_list), j \in entry..Len(smap) :
        Counts(smap[j]) => free_list[i] < round_up(smap[j].base)

\* The pages handed out are those of consecutive descriptors, the first one
\* after the table, the last one before the head in use.
HeadFollowsTheHandedOut ==
    /\ phase = "smap" => handed_out = << >> /\ free_list_total_pages = Len(free_list)
    /\ phase # "smap" =>
          /\ free_list_page_length = TablePages(Len(free_list))
          /\ Len(handed_out) + free_list_page_length <= Len(free_list)
          /\ \A i \in 1..Len(handed_out) :
                handed_out[i] = free_list[free_list_page_length + i]
    /\ phase = "early" => free_list_head = free_list_page_length + Len(handed_out) + 1
    /\ phase = "late" => free_list_head_kmalloc = free_list_page_length + Len(handed_out) + 1

\* What holds for any map.
Counted == TypeOK /\ HeadFollowsTheHandedOut

\* What holds for maps whose regions lie apart.
IInv ==
    /\ Counted
    /\ ListAscends
    /\ ListIsBelowTheRest

\* Every page listed touches a region read before, one above the kernel, and lies
\* within it if it is the only one and aligned.
Touches(page, r) == Counts(r) /\ r.base <= page * PAGESIZE /\ page <= round_up(End(r))
Within(page, r) == Counts(r) /\ r.base <= page * PAGESIZE /\ (page + 1) * PAGESIZE <= End(r)
Listed(page) ==
    /\ round_up(Physfree) <= page
    /\ \E r \in 1..(entry - 1) : Touches(page, smap[r])
    /\ OneAlignedRegion => \E r \in 1..(entry - 1) : Within(page, smap[r])
MemoryInv == Counted /\ \A i \in 1..Len(free_list) : Listed(free_list[i])

-----------------------------------------------------------------------------
\* round_up yields a page number.
LEMMA RoundUpIsAPage == \A a \in Nat : round_up(a) \in Nat
  BY SizesAssumption DEF round_up

\* The descriptors of n pages take at most n pages, and their last byte is in
\* the last of them.
LEMMA TablePagesBounds ==
    ASSUME NEW n \in Nat
    PROVE  /\ TablePages(n) \in 0..n
           /\ (n * DescSize - 1) \div PAGESIZE < TablePages(n) \/ n = 0
  <1> DEFINE size == n * DescSize
             q == size \div PAGESIZE
             r == size % PAGESIZE
  <1>1. size \in Nat /\ size <= n * PAGESIZE
    BY SizesAssumption
  <1>2. q \in Int /\ r \in 0..(PAGESIZE - 1) /\ size = PAGESIZE * q + r
    BY <1>1, SizesAssumption
  <1>3. TablePages(n) = IF r # 0 THEN q + 1 ELSE q
    BY DEF TablePages
  <1>4. q >= 0 /\ q <= n
    BY <1>1, <1>2, SizesAssumption
  <1>5. r # 0 => q < n
    BY <1>1, <1>2, <1>4, SizesAssumption
  <1>6. r # 0 => (size - 1) \div PAGESIZE = q
    BY <1>1, <1>2, SizesAssumption
  <1>7. r = 0 => (size - 1) \div PAGESIZE < q
    BY <1>1, <1>2, SizesAssumption
  <1> QED
    BY <1>1, <1>2, <1>3, <1>4, <1>5, <1>6, <1>7

\* Facts about integers, apart from the lists they are used on.
LEMMA PlusOneBetween ==
    \A a, b, c, n \in Int : a + n - 1 <= b /\ b < c => a + n <= c
  OBVIOUS

LEMMA BelowTheNext == \A a, b, c \in Int : a < b + 1 /\ b < c => a < c
  OBVIOUS

LEMMA LessThanTransitive == \A a, b, c \in Int : a < b /\ b <= c => a < c
  OBVIOUS

\* PagesFrom lists consecutive pages.
LEMMA PagesFromProperties ==
    ASSUME NEW first \in Nat, NEW beyond \in Nat
    PROVE  /\ PagesFrom(first, beyond) \in Seq(Nat)
           /\ \A k \in 1..Len(PagesFrom(first, beyond)) :
                 /\ PagesFrom(first, beyond)[k] = first + k - 1
                 /\ PagesFrom(first, beyond)[k] < beyond
  BY DEF PagesFrom

\* The integers behind the type invariant.
LEMMA TypeFacts ==
    ASSUME TypeOK
    PROVE  /\ free_list \in Seq(Nat) /\ Len(free_list) \in Nat
           /\ \A i \in 1..Len(free_list) : free_list[i] \in Nat
           /\ handed_out \in Seq(Nat) /\ Len(handed_out) \in Nat
           /\ free_list_page_length \in Nat
           /\ free_list_head \in 1..(Len(free_list) + 1)
           /\ free_list_head_kmalloc \in 1..(Len(free_list) + 1)
  <1>1. free_list \in Seq(Nat) /\ handed_out \in Seq(Nat)
    BY DEF TypeOK
  <1>2. Len(free_list) \in Nat /\ Len(handed_out) \in Nat
    BY <1>1
  <1>3. \A i \in 1..Len(free_list) : free_list[i] \in Nat
    BY <1>1
  <1>4. free_list_page_length \in Nat
    BY <1>2 DEF TypeOK
  <1>5. /\ free_list_head \in 1..(Len(free_list) + 1)
        /\ free_list_head_kmalloc \in 1..(Len(free_list) + 1)
    BY DEF TypeOK, Null
  <1> QED
    BY <1>1, <1>2, <1>3, <1>4, <1>5

-----------------------------------------------------------------------------
\* Init establishes the invariant: nothing is listed, nothing handed out.
LEMMA InitEstablishesIInv == Init => IInv
  <1> SUFFICES ASSUME Init PROVE IInv
    OBVIOUS
  <1>1. Len(smap) \in Nat
    BY SmapsAssumption DEF Init
  <1>2. free_list = << >> /\ Len(free_list) = 0
    BY DEF Init
  <1>3. /\ 1 \in 1..(Len(smap) + 1)
        /\ << >> \in Seq(Nat)
        /\ 1 \in 1..Null
    BY <1>1, <1>2 DEF Null
  <1>4. TypeOK
    <2>1. faulting \in BOOLEAN /\ phase \in {"smap", "early", "late"}
      BY DEF Init
    <2>2. smap \in Smaps /\ entry \in 1..(Len(smap) + 1)
      BY <1>3 DEF Init
    <2>3. /\ free_list_total_pages \in 0..Len(free_list)
          /\ free_list_page_length \in 0..Len(free_list)
      BY <1>2 DEF Init
    <2>4. /\ free_list_head \in 1..Null
          /\ free_list_head_kmalloc \in 1..Null
      BY <1>3 DEF Init
    <2>5. free_list \in Seq(Nat) /\ handed_out \in Seq(Nat)
      BY <1>3 DEF Init
    <2>6. allocated \subseteq 1..Len(free_list)
      BY DEF Init
    <2> QED
      BY <2>1, <2>2, <2>3, <2>4, <2>5, <2>6 DEF TypeOK
  <1> QED
    BY <1>1, <1>2, <1>4 DEF Init, IInv, Counted, ListAscends, ListIsBelowTheRest, HeadFollowsTheHandedOut

\* What a region of a map looks like, in pages.
LEMMA RegionPages ==
    ASSUME NEW m \in Smaps, NEW e \in 1..Len(m)
    PROVE  /\ Len(m) \in Nat
           /\ m[e] \in Region
           /\ round_up(m[e].base) \in Nat
           /\ round_up(End(m[e])) \in Nat
           /\ m[e].usable => round_up(End(m[e])) # round_up(Physfree)
  <1>1. m \in Seq(Region)
    BY SmapsAssumption
  <1>2. m[e] \in Region /\ Len(m) \in Nat
    BY <1>1
  <1>3. m[e].base \in Nat /\ End(m[e]) \in Nat
    BY <1>2 DEF Region, End
  <1> QED
    BY <1>2, <1>3, RoundUpIsAPage, SmapsAssumption

\* Appending one region keeps the list ascending, and below the regions that
\* follow: the first loop stops short of its region's end, the second lists the
\* end page too, which the gap between regions makes harmless.
LEMMA AppendedAscends ==
    ASSUME RegionsAreApart,
           NEW m \in Smaps, NEW e \in 1..Len(m), Counts(m[e]),
           NEW list \in Seq(Nat),
           \A i, j \in 1..Len(list) : i < j => list[i] < list[j],
           \A i \in 1..Len(list) : round_up(Physfree) + i - 1 <= list[i],
           \A i \in 1..Len(list), j \in e..Len(m) :
               Counts(m[j]) => list[i] < round_up(m[j].base)
    PROVE  LET new == appended(list, m[e])
           IN  /\ new \in Seq(Nat)
               /\ Len(list) <= Len(new)
               /\ \A i, j \in 1..Len(new) : i < j => new[i] < new[j]
               /\ \A i \in 1..Len(new) : round_up(Physfree) + i - 1 <= new[i]
               /\ \A i \in 1..Len(new), j \in (e + 1)..Len(m) :
                     Counts(m[j]) => new[i] < round_up(m[j].base)
  <1> DEFINE new      == appended(list, m[e])
             start    == round_up(m[e].base)
             end      == round_up(End(m[e]))
             physfree == round_up(Physfree)
  <1>1. start \in Nat /\ end \in Nat /\ physfree \in Nat /\ Len(m) \in Nat
    BY RegionPages, RoundUpIsAPage, SizesAssumption
  <1>2. \A j \in (e + 1)..Len(m) :
            Counts(m[j]) => round_up(m[j].base) \in Nat /\ end < round_up(m[j].base)
    BY <1>1, RegionPages DEF RegionsAreApart
  <1> HIDE DEF new, start, end, physfree
  <1>3. CASE list = << >> /\ start <= physfree /\ end >= physfree
    <2>1. new = PagesFrom(physfree, end)
      BY <1>3 DEF appended, new, start, end, physfree
    <2>2. /\ new \in Seq(Nat)
          /\ \A k \in 1..Len(new) : new[k] = physfree + k - 1 /\ new[k] < end
      BY <2>1, <1>1, PagesFromProperties
    <2>3. Len(list) = 0 /\ Len(new) \in Nat
      BY <1>3, <2>2
    <2>4. \A i, j \in 1..Len(new) : i < j => new[i] < new[j]
      BY <2>2, <2>3, <1>1
    <2>5. \A i \in 1..Len(new) : physfree + i - 1 <= new[i]
      BY <2>2, <2>3, <1>1
    <2>6. \A i \in 1..Len(new), j \in (e + 1)..Len(m) :
              Counts(m[j]) => new[i] < round_up(m[j].base)
      <3> SUFFICES ASSUME NEW i \in 1..Len(new), NEW j \in (e + 1)..Len(m), Counts(m[j])
                   PROVE  new[i] < round_up(m[j].base)
        OBVIOUS
      <3>1. new[i] < end /\ new[i] \in Int
        BY <2>2, <1>1, <2>3
      <3>2. round_up(m[j].base) \in Nat /\ end < round_up(m[j].base)
        BY <1>2
      <3> QED
        BY <3>1, <3>2, <1>1
    <2>7. Len(list) <= Len(new)
      BY <2>3
    <2> QED
      BY <2>2, <2>4, <2>5, <2>6, <2>7 DEF new, physfree
  <1>4. CASE list # << >> /\ start >= physfree
    <2> DEFINE added == PagesFrom(start, end + 1)
    <2>1. new = list \o added
      BY <1>4 DEF appended, new, start, end, physfree
    <2>2. /\ added \in Seq(Nat)
          /\ \A k \in 1..Len(added) : added[k] = start + k - 1 /\ added[k] < end + 1
      <3>1. end + 1 \in Nat
        BY <1>1
      <3> QED
        BY <3>1, <1>1, PagesFromProperties
    <2>3. \A i \in 1..Len(list) : list[i] < start
      BY <1>1 DEF start
    <2> HIDE DEF added
    <2>4. /\ new \in Seq(Nat)
          /\ Len(new) = Len(list) + Len(added)
          /\ \A k \in 1..Len(new) :
                new[k] = IF k <= Len(list) THEN list[k] ELSE added[k - Len(list)]
      BY <2>1, <2>2
    <2>5. Len(list) \in Nat \ {0} /\ Len(added) \in Nat
      BY <1>4, <2>2
    <2>b. \A i \in 1..Len(new) : i <= Len(list) =>
              i \in 1..Len(list) /\ new[i] = list[i] /\ list[i] \in Nat
      <3> SUFFICES ASSUME NEW i \in 1..Len(new), i <= Len(list)
                   PROVE  i \in 1..Len(list) /\ new[i] = list[i] /\ list[i] \in Nat
        OBVIOUS
      <3>1. i \in 1..Len(list)
        BY <2>4, <2>5
      <3>2. new[i] = list[i]
        BY <2>4
      <3> QED
        BY <3>1, <3>2
    <2>a. \A i \in 1..Len(new) : i > Len(list) =>
              /\ i - Len(list) \in 1..Len(added)
              /\ new[i] = start + (i - Len(list)) - 1
              /\ new[i] < end + 1
      <3> SUFFICES ASSUME NEW i \in 1..Len(new), i > Len(list)
                   PROVE  /\ i - Len(list) \in 1..Len(added)
                          /\ new[i] = start + (i - Len(list)) - 1
                          /\ new[i] < end + 1
        OBVIOUS
      <3>1. i - Len(list) \in 1..Len(added)
        BY <2>4, <2>5
      <3>2. new[i] = added[i - Len(list)]
        BY <2>4, <2>5
      <3> QED
        BY <3>1, <3>2, <2>2
    <2>6. physfree + Len(list) <= start
      <3>1. physfree + Len(list) - 1 <= list[Len(list)]
        BY <2>5 DEF physfree
      <3>2. Len(list) \in 1..Len(list)
        BY <2>5
      <3>3. list[Len(list)] < start /\ list[Len(list)] \in Nat
        BY <3>2, <2>3
      <3> QED
        BY <3>1, <3>3, <2>5, <1>1, PlusOneBetween
    <2>7. \A i, j \in 1..Len(new) : i < j => new[i] < new[j]
      <3> SUFFICES ASSUME NEW i \in 1..Len(new), NEW j \in 1..Len(new), i < j
                   PROVE  new[i] < new[j]
        OBVIOUS
      <3>1. CASE j <= Len(list)
        <4>1. i <= Len(list)
          BY <3>1, <2>5
        <4> QED
          BY <3>1, <4>1, <2>b
      <3>2. CASE i <= Len(list) /\ j > Len(list)
        <4>1. new[i] < start /\ new[i] \in Nat
          BY <3>2, <2>3, <2>b
        <4>2. start <= new[j] /\ new[j] \in Int
          <5>1. /\ j - Len(list) \in 1..Len(added)
                /\ new[j] = start + (j - Len(list)) - 1
            BY <3>2, <2>a
          <5>2. j - Len(list) \in Nat /\ j - Len(list) >= 1
            BY <5>1, <2>5
          <5> QED
            BY <5>1, <5>2, <1>1
        <4> QED
          BY <4>1, <4>2, <1>1, LessThanTransitive
      <3>3. CASE i > Len(list)
        <4>1. j > Len(list)
          BY <3>3, <2>5
        <4>2. /\ new[i] = start + (i - Len(list)) - 1
              /\ new[j] = start + (j - Len(list)) - 1
          BY <3>3, <4>1, <2>a
        <4> QED
          BY <4>2, <2>5, <1>1
      <3> QED
        BY <3>1, <3>2, <3>3, <2>5
    <2>8. \A i \in 1..Len(new) : physfree + i - 1 <= new[i]
      <3> SUFFICES ASSUME NEW i \in 1..Len(new) PROVE physfree + i - 1 <= new[i]
        OBVIOUS
      <3>1. CASE i <= Len(list)
        BY <3>1, <2>b DEF physfree
      <3>2. CASE i > Len(list)
        BY <3>2, <2>a, <2>5, <2>6, <1>1
      <3> QED
        BY <3>1, <3>2, <2>5
    <2>9. \A i \in 1..Len(new), j \in (e + 1)..Len(m) :
              Counts(m[j]) => new[i] < round_up(m[j].base)
      <3> SUFFICES ASSUME NEW i \in 1..Len(new), NEW j \in (e + 1)..Len(m), Counts(m[j])
                   PROVE  new[i] < round_up(m[j].base)
        OBVIOUS
      <3>1. CASE i <= Len(list)
        <4>1. i \in 1..Len(list) /\ new[i] = list[i]
          BY <3>1, <2>b
        <4>2. j \in e..Len(m)
          BY <1>1
        <4> QED
          BY <4>1, <4>2
      <3>2. CASE i > Len(list)
        <4>1. new[i] < end + 1 /\ new[i] \in Nat
          <5>1. new[i] < end + 1
            BY <3>2, <2>a
          <5>2. new[i] \in Nat
            BY <2>4
          <5> QED
            BY <5>1, <5>2
        <4>2. round_up(m[j].base) \in Nat /\ end < round_up(m[j].base)
          BY <1>2
        <4>3. end \in Nat
          BY <1>1
        <4> HIDE DEF round_up
        <4> QED
          BY <4>1, <4>2, <4>3, BelowTheNext
      <3> QED
        BY <3>1, <3>2, <2>5
    <2> QED
      BY <2>4, <2>5, <2>7, <2>8, <2>9 DEF new, physfree
  <1>5. CASE \/ list = << >> /\ ~(start <= physfree /\ end >= physfree)
             \/ list # << >> /\ ~(start >= physfree)
    <2>1. new = list
      BY <1>5 DEF appended, new, start, end, physfree
    <2> QED
      BY <2>1, <1>1 DEF new, physfree
  <1> QED
    BY <1>3, <1>4, <1>5

-----------------------------------------------------------------------------
\* Appending a region leaves what is listed where it is.
LEMMA AppendedExtends ==
    ASSUME NEW m \in Smaps, NEW e \in 1..Len(m), NEW list \in Seq(Nat)
    PROVE  LET new == appended(list, m[e])
           IN  /\ new \in Seq(Nat)
               /\ Len(list) <= Len(new)
  <1> DEFINE new == appended(list, m[e])
             start == round_up(m[e].base)
             end == round_up(End(m[e]))
             physfree == round_up(Physfree)
  <1>1. start \in Nat /\ end \in Nat /\ physfree \in Nat
    BY RegionPages, RoundUpIsAPage, SizesAssumption
  <1>2. new = list \/ (list = << >> /\ new = PagesFrom(physfree, end))
        \/ new = list \o PagesFrom(start, end + 1)
    BY DEF appended
  <1> HIDE DEF new, start, end, physfree
  <1>3. PagesFrom(physfree, end) \in Seq(Nat) /\ PagesFrom(start, end + 1) \in Seq(Nat)
    <2>1. end + 1 \in Nat
      BY <1>1
    <2> QED
      BY <1>1, <2>1, PagesFromProperties
  <1>4. new \in Seq(Nat) /\ Len(list) <= Len(new)
    <2>1. \A s \in Seq(Nat) : list \o s \in Seq(Nat) /\ Len(list) <= Len(list \o s)
      OBVIOUS
    <2>2. \A s \in Seq(Nat) : list = << >> => Len(list) <= Len(s)
      OBVIOUS
    <2>3. Len(list) <= Len(list)
      OBVIOUS
    <2> QED
      BY <1>2, <1>3, <2>1, <2>2, <2>3
  <1> QED
    BY <1>4 DEF new

\* One map entry is read.
LEMMA ReadsOneEntry ==
    ASSUME Counted, append_free_list
    PROVE  /\ smap \in Smaps /\ smap' = smap /\ phase = "smap" /\ phase' = "smap"
           /\ entry \in 1..Len(smap) /\ entry' = entry + 1 /\ Len(smap) \in Nat
           /\ free_list' = IF Counts(smap[entry]) THEN appended(free_list, smap[entry]) ELSE free_list
           /\ free_list \in Seq(Nat) /\ free_list' \in Seq(Nat)
           /\ Len(free_list) <= Len(free_list')
  <1>1. smap \in Smaps /\ free_list \in Seq(Nat)
    BY DEF Counted, TypeOK
  <1>2. Len(smap) \in Nat
    BY <1>1, SmapsAssumption
  <1>3. /\ entry \in 1..Len(smap)
        /\ smap' = smap /\ phase = "smap" /\ phase' = "smap" /\ entry' = entry + 1
        /\ free_list' = IF Counts(smap[entry]) THEN appended(free_list, smap[entry]) ELSE free_list
    BY <1>1, <1>2 DEF append_free_list, Counted, TypeOK
  <1>4. free_list' \in Seq(Nat) /\ Len(free_list) <= Len(free_list')
    <2>1. CASE Counts(smap[entry])
      BY <1>1, <1>3, <2>1, AppendedExtends
    <2>2. CASE ~Counts(smap[entry])
      BY <1>1, <1>3, <2>2
    <2> QED
      BY <2>1, <2>2
  <1> QED
    BY <1>1, <1>2, <1>3, <1>4

\* The counts and heads stay within a list that only grows.
LEMMA AppendKeepsCounted ==
    ASSUME Counted, append_free_list
    PROVE  Counted'
  <1>1. /\ smap' \in Smaps /\ phase' = "smap"
        /\ entry' \in 1..(Len(smap') + 1)
        /\ free_list' \in Seq(Nat)
        /\ Len(free_list) <= Len(free_list')
        /\ Len(free_list) \in Nat /\ Len(free_list') \in Nat
    BY ReadsOneEntry
  <1>2. /\ handed_out' = << >>
        /\ free_list_total_pages' = Len(free_list')
    BY ReadsOneEntry DEF append_free_list, Counted, HeadFollowsTheHandedOut
  <1>3. TypeOK'
    <2>1. /\ free_list_page_length' \in 0..Len(free_list')
          /\ free_list_head' \in 1..(Len(free_list') + 1)
          /\ free_list_head_kmalloc' \in 1..(Len(free_list') + 1)
          /\ free_list_total_pages' \in 0..Len(free_list')
      <3>1. /\ free_list_page_length' = free_list_page_length
            /\ free_list_head' = free_list_head
            /\ free_list_head_kmalloc' = free_list_head_kmalloc
        BY DEF append_free_list
      <3>2. /\ free_list_page_length \in 0..Len(free_list)
            /\ free_list_head \in 1..(Len(free_list) + 1)
            /\ free_list_head_kmalloc \in 1..(Len(free_list) + 1)
        BY DEF Counted, TypeOK, Null
      <3> QED
        BY <3>1, <3>2, <1>1, <1>2
    <2>2. allocated' \subseteq 1..Len(free_list')
      <3>1. allocated' \subseteq 1..Len(free_list)
        BY DEF append_free_list, Counted, TypeOK
      <3> QED
        BY <3>1, <1>1
    <2>3. faulting' \in BOOLEAN /\ handed_out' \in Seq(Nat)
      BY DEF append_free_list, Counted, TypeOK
    <2> QED
      BY <1>1, <2>1, <2>2, <2>3 DEF TypeOK, Null
  <1>4. HeadFollowsTheHandedOut'
    BY <1>1, <1>2 DEF HeadFollowsTheHandedOut
  <1> QED
    BY <1>3, <1>4 DEF Counted

\* Reading an entry keeps the list ascending, and below what is still to be read.
LEMMA AppendKeepsOrder ==
    ASSUME RegionsAreApart, IInv, append_free_list
    PROVE  ListAscends' /\ ListIsBelowTheRest'
  <1> DEFINE r == smap[entry]
  <1>1. /\ smap \in Smaps /\ smap' = smap /\ entry \in 1..Len(smap) /\ entry' = entry + 1
        /\ Len(smap) \in Nat /\ free_list \in Seq(Nat)
        /\ free_list' = IF Counts(r) THEN appended(free_list, r) ELSE free_list
    BY ReadsOneEntry DEF IInv
  <1>2. /\ \A i, j \in 1..Len(free_list') : i < j => free_list'[i] < free_list'[j]
        /\ \A i \in 1..Len(free_list') : round_up(Physfree) + i - 1 <= free_list'[i]
        /\ \A i \in 1..Len(free_list'), j \in (entry + 1)..Len(smap) :
              Counts(smap[j]) => free_list'[i] < round_up(smap[j].base)
    <2>1. /\ \A i, j \in 1..Len(free_list) : i < j => free_list[i] < free_list[j]
          /\ \A i \in 1..Len(free_list) : round_up(Physfree) + i - 1 <= free_list[i]
          /\ \A i \in 1..Len(free_list), j \in entry..Len(smap) :
                Counts(smap[j]) => free_list[i] < round_up(smap[j].base)
      BY DEF IInv, ListAscends, ListIsBelowTheRest
    <2>2. CASE Counts(r)
      <3>1. free_list' = appended(free_list, r)
        BY <2>2, <1>1
      <3> QED
        BY <3>1, <2>1, <2>2, <1>1, AppendedAscends
    <2>3. CASE ~Counts(r)
      BY <2>1, <2>3, <1>1
    <2> QED
      BY <2>2, <2>3
  <1>3. ListAscends'
    BY <1>2 DEF ListAscends
  <1>4. ListIsBelowTheRest'
    BY <1>1, <1>2 DEF ListIsBelowTheRest
  <1> QED
    BY <1>3, <1>4

\* After the map is read the list no longer changes, nor do the facts about it.
LEMMA ListFactsAreStable ==
    ASSUME UNCHANGED <<free_list, entry, smap>>
    PROVE  /\ ListAscends /\ ListIsBelowTheRest => ListAscends' /\ ListIsBelowTheRest'
           /\ \A i \in 1..Len(free_list) : Listed(free_list[i]) => Listed(free_list[i])'
  BY DEF ListAscends, ListIsBelowTheRest, Listed, OneAlignedRegion

\* Skipping the table's pages sets the head just after them.
LEMMA SetHeadKeepsCounted ==
    ASSUME Counted, set_free_list_head
    PROVE  Counted'
  <1> DEFINE n == Len(free_list)
  <1>1. n \in Nat /\ free_list' = free_list
    BY DEF Counted, TypeOK, set_free_list_head
  <1>2. TablePages(n) \in 0..n
    BY <1>1, TablePagesBounds
  <1>3. /\ free_list_total_pages = n /\ handed_out = << >> /\ handed_out' = << >>
        /\ phase' = "early"
    BY DEF Counted, HeadFollowsTheHandedOut, set_free_list_head
  <1>4. /\ free_list_head' = TablePages(n) + 1
        /\ free_list_page_length' = TablePages(n)
        /\ free_list_total_pages' = n - TablePages(n)
    BY <1>3 DEF set_free_list_head
  <1>5. /\ free_list_head' \in 1..(n + 1)
        /\ free_list_page_length' \in 0..n
        /\ free_list_total_pages' \in 0..n
    BY <1>1, <1>2, <1>4
  <1>6. TypeOK'
    BY <1>1, <1>3, <1>5 DEF Counted, TypeOK, Null, set_free_list_head
  <1>8. HeadFollowsTheHandedOut'
    BY <1>1, <1>2, <1>3, <1>4 DEF HeadFollowsTheHandedOut
  <1> QED
    BY <1>6, <1>8 DEF Counted

\* Taking the page at the head, in either phase, keeps the pages handed out the
\* consecutive ones after the table.
LEMMA HandingOut ==
    ASSUME TypeOK, NEW head \in 1..Len(free_list),
           head = free_list_page_length + Len(handed_out) + 1,
           \A i \in 1..Len(handed_out) : handed_out[i] = free_list[free_list_page_length + i],
           handed_out' = Append(handed_out, free_list[head])
    PROVE  /\ handed_out' \in Seq(Nat)
           /\ Len(handed_out') = Len(handed_out) + 1
           /\ Len(handed_out') + free_list_page_length <= Len(free_list)
           /\ \A i \in 1..Len(handed_out') :
                 handed_out'[i] = free_list[free_list_page_length + i]
  <1>1. /\ handed_out \in Seq(Nat) /\ Len(handed_out) \in Nat /\ Len(free_list) \in Nat
        /\ free_list[head] \in Nat /\ free_list_page_length \in Nat
    BY TypeFacts
  <1>2. /\ handed_out' \in Seq(Nat)
        /\ Len(handed_out') = Len(handed_out) + 1
        /\ \A i \in 1..Len(handed_out') : handed_out'[i] = IF i = Len(handed_out) + 1 THEN free_list[head] ELSE handed_out[i]
    BY <1>1
  <1>3. ASSUME NEW i \in 1..Len(handed_out') PROVE handed_out'[i] = free_list[free_list_page_length + i]
    <2>1. CASE i = Len(handed_out) + 1
      <3>1. free_list_page_length + i = head
        BY <2>1, <1>1
      <3> QED
        BY <2>1, <3>1, <1>2
    <2>2. CASE i # Len(handed_out) + 1
      <3>1. i \in 1..Len(handed_out)
        BY <2>2, <1>1, <1>2
      <3> QED
        BY <3>1, <2>2, <1>2
    <2> QED
      BY <2>1, <2>2
  <1> QED
    BY <1>1, <1>2, <1>3

\* get_next_free_page keeps the invariant.
LEMMA EarlyKeepsCounted ==
    ASSUME Counted, get_next_free_page
    PROVE  Counted'
  <1>1. /\ free_list \in Seq(Nat) /\ handed_out \in Seq(Nat)
        /\ free_list_page_length \in Nat /\ Len(free_list) \in Nat
        /\ free_list_head = free_list_page_length + Len(handed_out) + 1
        /\ free_list_head \in 1..Len(free_list)
        /\ \A i \in 1..Len(handed_out) : handed_out[i] = free_list[free_list_page_length + i]
        /\ free_list_page_length = TablePages(Len(free_list))
        /\ phase = "early" /\ phase' = "early"
    <2>1. phase = "early" /\ phase' = "early" /\ free_list_head # Len(free_list) + 1
      BY DEF get_next_free_page, Null
    <2>2. /\ free_list_head = free_list_page_length + Len(handed_out) + 1
          /\ \A i \in 1..Len(handed_out) : handed_out[i] = free_list[free_list_page_length + i]
          /\ free_list_page_length = TablePages(Len(free_list))
      BY <2>1 DEF Counted, HeadFollowsTheHandedOut
    <2>3. TypeOK
      BY DEF Counted
    <2>4. free_list_head \in 1..Len(free_list)
      BY <2>1, <2>3, TypeFacts
    <2> QED
      BY <2>1, <2>2, <2>3, <2>4, TypeFacts
  <1>2. /\ handed_out' \in Seq(Nat)
        /\ Len(handed_out') = Len(handed_out) + 1
        /\ Len(handed_out') + free_list_page_length <= Len(free_list)
        /\ \A i \in 1..Len(handed_out') : handed_out'[i] = free_list[free_list_page_length + i]
    <2>1. handed_out' = Append(handed_out, free_list[free_list_head])
      BY DEF get_next_free_page
    <2> QED
      BY <1>1, <2>1, HandingOut DEF Counted
  <1>3. free_list_head' = free_list_head + 1 /\ free_list' = free_list
    BY DEF get_next_free_page
  <1>4. free_list_head' \in 1..(Len(free_list) + 1)
    <2>1. free_list_head \in 1..Len(free_list) /\ Len(free_list) \in Nat
      BY <1>1
    <2> QED
      BY <2>1, <1>3
  <1>5. TypeOK'
    BY <1>1, <1>2, <1>3, <1>4 DEF Counted, TypeOK, Null, get_next_free_page
  <1>7. HeadFollowsTheHandedOut'
    <2>1. free_list_page_length' = free_list_page_length
      BY DEF get_next_free_page
    <2>2. free_list_head' = free_list_page_length' + Len(handed_out') + 1
      BY <1>1, <1>2, <1>3, <2>1
    <2> QED
      BY <1>1, <1>2, <1>3, <2>1, <2>2 DEF HeadFollowsTheHandedOut
  <1> QED
    BY <1>5, <1>7 DEF Counted

\* The late allocator starts where the early one stopped.
LEMMA SetNewHeadKeepsCounted ==
    ASSUME Counted, set_new_free_list_head
    PROVE  Counted'
  <1>1. TypeOK'
    BY DEF Counted, TypeOK, Null, set_new_free_list_head
  <1>3. HeadFollowsTheHandedOut'
    BY DEF Counted, HeadFollowsTheHandedOut, set_new_free_list_head
  <1> QED
    BY <1>1, <1>3 DEF Counted

\* get_next_free_page_kmalloc keeps the invariant, the call that faults too.
LEMMA LateKeepsCounted ==
    ASSUME Counted, get_next_free_page_kmalloc
    PROVE  Counted'
  <1>1. /\ free_list \in Seq(Nat) /\ handed_out \in Seq(Nat)
        /\ free_list_page_length \in Nat /\ Len(free_list) \in Nat
        /\ free_list_head_kmalloc = free_list_page_length + Len(handed_out) + 1
        /\ free_list_head_kmalloc \in 1..(Len(free_list) + 1)
        /\ \A i \in 1..Len(handed_out) : handed_out[i] = free_list[free_list_page_length + i]
        /\ free_list_page_length = TablePages(Len(free_list))
        /\ phase = "late" /\ phase' = "late" /\ free_list' = free_list
        /\ free_list_page_length' = free_list_page_length
    BY DEF Counted, TypeOK, HeadFollowsTheHandedOut, get_next_free_page_kmalloc, Null
  <1>3. CASE TakePage
    <2>0. free_list_head_kmalloc # Len(free_list) + 1
      BY <1>3 DEF TakePage, Null
    <2>1. free_list_head_kmalloc \in 1..Len(free_list)
      BY <1>1, <2>0
    <2>2. /\ handed_out' \in Seq(Nat)
          /\ Len(handed_out') = Len(handed_out) + 1
          /\ Len(handed_out') + free_list_page_length <= Len(free_list)
          /\ \A i \in 1..Len(handed_out') :
                handed_out'[i] = free_list[free_list_page_length + i]
      <3>1. handed_out' = Append(handed_out, free_list[free_list_head_kmalloc])
        BY <1>3 DEF TakePage
      <3> QED
        BY <1>1, <2>1, <3>1, HandingOut DEF Counted
    <2>3. free_list_head_kmalloc' = free_list_head_kmalloc + 1
      BY <1>3 DEF TakePage
    <2>4. free_list_head_kmalloc' \in 1..(Len(free_list) + 1)
      BY <1>1, <2>1, <2>3
    <2>5. TypeOK'
      BY <1>1, <1>3, <2>1, <2>2, <2>4
         DEF Counted, TypeOK, Null, get_next_free_page_kmalloc, TakePage
    <2>6. HeadFollowsTheHandedOut'
      BY <1>1, <2>2, <2>3 DEF HeadFollowsTheHandedOut
    <2> QED
      BY <2>5, <2>6 DEF Counted
  <1>4. CASE Fault
    <2>1. TypeOK'
      BY <1>4 DEF Counted, TypeOK, Null, get_next_free_page_kmalloc, Fault
    <2>2. HeadFollowsTheHandedOut'
      BY <1>1, <1>4 DEF Counted, HeadFollowsTheHandedOut, Fault
    <2> QED
      BY <2>1, <2>2 DEF Counted
  <1> QED
    BY <1>3, <1>4 DEF get_next_free_page_kmalloc

\* Every step but append_free_list leaves the list as it is.
LEMMA OnlyAppendChangesTheList ==
    ASSUME [Next]_vars, ~append_free_list
    PROVE  UNCHANGED <<free_list, entry, smap>>
  BY DEF Next, vars, set_free_list_head, get_next_free_page, set_new_free_list_head,
         get_next_free_page_kmalloc, page_fault_handler

\* Every step keeps counts and heads right, whatever the map.
LEMMA NextKeepsCounted ==
    ASSUME Counted, [Next]_vars
    PROVE  Counted'
  <1>1. CASE append_free_list
    BY <1>1, AppendKeepsCounted
  <1>2. CASE set_free_list_head
    BY <1>2, SetHeadKeepsCounted
  <1>3. CASE get_next_free_page
    BY <1>3, EarlyKeepsCounted
  <1>4. CASE set_new_free_list_head
    BY <1>4, SetNewHeadKeepsCounted
  <1>5. CASE get_next_free_page_kmalloc
    BY <1>5, LateKeepsCounted
  <1>6. CASE page_fault_handler \/ UNCHANGED vars
    <2>1. UNCHANGED vars
      BY <1>6 DEF page_fault_handler
    <2> QED
      BY <2>1 DEF vars, Counted, TypeOK, Null, HeadFollowsTheHandedOut
  <1> QED
    BY <1>1, <1>2, <1>3, <1>4, <1>5, <1>6 DEF Next

\* Every step keeps the invariant for maps whose regions lie apart.
LEMMA NextKeepsIInv ==
    ASSUME RegionsAreApart, IInv, [Next]_vars
    PROVE  IInv'
  <1>1. Counted'
    BY NextKeepsCounted DEF IInv
  <1>2. CASE append_free_list
    BY <1>1, <1>2, AppendKeepsOrder DEF IInv
  <1>3. CASE ~append_free_list
    BY <1>1, <1>3, OnlyAppendChangesTheList, ListFactsAreStable DEF IInv
  <1> QED
    BY <1>2, <1>3

-----------------------------------------------------------------------------
\* Counts and heads are right throughout.
THEOREM FreeListCounts == Spec => []Counted
  <1>1. Init => Counted
    BY InitEstablishesIInv DEF IInv
  <1> QED
    BY <1>1, NextKeepsCounted, PTL DEF Spec

\* The inductive invariant holds throughout, for maps whose regions lie apart.
THEOREM FreeListInvariant == ASSUME RegionsAreApart PROVE Spec => []IInv
  <1>1. IInv /\ [Next]_vars => IInv'
    BY NextKeepsIInv
  <1> QED
    BY <1>1, InitEstablishesIInv, PTL DEF Spec

\* Two pages handed out are those of different descriptors of an ascending list.
LEMMA IInvImpliesNoPageTwice == IInv => NoPageHandedOutTwice
  <1> SUFFICES ASSUME IInv,
                      NEW i \in 1..Len(handed_out), NEW j \in 1..Len(handed_out), i # j
               PROVE  handed_out[i] # handed_out[j]
    BY DEF NoPageHandedOutTwice
  <1> DEFINE s == free_list_page_length
  <1>1. /\ phase # "smap" /\ s \in Nat /\ Len(free_list) \in Nat
        /\ Len(handed_out) \in Nat /\ Len(handed_out) + s <= Len(free_list)
    <2>1. TypeOK /\ phase # "smap"
      <3>1. Len(handed_out) # 0
        BY DEF IInv, Counted, TypeOK
      <3> QED
        BY <3>1 DEF IInv, Counted, HeadFollowsTheHandedOut
    <2> QED
      BY <2>1, TypeFacts DEF IInv, Counted, HeadFollowsTheHandedOut
  <1>2. handed_out[i] = free_list[s + i] /\ handed_out[j] = free_list[s + j]
    BY <1>1 DEF IInv, Counted, HeadFollowsTheHandedOut
  <1>3. /\ s + i \in 1..Len(free_list) /\ s + j \in 1..Len(free_list)
        /\ s + i < s + j \/ s + j < s + i
    BY <1>1
  <1>4. free_list[s + i] \in Nat /\ free_list[s + j] \in Nat
    BY <1>3, TypeFacts DEF IInv, Counted
  <1>5. free_list[s + i] < free_list[s + j] \/ free_list[s + j] < free_list[s + i]
    BY <1>3 DEF IInv, ListAscends
  <1> QED
    BY <1>2, <1>4, <1>5

\* A page handed out is that of a descriptor after the table's own pages, so it
\* lies after the table.
LEMMA IInvImpliesTableKept == IInv => KernelAndListAreNeverHandedOut
  <1> SUFFICES ASSUME IInv, NEW i \in 1..Len(handed_out)
               PROVE  /\ handed_out[i] >= round_up(Physfree)
                      /\ handed_out[i] \notin DescriptorPages
    BY DEF KernelAndListAreNeverHandedOut
  <1> DEFINE s == free_list_page_length
             n == Len(free_list)
             f == round_up(Physfree)
             last == (n * DescSize - 1) \div PAGESIZE
  <1>1. /\ phase # "smap" /\ s \in Nat /\ n \in Nat
        /\ Len(handed_out) \in Nat /\ Len(handed_out) + s <= n
        /\ s = TablePages(n)
    <2>1. TypeOK /\ phase # "smap"
      <3>1. Len(handed_out) # 0
        BY DEF IInv, Counted, TypeOK
      <3> QED
        BY <3>1 DEF IInv, Counted, HeadFollowsTheHandedOut
    <2> QED
      BY <2>1, TypeFacts DEF IInv, Counted, HeadFollowsTheHandedOut
  <1>2. handed_out[i] = free_list[s + i] /\ s + i \in 1..n
    BY <1>1 DEF IInv, Counted, HeadFollowsTheHandedOut
  <1>3. free_list[s + i] \in Nat
    BY <1>2, TypeFacts DEF IInv, Counted
  <1>4. f + (s + i) - 1 <= free_list[s + i]
    BY <1>2 DEF IInv, ListAscends
  <1>5. f \in Nat
    BY RoundUpIsAPage, SizesAssumption
  <1>6. n * DescSize - 1 \in Int /\ last \in Int
    BY <1>1, SizesAssumption
  <1>7. last < s
    BY <1>1, <1>2, TablePagesBounds
  <1> HIDE DEF last, f, s
  <1>8. f + last < handed_out[i]
    <2>1. i >= 1 /\ i \in Nat
      BY <1>1
    <2>2. f + last < f + (s + i) - 1
      BY <1>1, <1>5, <1>6, <1>7, <2>1
    <2>3. s + i \in Nat
      BY <1>1, <2>1
    <2> QED
      BY <1>2, <1>3, <1>4, <1>5, <1>6, <2>2, <2>3
  <1>9. handed_out[i] \notin f..(f + last)
    BY <1>2, <1>3, <1>5, <1>6, <1>8
  <1>10. handed_out[i] >= f
    <2>1. i >= 1 /\ i \in Nat
      BY <1>1
    <2>2. f + (s + i) - 1 >= f /\ s + i \in Nat
      BY <1>1, <1>5, <2>1 DEF s
    <2> QED
      BY <1>2, <1>3, <1>4, <1>5, <2>2
  <1>11. DescriptorPages = f..(f + last)
    BY DEF DescriptorPages, f, last
  <1> QED
    BY <1>9, <1>10, <1>11 DEF f

\* The counts and heads that the code keeps stay within the list, and what has been
\* handed out are page numbers, whatever the map.
THEOREM FreeListTypeOK == Spec => []TypeOK
<1>1. Counted => TypeOK
  BY DEF Counted
<1> QED
  BY <1>1, FreeListCounts, PTL

\* No page is handed out twice, by either allocator or by one after the other.
THEOREM FreeListHandsOutOnce == ASSUME RegionsAreApart PROVE Spec => []NoPageHandedOutTwice
  BY FreeListInvariant, IInvImpliesNoPageTwice, PTL

\* The kernel image and the descriptors are never handed out.
THEOREM FreeListKeepsItsTable ==
    ASSUME RegionsAreApart PROVE Spec => []KernelAndListAreNeverHandedOut
  BY FreeListInvariant, IInvImpliesTableKept, PTL

-----------------------------------------------------------------------------
(* What is handed out is memory *)

\* round_up goes to the next boundary of a page, and stays on one.
LEMMA RoundUpBounds ==
    ASSUME NEW a \in Nat
    PROVE  /\ a <= round_up(a) * PAGESIZE
           /\ a % PAGESIZE = 0 => round_up(a) * PAGESIZE <= a
  <1> DEFINE b == a + PAGESIZE - 1
             q == b \div PAGESIZE
             d == b % PAGESIZE
  <1>1. b \in Nat /\ PAGESIZE \in Nat /\ PAGESIZE > 0
    BY SizesAssumption
  <1>2. q \in Int /\ d \in 0..(PAGESIZE - 1) /\ b = PAGESIZE * q + d
    BY <1>1
  <1>3. round_up(a) = q
    BY DEF round_up
  <1> DEFINE c == a \div PAGESIZE
             o == a % PAGESIZE
  <1>4. a = PAGESIZE * c + o /\ c \in Int
    BY <1>1
  <1> HIDE DEF q, d, c, o
  <1>5. a <= q * PAGESIZE
    <2>1. PAGESIZE * q = q * PAGESIZE /\ a = PAGESIZE * q + d - PAGESIZE + 1
      BY <1>1, <1>2
    <2> QED
      BY <1>1, <1>2, <2>1
  <1>6. o = 0 => q * PAGESIZE <= a
    <2>1. SUFFICES ASSUME o = 0 PROVE q * PAGESIZE <= a
      OBVIOUS
    <2>2. a = PAGESIZE * c /\ c \in Int
      <3>1. PAGESIZE * c \in Int
        BY <1>1, <1>4
      <3> QED
        BY <1>4, <2>1, <3>1
    <2>3. PAGESIZE * q <= PAGESIZE * c + PAGESIZE - 1
      BY <1>1, <1>2, <2>2
    <2>4. q <= c
      <3>1. ASSUME q >= c + 1 PROVE FALSE
        <4>1. PAGESIZE * q >= PAGESIZE * (c + 1)
          BY <1>1, <1>2, <2>2, <3>1
        <4>2. PAGESIZE * (c + 1) = PAGESIZE * c + PAGESIZE
          BY <1>1, <2>2
        <4> QED
          BY <1>1, <1>2, <2>2, <2>3, <4>1, <4>2
      <3> QED
        BY <1>2, <2>2, <3>1
    <2> QED
      BY <1>1, <1>2, <2>2, <2>4
  <1> QED
    BY <1>3, <1>5, <1>6 DEF o

\* A page from the boundary on begins behind it, one below an aligned end ends before it.
LEMMA PagesOfARegion ==
    ASSUME NEW a \in Nat, NEW page \in Nat
    PROVE  /\ round_up(a) <= page => a <= page * PAGESIZE
           /\ page < round_up(a) /\ a % PAGESIZE = 0 => (page + 1) * PAGESIZE <= a
  <1> DEFINE u == round_up(a)
  <1>1. u \in Nat /\ PAGESIZE \in Nat
    BY RoundUpIsAPage, SizesAssumption
  <1>2. a <= u * PAGESIZE /\ (a % PAGESIZE = 0 => u * PAGESIZE <= a)
    BY RoundUpBounds
  <1>a. u * PAGESIZE \in Nat /\ page * PAGESIZE \in Nat /\ (page + 1) * PAGESIZE \in Nat
    BY <1>1
  <1> HIDE DEF u
  <1>3. u <= page => u * PAGESIZE <= page * PAGESIZE
    BY <1>1
  <1>4. page + 1 <= u => (page + 1) * PAGESIZE <= u * PAGESIZE
    BY <1>1
  <1>5. page < u => page + 1 <= u
    BY <1>1
  <1> QED
    BY <1>2, <1>3, <1>4, <1>5, <1>a DEF u

\* Where an element of the list comes from, once a region has been appended.
LEMMA AppendedFrom ==
    ASSUME NEW m \in Smaps, NEW e \in 1..Len(m), NEW list \in Seq(Nat),
           NEW i \in 1..Len(appended(list, m[e]))
    PROVE  LET page  == appended(list, m[e])[i]
               start == round_up(m[e].base)
               end   == round_up(End(m[e]))
               physfree == round_up(Physfree)
           IN  /\ page \in Nat
               /\ \/ i \in 1..Len(list) /\ page = list[i]
                  \/ start <= physfree /\ physfree <= page /\ page < end
                  \/ list # << >> /\ physfree <= start /\ start <= page /\ page <= end
  <1> DEFINE new == appended(list, m[e])
             start == round_up(m[e].base)
             end == round_up(End(m[e]))
             physfree == round_up(Physfree)
  <1>1. start \in Nat /\ end \in Nat /\ physfree \in Nat
    BY RegionPages, RoundUpIsAPage, SizesAssumption
  <1>2. \/ new = list
        \/ list = << >> /\ start <= physfree /\ new = PagesFrom(physfree, end)
        \/ list # << >> /\ physfree <= start /\ new = list \o PagesFrom(start, end + 1)
    BY <1>1 DEF appended
  <1>3. new \in Seq(Nat) /\ i \in 1..Len(new)
    BY AppendedExtends
  <1> HIDE DEF new, start, end, physfree
  <1>4. new[i] \in Nat
    BY <1>3
  <1>5. CASE new = list
    BY <1>3, <1>4, <1>5 DEF new, start, end, physfree
  <1>6. CASE start <= physfree /\ new = PagesFrom(physfree, end)
    <2>1. new[i] = physfree + i - 1 /\ new[i] < end
      BY <1>1, <1>3, <1>6, PagesFromProperties
    <2>2. i \in Nat /\ i >= 1
      BY <1>3
    <2>3. physfree <= new[i]
      BY <1>1, <2>1, <2>2
    <2> QED
      BY <1>4, <1>6, <2>1, <2>3 DEF new, start, end, physfree
  <1>7. CASE list # << >> /\ physfree <= start /\ new = list \o PagesFrom(start, end + 1)
    <2> DEFINE added == PagesFrom(start, end + 1)
               n == Len(list)
    <2>1. /\ added \in Seq(Nat)
          /\ \A k \in 1..Len(added) : added[k] = start + k - 1 /\ added[k] < end + 1
      <3>1. end + 1 \in Nat
        BY <1>1
      <3> QED
        BY <1>1, <3>1, PagesFromProperties
    <2> HIDE DEF added
    <2>2. n \in Nat /\ Len(added) \in Nat /\ Len(new) = n + Len(added)
          /\ new[i] = IF i <= n THEN list[i] ELSE added[i - n]
      BY <1>3, <1>7, <2>1 DEF added
    <2>3. CASE i <= n
      <3>1. i \in 1..n /\ new[i] = list[i]
        BY <1>3, <2>2, <2>3
      <3> QED
        BY <1>4, <3>1 DEF new
    <2>4. CASE ~(i <= n)
      <3>1. i - n \in 1..Len(added) /\ new[i] = added[i - n]
        BY <1>3, <2>2, <2>4
      <3>2. new[i] = start + (i - n) - 1 /\ new[i] < end + 1 /\ i - n >= 1 /\ i - n \in Nat
        BY <2>1, <2>2, <3>1
      <3>3. start <= new[i] /\ new[i] <= end
        BY <1>1, <1>4, <3>2
      <3> QED
        BY <1>4, <1>7, <3>3 DEF new, start, end, physfree
    <2> QED
      BY <2>3, <2>4
  <1> QED
    BY <1>2, <1>5, <1>6, <1>7

\* A region appended adds pages of its own, the page its end lies on with them, and
\* no page when another region holds the kernel and the map has only one.
LEMMA AppendKeepsMemory ==
    ASSUME MemoryInv, append_free_list
    PROVE  MemoryInv'
  <1> DEFINE r == smap[entry]
             physfree == round_up(Physfree)
  <1>1. /\ smap \in Smaps /\ smap' = smap
        /\ entry \in 1..Len(smap) /\ entry' = entry + 1 /\ Len(smap) \in Nat
        /\ free_list' = IF Counts(r) THEN appended(free_list, r) ELSE free_list
        /\ free_list \in Seq(Nat)
    BY ReadsOneEntry DEF MemoryInv
  <1>2. entry \in 1..(entry' - 1) /\ \A x \in 1..(entry - 1) : x \in 1..(entry' - 1)
    BY <1>1
  <1>3. OneAlignedRegion' <=> OneAlignedRegion
    BY <1>1 DEF OneAlignedRegion
  <1>4. /\ r \in Region /\ r.base \in Nat /\ End(r) \in Nat /\ physfree \in Nat
        /\ Physfree \in Nat /\ Physfree <= physfree * PAGESIZE
    <2>1. r \in Region
      BY <1>1, RegionPages
    <2>2. r.base \in Nat /\ End(r) \in Nat
      BY <2>1 DEF Region, End
    <2>3. Physfree \in Nat
      BY SizesAssumption
    <2> QED
      BY <2>1, <2>2, <2>3, RoundUpIsAPage, RoundUpBounds
  <1>5. ASSUME NEW i \in 1..Len(free_list) PROVE Listed(free_list[i]) /\ free_list[i] \in Nat
    BY <1>1, <1>5 DEF MemoryInv
  <1>6. ASSUME NEW i \in 1..Len(free_list'), NEW page \in Nat, page = free_list'[i]
        PROVE  /\ physfree <= page
               /\ \E x \in 1..(entry' - 1) : Touches(page, smap[x])
               /\ OneAlignedRegion => \E x \in 1..(entry' - 1) : Within(page, smap[x])
    <2>1. ASSUME NEW j \in 1..Len(free_list), page = free_list[j]
          PROVE  /\ physfree <= page
                 /\ \E x \in 1..(entry' - 1) : Touches(page, smap[x])
                 /\ OneAlignedRegion => \E x \in 1..(entry' - 1) : Within(page, smap[x])
      <3>1. Listed(page)
        BY <1>5, <2>1
      <3>2. /\ physfree <= page
            /\ \E x \in 1..(entry - 1) : Touches(page, smap[x])
            /\ OneAlignedRegion => \E x \in 1..(entry - 1) : Within(page, smap[x])
        BY <3>1, Zenon DEF Listed
      <3>3. \E x \in 1..(entry' - 1) : Touches(page, smap[x])
        <4>1. PICK x \in 1..(entry - 1) : Touches(page, smap[x])
          BY <3>2
        <4> QED
          BY <1>2, <4>1
      <3>4. ASSUME OneAlignedRegion PROVE \E x \in 1..(entry' - 1) : Within(page, smap[x])
        <4>1. PICK x \in 1..(entry - 1) : Within(page, smap[x])
          BY <3>2, <3>4
        <4> QED
          BY <1>2, <4>1
      <3>5. physfree <= page
        BY <3>2
      <3> HIDE DEF physfree
      <3> QED
        BY <3>3, <3>4, <3>5, Zenon
    <2>2. CASE ~Counts(r)
      <3>1. i \in 1..Len(free_list) /\ page = free_list[i]
        BY <1>1, <1>6, <2>2
      <3> HIDE DEF physfree
      <3> QED
        BY <3>1, <2>1
    <2>3. CASE Counts(r)
      <3> DEFINE start == round_up(r.base)
                 end == round_up(End(r))
      <3>1. \/ i \in 1..Len(free_list) /\ page = free_list[i]
            \/ start <= physfree /\ physfree <= page /\ page < end
            \/ free_list # << >> /\ physfree <= start /\ start <= page /\ page <= end
        <4>1. free_list' = appended(free_list, r) /\ i \in 1..Len(appended(free_list, r))
          BY <1>1, <2>3
        <4> QED
          BY <1>1, <1>6, <4>1, AppendedFrom
      <3>2. start \in Nat /\ end \in Nat
        BY <1>4, RoundUpIsAPage
      <3>3. /\ start <= page => r.base <= page * PAGESIZE
            /\ page < end /\ End(r) % PAGESIZE = 0 => (page + 1) * PAGESIZE <= End(r)
        BY <1>4, PagesOfARegion
      <3> HIDE DEF start, end, physfree
      <3>4. CASE start <= physfree /\ physfree <= page /\ page < end
        <4>1. start <= page /\ page <= end
          BY <1>4, <3>2, <3>4
        <4>2. Touches(page, r)
          BY <2>3, <3>3, <4>1 DEF Touches, end
        <4>3. OneAlignedRegion => Within(page, r)
          BY <1>1, <2>3, <3>3, <3>4, <4>1 DEF Within, OneAlignedRegion
        <4> QED
          BY <1>2, <3>4, <4>2, <4>3
      <3>5. CASE free_list # << >> /\ physfree <= start /\ start <= page /\ page <= end
        <4>1. Touches(page, r)
          BY <2>3, <3>3, <3>5 DEF Touches, end
        <4>2. physfree <= page
          BY <1>4, <3>2, <3>5
        <4>3. ASSUME OneAlignedRegion PROVE FALSE
          <5>1. 1 \in 1..Len(free_list)
            BY <1>1, <3>5
          <5> DEFINE p == free_list[1]
          <5>2. p \in Nat /\ physfree <= p /\ \E x \in 1..(entry - 1) : Within(p, smap[x])
            BY <1>5, <4>3, <5>1 DEF Listed, physfree
          <5> HIDE DEF p
          <5>3. PICK x \in 1..(entry - 1) : Within(p, smap[x])
            BY <5>2
          <5>4. x \in 1..Len(smap) /\ x < entry
            BY <1>1
          <5>5. (p + 1) * PAGESIZE <= End(smap[x]) /\ End(smap[x]) <= r.base /\ r.base <= Physfree
                /\ End(smap[x]) \in Nat
            <6>1. (p + 1) * PAGESIZE <= End(smap[x])
              BY <5>3 DEF Within
            <6>2. End(smap[x]) <= r.base
              BY <1>1, <5>4, SmapsAssumption
            <6>3. r.base <= Physfree
              BY <1>1, <2>3, <4>3 DEF OneAlignedRegion
            <6>4. End(smap[x]) \in Nat
              BY SMTT(20), <1>1, <5>4, RegionPages DEF Region, End
            <6> QED
              BY <6>1, <6>2, <6>3, <6>4
          <5>6. physfree * PAGESIZE <= p * PAGESIZE /\ p * PAGESIZE < (p + 1) * PAGESIZE
                /\ physfree * PAGESIZE \in Nat /\ p * PAGESIZE \in Nat /\ (p + 1) * PAGESIZE \in Nat
            BY <1>4, <5>2, SizesAssumption
          <5> QED
            BY <1>4, <5>5, <5>6
        <4> QED
          BY <1>2, <4>1, <4>2, <4>3
      <3> QED
        BY <2>1, <3>1, <3>4, <3>5
    <2> QED
      BY <2>2, <2>3
  <1>7. Counted'
    BY AppendKeepsCounted DEF MemoryInv
  <1>8. ASSUME NEW i \in 1..Len(free_list') PROVE Listed(free_list[i])'
    <2>1. free_list'[i] \in Nat
      BY SMTT(20), <1>7 DEF Counted, TypeOK
    <2> QED
      BY <1>1, <1>3, <1>6, <2>1 DEF Listed
  <1> QED
    BY <1>7, <1>8 DEF MemoryInv

LEMMA NextKeepsMemory ==
    ASSUME MemoryInv, [Next]_vars
    PROVE  MemoryInv'
  <1>1. CASE append_free_list
    BY <1>1, AppendKeepsMemory
  <1>2. CASE ~append_free_list
    <2>1. UNCHANGED <<free_list, entry, smap>>
      BY <1>2, OnlyAppendChangesTheList
    <2>2. Counted'
      BY NextKeepsCounted DEF MemoryInv
    <2>3. \A i \in 1..Len(free_list) : Listed(free_list[i])'
      BY <2>1, ListFactsAreStable DEF MemoryInv
    <2> QED
      BY <2>1, <2>2, <2>3 DEF MemoryInv
  <1> QED
    BY <1>1, <1>2

\* Every page listed touches a usable region above the kernel, for any map.
THEOREM FreeListListsMemory == Spec => []MemoryInv
  <1>1. Init => MemoryInv
    BY InitEstablishesIInv DEF Init, IInv, MemoryInv
  <1> QED
    BY <1>1, NextKeepsMemory, PTL DEF Spec

\* What the allocators return starts in a usable region or where it ends, and lies
\* within one if that region is the only one and aligned.
THEOREM FreeListHandsOutMemory == Spec => []HandedOutPagesTouchMemory
  <1>1. ASSUME MemoryInv PROVE HandedOutPagesTouchMemory
    <2>1. ASSUME NEW i \in 1..Len(handed_out) PROVE Listed(handed_out[i])
      <3>1. /\ phase # "smap" /\ Len(handed_out) \in Nat /\ Len(free_list) \in Nat
            /\ free_list_page_length \in Nat
        <4>1. Len(handed_out) # 0 /\ TypeOK
          BY <1>1 DEF MemoryInv, Counted, TypeOK
        <4> QED
          BY <1>1, <4>1, TypeFacts DEF MemoryInv, Counted, HeadFollowsTheHandedOut
      <3>2. /\ handed_out[i] = free_list[free_list_page_length + i]
            /\ Len(handed_out) + free_list_page_length <= Len(free_list)
        BY <1>1, <3>1 DEF MemoryInv, Counted, HeadFollowsTheHandedOut
      <3>3. free_list_page_length + i \in 1..Len(free_list)
        BY <3>1, <3>2
      <3> QED
        BY <1>1, <3>2, <3>3 DEF MemoryInv
    <2>2. \A x \in 1..(entry - 1) : x \in 1..Len(smap)
      <3>1. smap \in Smaps /\ entry \in 1..(Len(smap) + 1)
        BY <1>1 DEF MemoryInv, Counted, TypeOK
      <3>2. Len(smap) \in Nat
        BY <3>1, SmapsAssumption
      <3> QED
        BY <3>1, <3>2
    <2>3. OneAlignedRegion => OnlyMemoryIsHandedOut
      BY <2>1, <2>2 DEF OnlyMemoryIsHandedOut, Listed, Within, Counts
    <2>4. \A i \in 1..Len(handed_out) : \E x \in 1..Len(smap) : Touches(handed_out[i], smap[x])
      BY <2>1, <2>2 DEF Listed
    <2> QED
      BY <2>3, <2>4 DEF HandedOutPagesTouchMemory, Touches
  <1> QED
    BY <1>1, FreeListListsMemory, PTL
=============================================================================
