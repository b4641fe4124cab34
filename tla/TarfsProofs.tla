----------------------------- MODULE TarfsProofs -----------------------------
(***************************************************************************)
(* The archive: tarfs_init lists every member below its directory, and     *)
(* get_elf finds the file it is asked for unless a block before it spells  *)
(* the file's name, for every archive that is laid out as tar does it.     *)
(*                                                                         *)
(* The invariant says where tarfs_init stands (ScanInv): before a header   *)
(* or before the end, with offset a block further.  The table then holds   *)
(* the members before p (TableInv), and the directory of the next one is   *)
(* among them because the archive is a tree: the slashes counted from the  *)
(* end of a name cut off what lies behind the last one (Names).  get_elf   *)
(* has compared every word before the one it stands at (SearchInv).        *)
(***************************************************************************)
EXTENDS Tarfs, SequenceTheorems, FiniteSetTheorems, WellFoundedInduction, TLAPS

-----------------------------------------------------------------------------
(* Numbers *)

Below == OpToRel(<, Nat)

\* A set of numbers has a least one.
LEMMA LeastNumber ==
  ASSUME NEW T \in SUBSET Nat, T # {}
  PROVE  \E x \in T : \A y \in T : x <= y
<1>1. IsWellFoundedOn(Below, Nat)
  BY NatLessThanWellFounded DEF Below
<1>2. \A x, y \in Nat : y < x => <<y, x>> \in Below
  BY DEF Below, OpToRel
<1>3. PICK x \in T : \A y \in T : ~ (<<y, x>> \in Below)
  BY <1>1, WFMin
<1>4. \A y \in T : ~(y < x)
  <2> SUFFICES ASSUME NEW y \in T, y < x PROVE FALSE
    OBVIOUS
  <2>1. x \in Nat /\ y \in Nat
    OBVIOUS
  <2>2. <<y, x>> \in Below
    BY <1>2, <2>1
  <2>3. ~ (<<y, x>> \in Below)
    BY <1>3
  <2> QED
    BY <2>2, <2>3, Zenon
<1> QED
  BY <1>4

\* A bounded set of numbers has a greatest one.
LEMMA GreatestNumber ==
  ASSUME NEW T, NEW n \in Nat, T \subseteq 1 .. n, T # {}
  PROVE  \E x \in T : \A y \in T : y <= x
<1> DEFINE D == {d \in Nat : n - d \in T}
<1>1. D \in SUBSET Nat /\ D # {}
  <2>1. PICK x \in T : TRUE
    OBVIOUS
  <2>2. n - x \in Nat /\ n - (n - x) = x
    BY <2>1
  <2>3. n - x \in D
    BY <2>1, <2>2
  <2> QED
    BY <2>3
<1>2. PICK d \in D : \A e \in D : d <= e
  BY <1>1, LeastNumber
<1>3. n - d \in T /\ d \in Nat
  BY <1>2
<1>4. ASSUME NEW y \in T PROVE y <= n - d
  <2>1. y \in 1 .. n /\ n - y \in Nat /\ n - (n - y) = y
    OBVIOUS
  <2>2. n - y \in D
    BY <2>1
  <2>3. d <= n - y
    BY <1>2, <2>2
  <2> QED
    BY <1>3, <2>1, <2>3
<1> QED
  BY <1>3, <1>4

\* The two roundings are the same: p moves by the blocks that offset moves by.
LEMMA RoundingsAgree ==
  ASSUME NEW size \in Nat, NEW typeflag, typeflag # "NUL"
  PROVE  /\ file_number(size, typeflag) = BlocksOf(size) + 1
         /\ BlocksOf(size) \in Nat
         /\ Rounded(size) = file_number(size, typeflag) * BlockSize
<1> DEFINE q == size \div 512
           r == size % 512
           k == (size + 512 - 1) \div 512
<1>1. q \in Nat /\ r \in 0 .. 511 /\ size = 512 * q + r
  BY SMT
<1>2. k \in Nat /\ k = IF r = 0 THEN q ELSE q + 1
  BY <1>1, SMT
<1>3. Rounded(size) = IF size = 0 \/ r = 0 THEN size + 512 ELSE size + (512 - r) + 512
  BY DEF Rounded, BlockSize
<1>4. file_number(size, typeflag) = k + 1 /\ BlocksOf(size) = k
  BY <1>2 DEF file_number, BlocksOf, BlockSize
<1> HIDE DEF q, r, k
<1>5. Rounded(size) = (k + 1) * 512
  BY <1>1, <1>2, <1>3
<1> QED
  BY <1>2, <1>4, <1>5 DEF BlockSize

\* Division, where the divisor is not a number that the provers see.
LEMMA QuotientOfMultiple ==
  ASSUME NEW q \in Nat, NEW d \in Nat \ {0}
  PROVE  d * q \in Nat /\ (d * q) \div d = q /\ (d * q) % d = 0
  OBVIOUS

\* The w-th of d words behind the first q times d.
LEMMA QuotientOfSum ==
  ASSUME NEW q \in Nat, NEW d \in Nat \ {0}, NEW w \in 0 .. d - 1
  PROVE  d * q + w \in Nat /\ (d * q + w) \div d = q /\ (d * q + w) % d = w
  OBVIOUS

LEMMA DivisionWithRest ==
  ASSUME NEW x \in Nat, NEW d \in Nat \ {0}
  PROVE  x \div d \in Nat /\ x % d \in 0 .. d - 1 /\ x = d * (x \div d) + (x % d)
  OBVIOUS

LEMMA QuotientBelow ==
  ASSUME NEW q \in Nat, NEW w \in Nat, NEW d \in Nat \ {0}, w < d * q
  PROVE  w \div d \in Nat /\ w \div d < q
  OBVIOUS

-----------------------------------------------------------------------------
(* Names *)

\* A name that lies somewhere has a last slash before its end: its directory's.
LEMMA DirectoryIsUpToASlash ==
  ASSUME NEW name \in Name, InnerSlashes(name) # {}
  PROVE  \E k \in InnerSlashes(name) :
           /\ \A j \in InnerSlashes(name) : j <= k
           /\ DirectoryOf(name) = SubSeq(name, 1, k)
<1> DEFINE greatest == CHOOSE k \in InnerSlashes(name) : \A j \in InnerSlashes(name) : j <= k
<1>1. Len(name) \in Nat
  BY LenProperties DEF Name
<1>2. InnerSlashes(name) \subseteq 1 .. Len(name)
  BY <1>1 DEF InnerSlashes
<1>3. \E k \in InnerSlashes(name) : \A j \in InnerSlashes(name) : j <= k
  BY <1>1, <1>2, GreatestNumber
<1>4. greatest \in InnerSlashes(name) /\ \A j \in InnerSlashes(name) : j <= greatest
  BY <1>3
<1>5. DirectoryOf(name) = SubSeq(name, 1, greatest)
  BY DEF DirectoryOf
<1> HIDE DEF greatest
<1> QED
  BY <1>4, <1>5

\* get_parent_index counts slashes from the end, one for a file, two for a
\* directory, whose name ends with one: what it cuts off leaves the directory.
LEMMA UpToSlashIsTheDirectory ==
  ASSUME NEW name \in Name, InnerSlashes(name) # {},
         NEW slice_count, slice_count = IF name[Len(name)] = "/" THEN 2 ELSE 1
  PROVE  UpToSlash(name, slice_count) = DirectoryOf(name)
<1> DEFINE From(k) == {j \in Slashes(name) : j >= k}
           n == Len(name)
<1>1. n \in Nat /\ DOMAIN name = 1 .. n
  BY LenProperties DEF Name
<1>2. PICK g \in InnerSlashes(name) : /\ \A j \in InnerSlashes(name) : j <= g
                                      /\ DirectoryOf(name) = SubSeq(name, 1, g)
  BY DirectoryIsUpToASlash
<1>3. g \in 1 .. n - 1 /\ g \in Slashes(name)
  BY <1>1, <1>2 DEF InnerSlashes, Slashes
<1>4. \A j \in Slashes(name) : j \in 1 .. n /\ (j < n => j <= g)
  BY <1>1, <1>2 DEF InnerSlashes, Slashes
<1>5. n \in Slashes(name) <=> name[n] = "/"
  BY <1>1, <1>3 DEF Slashes
<1>6. Cardinality(From(g)) = slice_count
  <2>1. g # n /\ g <= n /\ g >= g
    <3> HIDE DEF n, From
    <3> QED
      BY <1>1, <1>3
  <2>2. g \in From(g)
    BY <1>3, <2>1
  <2>3. ASSUME NEW j \in From(g), j # g PROVE j = n /\ name[n] = "/"
    <3>1. j \in 1 .. n /\ j >= g /\ (j < n => j <= g) /\ j \in Slashes(name)
      BY <1>4, <2>3
    <3>2. j = n
      <4> HIDE DEF n, From
      <4>1. j # g
        BY <2>3
      <4> QED
        BY <1>1, <1>3, <3>1, <4>1
    <3> QED
      BY <1>5, <3>1, <3>2
  <2>4. CASE name[n] = "/"
    <3>1. n \in From(g)
      BY <1>5, <2>1, <2>4
    <3>2. From(g) = {g} \union {n}
      <4> HIDE DEF From
      <4> QED
        BY <2>2, <2>3, <3>1
    <3>3. IsFiniteSet({g}) /\ Cardinality({g}) = 1 /\ n \notin {g}
      BY <2>1, FS_Singleton
    <3>4. Cardinality({g} \union {n}) = 2
      <4> DEFINE one == Cardinality({g})
                 two == Cardinality({g} \union {n})
      <4>1. two = one + 1
        BY <3>3, FS_AddElement, Zenon
      <4>2. one = 1
        BY <3>3
      <4> HIDE DEF one, two
      <4>3. two = 2
        BY <4>1, <4>2
      <4> QED
        BY <4>3 DEF two
    <3>5. slice_count = 2
      BY <2>4
    <3> HIDE DEF From, n
    <3> QED
      BY <3>2, <3>4, <3>5
  <2>5. CASE name[n] # "/"
    <3>1. From(g) = {g}
      <4> HIDE DEF From
      <4> QED
        BY <2>2, <2>3, <2>5
    <3> QED
      BY <2>5, <3>1, FS_Singleton
  <2> QED
    BY <2>4, <2>5
<1>7. ASSUME NEW k \in Slashes(name), Cardinality(From(k)) = slice_count PROVE k = g
  <2>1. k \in 1 .. n /\ g \in 1 .. n
    BY <1>1, <1>3, <1>4
  <2>2. IsFiniteSet(From(g)) /\ IsFiniteSet(From(k))
    <3>1. From(g) \in SUBSET (1 .. n) /\ From(k) \in SUBSET (1 .. n)
      BY <1>4
    <3>2. IsFiniteSet(1 .. n)
      BY <1>1, FS_Interval
    <3> HIDE DEF From
    <3> QED
      BY <3>1, <3>2, FS_Subset, Zenon
  <2>3. CASE k < g
    <3>1. \A j \in Slashes(name) : j >= g => j >= k
      BY <1>4, <2>1, <2>3
    <3>2. From(g) \in SUBSET From(k)
      BY <3>1
    <3>3. k \in From(k) /\ k \notin From(g)
      BY <2>1, <2>3
    <3> HIDE DEF From
    <3>4. From(k) = From(g)
      BY <1>6, <1>7, <2>2, <3>2, FS_Subset, Zenon
    <3> QED
      BY <3>3, <3>4
  <2>4. CASE k > g
    <3>1. \A j \in Slashes(name) : j >= k => j >= g
      BY <1>4, <2>1, <2>4
    <3>2. From(k) \in SUBSET From(g)
      BY <3>1
    <3>3. g \in From(g) /\ g \notin From(k)
      BY <1>3, <2>1, <2>4
    <3> HIDE DEF From
    <3>4. From(k) = From(g)
      BY <1>6, <1>7, <2>2, <3>2, FS_Subset, Zenon
    <3> QED
      BY <3>3, <3>4
  <2> QED
    BY <2>1, <2>3, <2>4
<1>8. (CHOOSE k \in Slashes(name) : Cardinality(From(k)) = slice_count) = g
  <2> HIDE DEF From
  <2> QED
    BY <1>3, <1>6, <1>7
<1>9. UpToSlash(name, slice_count)
        = SubSeq(name, 1, CHOOSE k \in Slashes(name) : Cardinality(From(k)) = slice_count)
  BY DEF UpToSlash
<1> QED
  BY <1>2, <1>8, <1>9

\* The root directory is named.
LEMMA RootIsAName ==
  /\ root_directory_name \in Seq(Parts)
  /\ Len(root_directory_name) = 3
  /\ root_directory_name[1] = "/"
  /\ root_directory_name[2] # "/"
  /\ root_directory_name[3] = "/"
<1>1. \A a, b, c \in Parts : <<a, b, c>> \in Seq(Parts)
  OBVIOUS
<1>2. "/" \in Parts /\ "rootfs" \in Parts
  BY NamesAssumption
<1>3. root_directory_name \in Seq(Parts)
  BY <1>1, <1>2, Zenon DEF root_directory_name
<1>4. Len(root_directory_name) = 3 /\ root_directory_name[1] = "/"
  BY DEF root_directory_name
<1>5. root_directory_name[2] # "/" /\ root_directory_name[3] = "/"
  BY DEF root_directory_name
<1> QED
  BY <1>3, <1>4, <1>5

\* The names in the table begin with the root directory's.
LEMMA NamesBelowTheRoot ==
  ASSUME NEW h \in Name, h # Empty
  PROVE  LET name == root_directory_name \o h
         IN  /\ name \in Name
             /\ Len(name) = Len(h) + 3
             /\ \A k \in 1 .. 3 : name[k] = root_directory_name[k]
             /\ \A k \in 1 .. Len(h) : name[k + 3] = h[k]
             /\ Len(h) \in Nat \ {0}
<1> DEFINE name == root_directory_name \o h
<1>1. root_directory_name \in Seq(Parts) /\ Len(root_directory_name) = 3
  BY RootIsAName
<1>2. h \in Seq(Parts) /\ Len(h) \in Nat \ {0}
  BY EmptySeq DEF Name, Empty
<1>3. /\ name \in Seq(Parts)
      /\ Len(name) = 3 + Len(h)
      /\ \A i \in 1 .. 3 + Len(h) :
           name[i] = IF i <= 3 THEN root_directory_name[i] ELSE h[i - 3]
  <2> DEFINE r == root_directory_name
  <2>1. r \in Seq(Parts) /\ Len(r) = 3
    BY <1>1
  <2> HIDE DEF r
  <2>2. /\ r \o h \in Seq(Parts)
        /\ Len(r \o h) = Len(r) + Len(h)
        /\ \A i \in 1 .. Len(r) + Len(h) :
             (r \o h)[i] = IF i <= Len(r) THEN r[i] ELSE h[i - Len(r)]
    BY <1>2, <2>1, ConcatProperties, Zenon
  <2>3. name = r \o h
    BY DEF r
  <2> HIDE DEF name
  <2>4. /\ name \in Seq(Parts)
        /\ Len(name) = 3 + Len(h)
        /\ \A i \in 1 .. 3 + Len(h) : name[i] = IF i <= 3 THEN r[i] ELSE h[i - 3]
    BY <2>1, <2>2, <2>3, Zenon
  <2> QED
    BY <2>4 DEF r
<1> HIDE DEF name
<1>4. \A k \in 1 .. 3 : name[k] = root_directory_name[k]
  BY <1>2, <1>3
<1>5. \A k \in 1 .. Len(h) : name[k + 3] = h[k]
  <2> SUFFICES ASSUME NEW k \in 1 .. Len(h) PROVE name[k + 3] = h[k]
    OBVIOUS
  <2>1. k + 3 \in 1 .. 3 + Len(h) /\ ~(k + 3 <= 3) /\ (k + 3) - 3 = k
    BY <1>2
  <2> QED
    BY <1>3, <2>1
<1>6. name \in Name /\ Len(name) = Len(h) + 3
  BY <1>2, <1>3 DEF Name
<1> QED
  BY <1>2, <1>4, <1>5, <1>6 DEF name

\* A member lies in the root directory or in one whose name it extends in the archive.
LEMMA DirectoryBelowTheRoot ==
  ASSUME NEW h \in Name, h # Empty
  PROVE  LET name == root_directory_name \o h
         IN  /\ InnerSlashes(name) # {}
             /\ DirectoryOf(name) = IF InnerSlashes(h) = {} THEN root_directory_name
                                    ELSE root_directory_name \o DirectoryOf(h)
<1> DEFINE name == root_directory_name \o h
           n == Len(h)
<1>1. /\ name \in Name
      /\ Len(name) = n + 3
      /\ \A k \in 1 .. 3 : name[k] = root_directory_name[k]
      /\ \A k \in 1 .. n : name[k + 3] = h[k]
      /\ n \in Nat \ {0}
  BY NamesBelowTheRoot
<1> HIDE DEF name, n
<1>2. /\ root_directory_name \in Name /\ Len(root_directory_name) = 3
      /\ root_directory_name[3] = "/"
  BY RootIsAName DEF Name
<1>3. 3 \in InnerSlashes(name)
  <2>1. 3 \in 1 .. Len(name) - 1 /\ name[3] = "/"
    BY <1>1, <1>2
  <2> QED
    BY <2>1 DEF InnerSlashes
<1>4. PICK g \in InnerSlashes(name) : /\ \A j \in InnerSlashes(name) : j <= g
                                      /\ DirectoryOf(name) = SubSeq(name, 1, g)
  BY <1>1, <1>3, DirectoryIsUpToASlash
<1>5. g \in 3 .. n + 2 /\ name[g] = "/"
  <2>1. g \in 1 .. Len(name) - 1 /\ name[g] = "/" /\ 3 <= g
    BY <1>3, <1>4 DEF InnerSlashes
  <2> QED
    BY <1>1, <2>1
<1>6. \A k \in Int : k \in InnerSlashes(h) <=> k > 0 /\ k + 3 \in InnerSlashes(name)
  <2> SUFFICES ASSUME NEW k \in Int
               PROVE  k \in InnerSlashes(h) <=> k > 0 /\ k + 3 \in InnerSlashes(name)
    OBVIOUS
  <2>1. k \in InnerSlashes(h) <=> k \in 1 .. n - 1 /\ h[k] = "/"
    BY DEF InnerSlashes, n
  <2>2. k + 3 \in InnerSlashes(name) <=> k + 3 \in 1 .. n + 2 /\ name[k + 3] = "/"
    BY <1>1 DEF InnerSlashes
  <2>3. k \in 1 .. n - 1 <=> k > 0 /\ k + 3 \in 1 .. n + 2
    BY <1>1
  <2>4. k \in 1 .. n - 1 => name[k + 3] = h[k]
    BY <1>1
  <2> QED
    BY <2>1, <2>2, <2>3, <2>4
<1>7. \A i \in 1 .. g : name[i] \in Parts
  <2>1. \A i \in 1 .. Len(name) : name[i] \in Parts
    BY <1>1, ElementOfSeq DEF Name
  <2> QED
    BY <1>1, <1>5, <2>1
<1>8. /\ SubSeq(name, 1, g) \in Seq(Parts)
      /\ Len(SubSeq(name, 1, g)) = g
      /\ \A i \in 1 .. g : SubSeq(name, 1, g)[i] = name[i]
  <2>1. g \in Int /\ g >= 1
    BY <1>1, <1>5
  <2>2. /\ SubSeq(name, 1, g) \in Seq(Parts)
        /\ Len(SubSeq(name, 1, g)) = IF 1 <= g THEN g - 1 + 1 ELSE 0
        /\ \A i \in 1 .. g - 1 + 1 : SubSeq(name, 1, g)[i] = name[1 + i - 1]
    BY <1>7, <2>1, SubSeqProperties
  <2>3. \A i \in 1 .. g : i \in 1 .. g - 1 + 1 /\ 1 + i - 1 = i
    BY <2>1
  <2> QED
    BY <2>1, <2>2, <2>3
<1> DEFINE directory == SubSeq(name, 1, g)
<1> HIDE DEF directory
<1>9. CASE InnerSlashes(h) = {}
  <2>1. g = 3
    <3>1. g - 3 \notin InnerSlashes(h) /\ (g - 3) + 3 = g
      BY <1>5, <1>9
    <3>2. ~(g - 3 > 0)
      BY <1>1, <1>4, <1>5, <1>6, <3>1
    <3> QED
      BY <1>1, <1>5, <3>2
  <2>2. /\ directory \in Seq(Parts) /\ root_directory_name \in Seq(Parts)
        /\ Len(directory) = Len(root_directory_name)
        /\ \A i \in 1 .. Len(directory) : directory[i] = root_directory_name[i]
    BY <1>1, <1>2, <1>8, <2>1 DEF directory, Name
  <2>3. directory = root_directory_name
    BY <2>2, SeqEqual
  <2> QED
    BY <1>3, <1>4, <1>9, <2>3 DEF directory, name
<1>10. CASE InnerSlashes(h) # {}
  <2>1. PICK k \in InnerSlashes(h) : /\ \A j \in InnerSlashes(h) : j <= k
                                     /\ DirectoryOf(h) = SubSeq(h, 1, k)
    BY <1>10, DirectoryIsUpToASlash
  <2>2. k \in 1 .. n - 1
    BY <2>1 DEF InnerSlashes, n
  <2>3. g = k + 3
    <3>1. k + 3 \in InnerSlashes(name) /\ k + 3 <= g
      BY <1>4, <1>6, <2>1, <2>2
    <3>2. g - 3 \in Int /\ g - 3 > 0 /\ (g - 3) + 3 = g
      BY <1>1, <1>5, <2>2, <3>1
    <3>3. g - 3 \in InnerSlashes(h)
      BY <1>4, <1>6, <3>2
    <3>4. g - 3 <= k
      BY <2>1, <3>3
    <3> QED
      BY <1>1, <1>5, <2>2, <3>1, <3>4
  <2>4. \A i \in 1 .. k : h[i] \in Parts
    <3>1. \A i \in 1 .. n : h[i] \in Parts
      BY ElementOfSeq DEF Name, n
    <3> QED
      BY <1>1, <2>2, <3>1
  <2>5. /\ SubSeq(h, 1, k) \in Seq(Parts)
        /\ Len(SubSeq(h, 1, k)) = k
        /\ \A i \in 1 .. k : SubSeq(h, 1, k)[i] = h[i]
    <3>1. k \in Int /\ k >= 1
      BY <1>1, <2>2
    <3>2. /\ SubSeq(h, 1, k) \in Seq(Parts)
          /\ Len(SubSeq(h, 1, k)) = IF 1 <= k THEN k - 1 + 1 ELSE 0
          /\ \A i \in 1 .. k - 1 + 1 : SubSeq(h, 1, k)[i] = h[1 + i - 1]
      BY <2>4, <3>1, SubSeqProperties
    <3>3. \A i \in 1 .. k : i \in 1 .. k - 1 + 1 /\ 1 + i - 1 = i
      BY <3>1
    <3> QED
      BY <3>1, <3>2, <3>3
  <2> DEFINE above == SubSeq(h, 1, k)
             whole == root_directory_name \o above
  <2>6. /\ whole \in Name
        /\ Len(whole) = k + 3
        /\ \A j \in 1 .. 3 : whole[j] = root_directory_name[j]
        /\ \A j \in 1 .. k : whole[j + 3] = above[j]
    <3>1. above \in Name /\ above # Empty
      BY <2>2, <2>5, EmptySeq DEF Name, Empty
    <3> HIDE DEF above
    <3> QED
      BY <2>5, <3>1, NamesBelowTheRoot DEF above
  <2> HIDE DEF above, whole
  <2>7. \A i \in 1 .. k + 3 : directory[i] = whole[i]
    <3> SUFFICES ASSUME NEW i \in 1 .. k + 3 PROVE directory[i] = whole[i]
      OBVIOUS
    <3>1. directory[i] = name[i]
      BY <1>8, <2>3 DEF directory
    <3>2. CASE i <= 3
      BY <1>1, <2>6, <3>1, <3>2
    <3>3. CASE i > 3
      <4>1. i - 3 \in 1 .. k /\ i - 3 \in 1 .. n /\ (i - 3) + 3 = i
        BY <1>1, <2>2, <3>3
      <4>2. name[i] = h[i - 3] /\ whole[i] = above[i - 3] /\ above[i - 3] = h[i - 3]
        BY <1>1, <2>5, <2>6, <4>1 DEF above
      <4> QED
        BY <3>1, <4>2
    <3> QED
      BY <2>2, <3>2, <3>3
  <2>8. directory \in Seq(Parts) /\ Len(directory) = k + 3
    BY <1>8, <2>3 DEF directory
  <2>9. directory = whole
    <3>1. whole \in Seq(Parts) /\ Len(directory) = Len(whole)
      BY <2>6, <2>8 DEF Name
    <3>2. \A i \in 1 .. Len(directory) : directory[i] = whole[i]
      BY <2>7, <2>8
    <3> QED
      BY <2>8, <3>1, <3>2, SeqEqual
  <2> QED
    BY <1>3, <1>4, <1>10, <2>1, <2>9 DEF directory, whole, above, name
<1> QED
  BY <1>9, <1>10 DEF name

\* What is cut off behind the last slash of a name leaves one that ends with it.
LEMMA DirectoryIsAName ==
  ASSUME NEW name \in Name, InnerSlashes(name) # {}
  PROVE  LET d == DirectoryOf(name)
         IN  d \in Name /\ Len(d) \in Nat \ {0} /\ d[Len(d)] = "/"
<1>1. Len(name) \in Nat /\ \A i \in 1 .. Len(name) : name[i] \in Parts
  BY LenProperties, ElementOfSeq DEF Name
<1>2. PICK k \in InnerSlashes(name) : DirectoryOf(name) = SubSeq(name, 1, k)
  BY DirectoryIsUpToASlash
<1>3. k \in 1 .. Len(name) - 1 /\ name[k] = "/"
  BY <1>2 DEF InnerSlashes
<1>4. k \in Int /\ k >= 1 /\ \A i \in 1 .. k : name[i] \in Parts
  BY <1>1, <1>3
<1>5. /\ SubSeq(name, 1, k) \in Seq(Parts)
      /\ Len(SubSeq(name, 1, k)) = IF 1 <= k THEN k - 1 + 1 ELSE 0
      /\ \A i \in 1 .. k - 1 + 1 : SubSeq(name, 1, k)[i] = name[1 + i - 1]
  BY <1>4, SubSeqProperties
<1>6. Len(SubSeq(name, 1, k)) = k /\ k \in 1 .. k - 1 + 1 /\ 1 + k - 1 = k
  BY <1>4, <1>5
<1>7. SubSeq(name, 1, k)[k] = "/"
  BY <1>3, <1>5, <1>6
<1> QED
  BY <1>2, <1>4, <1>5, <1>6, <1>7 DEF Name

-----------------------------------------------------------------------------
(* tarfs_init *)

Slots == [name : Name, parent : Int, size : Nat, type : {"0", "5"}, address : Int,
          index : Nat, offset : Int]

\* The cursors of tarfs_init stand before a header, or before the end.
ScanInv ==
  /\ archive \in Archives
  /\ pc \in {"tarfs_init", "ready", "traverse_tarfs"}
  /\ p \in 0 .. Len(archive) - 2
  /\ archive[p + 1].kind # "contents"
  /\ OffsetFollowsP
  /\ pc # "tarfs_init" => ~AtHeader

MemberIsListed(b) ==
  /\ Entry(PlaceOf(b)).name = root_directory_name \o archive[b].name
  /\ Entry(PlaceOf(b)).type = archive[b].typeflag
  /\ Entry(PlaceOf(b)).size = archive[b].bytes

\* The table holds the roots and the members before the header at p, directories
\* are the entries whose names end with a slash, and each entry has its parent.
TableInv ==
  /\ vfs \in Seq(Slots)
  /\ vfs_pointer = PlaceOf(p + 1)
  /\ \A b \in Listed : b <= p => MemberIsListed(b)
  /\ \A n \in 0 .. vfs_pointer - 1 :
       /\ Entry(n).index = n
       /\ Entry(n).name # Empty
       /\ Entry(n).type = "5" <=> Entry(n).name[Len(Entry(n).name)] = "/"
  /\ Entry(0).parent = -1
  /\ Entry(1).name = root_directory_name
  /\ ParentHoldsChild

\* What the archive is, for the one that was linked in.
LEMMA ArchiveFacts ==
  ASSUME archive \in Archives
  PROVE  /\ LaidOut(archive) /\ Tree(archive) /\ SizesReadBack(archive)
         /\ archive \in Seq(Block)
         /\ Len(archive) \in Nat /\ Len(archive) > 1
         /\ DOMAIN archive = 1 .. Len(archive)
         /\ \A b \in 1 .. Len(archive) : archive[b] \in Block
<1>1. LaidOut(archive) /\ Tree(archive) /\ SizesReadBack(archive)
  BY ArchivesAssumption
<1>2. archive \in Seq(Block) /\ Len(archive) > 1
  BY <1>1 DEF LaidOut
<1> QED
  BY <1>1, <1>2, LenProperties, ElementOfSeq

\* Where p stands before a header, the next one is where p moves to, and what is
\* between is contents.
LEMMA NextHeader ==
  ASSUME ScanInv, AtHeader, NEW b, b = p + 1
  PROVE  /\ b \in HeadersOf(archive) /\ b \in Nat \ {0}
         /\ oct2bin(archive[b].size) = archive[b].bytes /\ archive[b].bytes \in Nat
         /\ archive[b].typeflag # "NUL"
         /\ LET next == b + BlocksOf(archive[b].bytes) + 1
            IN  /\ next \in b + 1 .. Len(archive) - 1
                /\ archive[next].kind # "contents"
                /\ \A c \in HeadersOf(archive) : c < next <=> c <= b
                /\ p + file_number(archive[b].bytes, archive[b].typeflag) = next - 1
                /\ offset + Rounded(archive[b].bytes) = next * BlockSize
<1> DEFINE n == Len(archive)
<1>1. /\ LaidOut(archive) /\ Tree(archive) /\ SizesReadBack(archive)
      /\ n \in Nat /\ n > 1 /\ DOMAIN archive = 1 .. n
      /\ \A k \in 1 .. n : archive[k] \in Block
  BY ArchiveFacts DEF ScanInv
<1> HIDE DEF n
<1>2. p \in 0 .. n - 2 /\ b \in 1 .. n - 1 /\ b \in 1 .. n
  BY <1>1 DEF ScanInv, n
<1>3. archive[b].kind # "contents" /\ archive[b].name # Empty
  BY DEF ScanInv, AtHeader
<1>4. archive[b].kind \in {"header", "contents", "zeros"} /\ archive[b].bytes \in Nat
  BY <1>1, <1>2 DEF Block
<1>5. archive[b].kind # "zeros"
  BY <1>1, <1>2, <1>3 DEF LaidOut
<1>6. b \in HeadersOf(archive)
  BY <1>1, <1>2, <1>3, <1>4, <1>5 DEF HeadersOf
<1>7. oct2bin(archive[b].size) = archive[b].bytes
  BY <1>1, <1>6 DEF SizesReadBack
<1>8. archive[b].typeflag # "NUL"
  BY <1>1, <1>6 DEF Tree
<1> DEFINE k == BlocksOf(archive[b].bytes)
           next == b + k + 1
<1>9. /\ file_number(archive[b].bytes, archive[b].typeflag) = k + 1
      /\ k \in Nat
      /\ Rounded(archive[b].bytes) = (k + 1) * BlockSize
  BY <1>4, <1>8, RoundingsAgree
<1>10. /\ next < n
       /\ archive[next].kind # "contents"
       /\ \A c \in b + 1 .. next - 1 : archive[c].kind = "contents"
  BY <1>1, <1>6 DEF LaidOut, n
<1> HIDE DEF k
<1>11. next \in b + 1 .. n - 1 /\ next \in Nat
  BY <1>1, <1>2, <1>9, <1>10
<1>12. ASSUME NEW c \in HeadersOf(archive) PROVE c < next <=> c <= b
  <2>1. c \in 1 .. n /\ archive[c].kind = "header"
    BY <1>1 DEF HeadersOf
  <2>2. c \notin b + 1 .. next - 1
    BY <1>10, <2>1
  <2> HIDE DEF next
  <2> QED
    BY <1>1, <1>2, <1>11, <2>1, <2>2
<1>13. p + file_number(archive[b].bytes, archive[b].typeflag) = next - 1
  BY <1>2, <1>9
<1>14. offset + Rounded(archive[b].bytes) = next * BlockSize
  <2>1. offset = b * BlockSize
    BY DEF ScanInv, OffsetFollowsP
  <2> QED
    BY <1>2, <1>9, <2>1 DEF BlockSize
<1> QED
  BY <1>2, <1>4, <1>6, <1>7, <1>8, <1>10, <1>11, <1>12, <1>13, <1>14 DEF next, k, n

\* The cursors move together, from header to header.
LEMMA StepKeepsScanInv ==
  ASSUME ScanInv, [TarfsNext]_vars
  PROVE  ScanInv'
<1>1. CASE ReadMember
  <2> DEFINE b == p + 1
             next == b + BlocksOf(archive[b].bytes) + 1
  <2>1. pc = "tarfs_init" /\ AtHeader /\ archive' = archive /\ pc' = pc
    BY <1>1 DEF ReadMember
  <2>2. /\ b \in Nat \ {0}
        /\ oct2bin(archive[b].size) = archive[b].bytes
        /\ next \in b + 1 .. Len(archive) - 1
        /\ archive[next].kind # "contents"
        /\ p + file_number(archive[b].bytes, archive[b].typeflag) = next - 1
        /\ offset + Rounded(archive[b].bytes) = next * BlockSize
    BY <2>1, NextHeader
  <2>3. p' = next - 1 /\ offset' = next * BlockSize
    BY <1>1, <2>2 DEF ReadMember
  <2> HIDE DEF b, next
  <2>4. Len(archive) \in Nat
    BY ArchiveFacts DEF ScanInv
  <2>5. p' \in 0 .. Len(archive) - 2 /\ p' + 1 = next
    BY <2>2, <2>3, <2>4
  <2> QED
    BY <2>1, <2>2, <2>3, <2>5 DEF ScanInv, OffsetFollowsP, BlockSize
<1>2. CASE EndOfArchive
  BY <1>2 DEF EndOfArchive, ScanInv, OffsetFollowsP, AtHeader, BlockSize
<1>3. CASE \E name \in Sought : get_elf(name)
  BY <1>3 DEF get_elf, ScanInv, OffsetFollowsP, AtHeader, BlockSize
<1>4. CASE traverse_tarfs
  BY <1>4 DEF traverse_tarfs, ScanInv, OffsetFollowsP, AtHeader, BlockSize
<1>5. CASE UNCHANGED vars
  BY <1>5 DEF vars, ScanInv, OffsetFollowsP, AtHeader, BlockSize
<1> QED
  BY <1>1, <1>2, <1>3, <1>4, <1>5 DEF TarfsNext, tarfs_init

\* The place of a member is the number of the entries before it.
LEMMA Places ==
  ASSUME archive \in Archives
  PROVE  /\ \A b \in Int : PlaceOf(b) \in Nat /\ PlaceOf(b) >= 2
         /\ \A b \in Listed, c \in Int : b < c => PlaceOf(b) + 1 <= PlaceOf(c)
         /\ \A b, c \in Int :
              (\A d \in Listed : d < c <=> d <= b) =>
                PlaceOf(c) = IF b \in Listed THEN PlaceOf(b) + 1 ELSE PlaceOf(b)
         /\ \A b \in Int : (\A d \in Listed : d < b) => PlaceOf(b) = 2 + Cardinality(Listed)
         /\ Listed \subseteq 1 .. Len(archive)
<1> DEFINE Before(b) == {c \in Listed : c < b}
<1>1. Len(archive) \in Nat /\ DOMAIN archive = 1 .. Len(archive)
  BY ArchiveFacts
<1>2. Listed \in SUBSET (1 .. Len(archive))
  BY <1>1 DEF Listed, HeadersOf
<1>3. IsFiniteSet(1 .. Len(archive))
  BY <1>1, FS_Interval
<1>4. IsFiniteSet(Listed)
  BY <1>2, <1>3, FS_Subset, Zenon
<1>5. \A b : Before(b) \in SUBSET Listed
  OBVIOUS
<1>6. \A b : PlaceOf(b) = 2 + Cardinality(Before(b))
  BY DEF PlaceOf
<1>7. \A d \in Listed : d \in Int
  BY <1>1, <1>2
<1>8. \A b, d : d \in Before(b) <=> d \in Listed /\ d < b
  OBVIOUS
<1> HIDE DEF Before
<1>9. \A b : IsFiniteSet(Before(b)) /\ Cardinality(Before(b)) \in Nat
  BY <1>4, <1>5, FS_Subset, FS_CardinalityType, Zenon
<1>10. \A b \in Int : PlaceOf(b) \in Nat /\ PlaceOf(b) >= 2
  BY <1>6, <1>9
<1>11. ASSUME NEW b \in Listed, NEW c \in Int, b < c PROVE PlaceOf(b) + 1 <= PlaceOf(c)
  <2>1. b \notin Before(b)
    BY <1>7, <1>8
  <2>2. IsFiniteSet(Before(b) \union {b})
        /\ Cardinality(Before(b) \union {b}) = Cardinality(Before(b)) + 1
    BY <1>9, <2>1, FS_AddElement, Zenon
  <2>3. Before(b) \union {b} \in SUBSET Before(c)
    BY <1>7, <1>8, <1>11
  <2>4. Cardinality(Before(b) \union {b}) <= Cardinality(Before(c))
    BY <1>9, <2>3, FS_Subset, Zenon
  <2> QED
    BY <1>6, <1>9, <2>2, <2>4
<1>12. ASSUME NEW b \in Int, NEW c \in Int, \A d \in Listed : d < c <=> d <= b
       PROVE  PlaceOf(c) = IF b \in Listed THEN PlaceOf(b) + 1 ELSE PlaceOf(b)
  <2>1. CASE b \in Listed
    <3>1. b \notin Before(b)
      BY <1>7, <1>8
    <3>2. Before(c) = Before(b) \union {b}
      <4>1. \A d \in Listed : d < c <=> d < b \/ d = b
        BY <1>7, <1>12, <2>1
      <4>2. \A d : d \in Before(c) <=> d \in Before(b) \/ d = b
        BY <1>8, <2>1, <4>1, Zenon
      <4> QED
        BY <4>2
    <3>3. Cardinality(Before(b) \union {b}) = Cardinality(Before(b)) + 1
      BY <1>9, <3>1, FS_AddElement, Zenon
    <3> QED
      BY <1>6, <1>9, <2>1, <3>2, <3>3
  <2>2. CASE b \notin Listed
    <3>1. \A d \in Listed : d < c <=> d < b
      BY <1>7, <1>12, <2>2
    <3>2. Before(c) = Before(b)
      BY <1>8, <3>1
    <3> QED
      BY <1>6, <2>2, <3>2
  <2> QED
    BY <2>1, <2>2
<1>13. ASSUME NEW b \in Int, \A d \in Listed : d < b
       PROVE  PlaceOf(b) = 2 + Cardinality(Listed)
  <2>1. Before(b) = Listed
    BY <1>8, <1>13
  <2> QED
    BY <1>6, <2>1
<1> QED
  BY <1>2, <1>10, <1>11, <1>12, <1>13

-----------------------------------------------------------------------------
(* get_elf *)

\* traverse_tarfs has looked at the words before at, and get_elf has found the
\* first that reads as the name, if there is one.
SearchInv ==
  /\ at \in 0 .. ArchiveWords + 1
  /\ filename \in Sought \union {Empty}
  /\ pc = "tarfs_init" => filename = Empty
  /\ elf \in {NULL} \union WordsPerBlock .. ArchiveWords + WordsPerBlock - 1
  /\ pc = "traverse_tarfs" =>
       /\ elf = NULL
       /\ at <= ArchiveWords
       /\ \A word \in 0 .. at - 1 : ~Matches(word)
  /\ (pc = "ready" /\ filename # Empty) =>
       IF elf = NULL
       THEN \A word \in 0 .. ArchiveWords - 1 : ~Matches(word)
       ELSE \E found \in 0 .. ArchiveWords - 1 :
              /\ elf = found + WordsPerBlock
              /\ Matches(found)
              /\ \A word \in 0 .. found - 1 : ~Matches(word)

IInv == ScanInv /\ TableInv /\ SearchInv

-----------------------------------------------------------------------------
(* The table *)

\* get_parent_index finds the first entry with the name it cuts out.
LEMMA ParentIsFound ==
  ASSUME NEW file_name, NEW slice_count, vfs_pointer \in Nat,
         \E n \in 0 .. vfs_pointer - 1 : Entry(n).name = UpToSlash(file_name, slice_count)
  PROVE  LET parent == get_parent_index(file_name, slice_count)
         IN  /\ parent \in 0 .. vfs_pointer - 1
             /\ Entry(parent).name = UpToSlash(file_name, slice_count)
<1> DEFINE named == {n \in 0 .. vfs_pointer - 1 : Entry(n).name = UpToSlash(file_name, slice_count)}
<1>1. named \in SUBSET Nat /\ named # {}
  OBVIOUS
<1>2. get_parent_index(file_name, slice_count)
        = CHOOSE n \in named : \A other \in named : n <= other
  BY <1>1 DEF get_parent_index
<1>3. \E n \in named : \A other \in named : n <= other
  BY <1>1, LeastNumber
<1>4. get_parent_index(file_name, slice_count) \in named
  <2> HIDE DEF named
  <2> QED
    BY <1>2, <1>3
<1> QED
  BY <1>4

\* The entry a member gets: below the root directory, in the directory that holds it.
LEMMA MemberHasItsParent ==
  ASSUME ScanInv, TableInv, AtHeader, NEW b, b = p + 1, b \in Listed
  PROVE  LET name == root_directory_name \o archive[b].name
             parent == get_parent_index(name, IF archive[b].typeflag = "0" THEN 1 ELSE 2)
         IN  /\ name \in Name /\ name # Empty
             /\ archive[b].typeflag = "5" <=> name[Len(name)] = "/"
             /\ parent \in 0 .. vfs_pointer - 1
             /\ Entry(parent).type = "5"
             /\ Entry(parent).name = DirectoryOf(name)
<1> DEFINE h == archive[b].name
           name == root_directory_name \o h
           slice_count == IF archive[b].typeflag = "0" THEN 1 ELSE 2
           parent == get_parent_index(name, slice_count)
<1>1. /\ Tree(archive) /\ DOMAIN archive = 1 .. Len(archive) /\ Len(archive) \in Nat
      /\ \A k \in 1 .. Len(archive) : archive[k] \in Block
  BY ArchiveFacts DEF ScanInv
<1>2. b \in HeadersOf(archive) /\ b \in 1 .. Len(archive) /\ archive[b].typeflag \in {"0", "5"}
  BY <1>1 DEF Listed, HeadersOf
<1>3. /\ h # Empty
      /\ archive[b].typeflag = "5" <=> h[Len(h)] = "/"
      /\ InnerSlashes(h) # {} =>
           \E c \in HeadersOf(archive) : c < b /\ archive[c].name = DirectoryOf(h)
  BY <1>1, <1>2 DEF Tree
<1>4. h \in Name
  BY <1>1, <1>2 DEF Block
<1> HIDE DEF h
<1>5. /\ name \in Name
      /\ Len(name) = Len(h) + 3
      /\ \A k \in 1 .. Len(h) : name[k + 3] = h[k]
      /\ Len(h) \in Nat \ {0}
  BY <1>3, <1>4, NamesBelowTheRoot
<1>6. /\ InnerSlashes(name) # {}
      /\ DirectoryOf(name) = IF InnerSlashes(h) = {} THEN root_directory_name
                             ELSE root_directory_name \o DirectoryOf(h)
  BY <1>3, <1>4, DirectoryBelowTheRoot
<1> HIDE DEF name
<1>7. name # Empty
  BY <1>5, EmptySeq DEF Empty
<1>8. name[Len(name)] = h[Len(h)]
  BY <1>5
<1>9. slice_count = IF name[Len(name)] = "/" THEN 2 ELSE 1
  BY <1>2, <1>3, <1>8
<1> HIDE DEF slice_count
<1>10. UpToSlash(name, slice_count) = DirectoryOf(name)
  BY <1>5, <1>6, <1>9, UpToSlashIsTheDirectory
<1>11. vfs_pointer \in Nat /\ vfs_pointer >= 2 /\ vfs_pointer = PlaceOf(b)
  BY <1>1, <1>2, Places DEF TableInv, ScanInv
<1>12. \E n \in 0 .. vfs_pointer - 1 : Entry(n).name = DirectoryOf(name)
  <2>1. CASE InnerSlashes(h) = {}
    <3>1. Entry(1).name = DirectoryOf(name)
      BY <1>6, <2>1 DEF TableInv
    <3> QED
      BY <1>11, <3>1
  <2>2. CASE InnerSlashes(h) # {}
    <3>1. PICK c \in HeadersOf(archive) : c < b /\ archive[c].name = DirectoryOf(h)
      BY <1>3, <2>2
    <3>2. c \in 1 .. Len(archive)
      BY <1>1 DEF HeadersOf
    <3>3. DirectoryOf(h)[Len(DirectoryOf(h))] = "/"
      BY <1>4, <2>2, DirectoryIsAName
    <3>4. archive[c].typeflag = "5"
      BY <1>1, <3>1, <3>3 DEF Tree
    <3>5. c \in Listed
      BY <3>1, <3>4 DEF Listed
    <3>6. c <= p
      BY <1>1, <3>1, <3>2 DEF ScanInv
    <3>7. Entry(PlaceOf(c)).name = root_directory_name \o DirectoryOf(h)
      <4>1. MemberIsListed(c)
        BY <3>5, <3>6 DEF TableInv
      <4> QED
        BY <3>1, <4>1, Zenon DEF MemberIsListed
    <3>8. PlaceOf(c) \in Nat /\ PlaceOf(c) + 1 <= PlaceOf(b)
      BY <1>2, <3>1, <3>2, <3>5, Places DEF ScanInv
    <3>9. PlaceOf(c) \in 0 .. vfs_pointer - 1
      BY <1>11, <3>8
    <3> QED
      BY <1>6, <2>2, <3>7, <3>9
  <2> QED
    BY <2>1, <2>2
<1>13. parent \in 0 .. vfs_pointer - 1 /\ Entry(parent).name = DirectoryOf(name)
  BY <1>10, <1>11, <1>12, ParentIsFound
<1> HIDE DEF parent
<1>14. Entry(parent).type = "5"
  <2>1. DirectoryOf(name)[Len(DirectoryOf(name))] = "/"
    BY <1>5, <1>6, DirectoryIsAName
  <2> QED
    BY <1>13, <2>1 DEF TableInv
<1> QED
  BY <1>3, <1>5, <1>7, <1>8, <1>13, <1>14 DEF parent, slice_count, name, h

\* A member that gets no entry leaves the table as it is.
LEMMA LinkKeepsTableInv ==
  ASSUME ScanInv, TableInv, AtHeader, NEW b, b = p + 1, b \notin Listed,
         archive' = archive, vfs' = vfs,
         p' = p + file_number(archive[b].bytes, archive[b].typeflag)
  PROVE  TableInv'
<1> DEFINE next == b + BlocksOf(archive[b].bytes) + 1
<1>1. /\ b \in Nat \ {0}
      /\ next \in b + 1 .. Len(archive) - 1
      /\ \A c \in HeadersOf(archive) : c < next <=> c <= b
      /\ p + file_number(archive[b].bytes, archive[b].typeflag) = next - 1
  BY NextHeader
<1> HIDE DEF next
<1>2. Len(archive) \in Nat
  BY ArchiveFacts DEF ScanInv
<1>3. next \in Int /\ p' + 1 = next /\ p' = next - 1 /\ b \in Int
  BY <1>1, <1>2
<1>4. Listed \subseteq HeadersOf(archive) /\ \A d \in Listed : d \in Int
  <2>1. Listed \subseteq 1 .. Len(archive)
    BY Places DEF ScanInv
  <2>2. Listed \subseteq HeadersOf(archive)
    BY DEF Listed
  <2> QED
    BY <1>2, <2>1, <2>2
<1>5. PlaceOf(next) = PlaceOf(b)
  BY <1>1, <1>3, <1>4, Places DEF ScanInv
<1>6. ASSUME NEW c \in Listed, c <= p' PROVE c <= p
  <2>1. c < next /\ c \in Int
    BY <1>3, <1>4, <1>6
  <2>2. c <= b /\ c # b
    BY <1>1, <1>4, <2>1
  <2> QED
    BY <1>2, <2>1, <2>2 DEF ScanInv
<1>7. Listed' = Listed /\ \A c : PlaceOf(c)' = PlaceOf(c)
  BY DEF Listed, HeadersOf, PlaceOf
<1>8. vfs_pointer' = PlaceOf(p + 1)'
  BY <1>3, <1>5 DEF TableInv, vfs_pointer, PlaceOf, Listed, HeadersOf
<1>9. \A c \in Listed' : c <= p' => MemberIsListed(c)'
  BY <1>6, <1>7 DEF TableInv, MemberIsListed, Entry
<1> QED
  BY <1>8, <1>9 DEF TableInv, vfs_pointer, Entry, ParentHoldsChild

LEMMA SlotsAreSlots ==
  ASSUME NEW nindex \in Nat, NEW nname \in Name, NEW nparent \in Int, NEW nsize \in Nat,
         NEW ntype \in {"0", "5"}, NEW naddress \in Int, NEW noffset \in Int
  PROVE  slot(nindex, nname, nparent, nsize, ntype, naddress, noffset) \in Slots
  BY DEF slot, Slots

\* A file or directory gets the next entry.
LEMMA EntryKeepsTableInv ==
  ASSUME ScanInv, TableInv, AtHeader, NEW b, b = p + 1, b \in Listed, archive' = archive,
         p' = p + file_number(archive[b].bytes, archive[b].typeflag),
         NEW name, name = root_directory_name \o archive[b].name,
         NEW new,
         new = slot(vfs_pointer, name,
                    get_parent_index(name, IF archive[b].typeflag = "0" THEN 1 ELSE 2),
                    archive[b].bytes, archive[b].typeflag,
                    p * BlockSize + archive[b].bytes, offset'),
         offset' \in Int,
         vfs' = Append(vfs, new)
  PROVE  TableInv'
<1> DEFINE next == b + BlocksOf(archive[b].bytes) + 1
           n == Len(vfs)
           After(k) == vfs'[k + 1]
<1>1. /\ b \in Nat \ {0}
      /\ next \in b + 1 .. Len(archive) - 1
      /\ \A c \in HeadersOf(archive) : c < next <=> c <= b
      /\ p + file_number(archive[b].bytes, archive[b].typeflag) = next - 1
      /\ archive[b].bytes \in Nat
  BY NextHeader
<1> HIDE DEF next
<1>2. Len(archive) \in Nat
  BY ArchiveFacts DEF ScanInv
<1>3. next \in Int /\ p' + 1 = next /\ p' = next - 1 /\ b \in Int /\ p \in Nat
  BY <1>1, <1>2 DEF ScanInv
<1>4. /\ name \in Name /\ name # Empty
      /\ archive[b].typeflag = "5" <=> name[Len(name)] = "/"
      /\ new.parent \in 0 .. vfs_pointer - 1
      /\ Entry(new.parent).type = "5"
      /\ Entry(new.parent).name = DirectoryOf(name)
  BY MemberHasItsParent DEF slot
<1>5. /\ n \in Nat /\ vfs \in Seq(Slots) /\ vfs_pointer = n
      /\ n = PlaceOf(b) /\ n >= 2
  <2>1. vfs \in Seq(Slots) /\ vfs_pointer = n /\ n = PlaceOf(b)
    BY DEF TableInv, vfs_pointer
  <2> QED
    BY <1>3, <2>1, Places DEF ScanInv
<1> DEFINE m == archive[b]
<1>18. new.name = name /\ new.index = n /\ new.type = m.typeflag /\ new.size = m.bytes
  BY DEF slot, vfs_pointer
<1> HIDE DEF m
<1>6. archive[b].typeflag \in {"0", "5"}
  BY DEF Listed
<1>7. new \in Slots
  <2>1. p * BlockSize + archive[b].bytes \in Int
    BY <1>1, <1>3 DEF BlockSize
  <2> DEFINE parent == get_parent_index(name, IF archive[b].typeflag = "0" THEN 1 ELSE 2)
             address == p * BlockSize + archive[b].bytes
             size == archive[b].bytes
             type == archive[b].typeflag
  <2>2. new = slot(n, name, parent, size, type, address, offset')
    BY DEF vfs_pointer
  <2>3. new.parent = parent
    BY DEF slot
  <2>4. parent \in Int /\ n \in Nat
    BY <1>4, <1>5, <2>3
  <2>5. name \in Name
    BY <1>4
  <2>6. size \in Nat /\ type \in {"0", "5"} /\ address \in Int
    BY <1>1, <1>6, <2>1
  <2> HIDE DEF n, parent, address, size, type
  <2> QED
    BY <2>2, <2>4, <2>5, <2>6, SlotsAreSlots
<1> HIDE DEF n
<1>8. /\ vfs' \in Seq(Slots) /\ vfs_pointer' = n + 1
      /\ \A k \in 0 .. n - 1 : After(k) = Entry(k)
      /\ After(n) = new
  <2>1. /\ vfs' \in Seq(Slots) /\ Len(vfs') = n + 1
        /\ \A i \in 1 .. n : vfs'[i] = vfs[i]
        /\ vfs'[n + 1] = new
    BY <1>5, <1>7, AppendProperties DEF n
  <2>2. \A k \in 0 .. n - 1 : k + 1 \in 1 .. n
    BY <1>5
  <2> QED
    BY <2>1, <2>2 DEF vfs_pointer, Entry
<1>9. Listed' = Listed /\ \A c : PlaceOf(c)' = PlaceOf(c)
  BY DEF Listed, HeadersOf, PlaceOf
<1>10. Listed \subseteq HeadersOf(archive) /\ \A d \in Listed : d \in Int
  <2>1. Listed \subseteq 1 .. Len(archive)
    BY Places DEF ScanInv
  <2>2. Listed \subseteq HeadersOf(archive)
    BY DEF Listed
  <2> QED
    BY <1>2, <2>1, <2>2
<1>11. vfs_pointer' = PlaceOf(p + 1)'
  <2>1. PlaceOf(next) = PlaceOf(b) + 1
    BY <1>1, <1>3, <1>10, Places DEF ScanInv
  <2>2. PlaceOf(p + 1)' = PlaceOf(next)
    BY <1>3 DEF Listed, HeadersOf, PlaceOf
  <2> QED
    BY <1>5, <1>8, <2>1, <2>2
<1>12. ASSUME NEW c \in Listed', c <= p' PROVE MemberIsListed(c)'
  <2> SUFFICES /\ After(PlaceOf(c)).name = root_directory_name \o archive[c].name
               /\ After(PlaceOf(c)).type = archive[c].typeflag
               /\ After(PlaceOf(c)).size = archive[c].bytes
    BY <1>9 DEF MemberIsListed, Entry
  <2>1. c < next /\ c \in Int /\ c \in Listed
    BY <1>3, <1>9, <1>10, <1>12
  <2>2. c <= b
    BY <1>1, <1>10, <2>1
  <2>3. CASE c = b
    <3>1. After(PlaceOf(c)) = new
      BY <1>5, <1>8, <1>9, <2>3
    <3> QED
      BY <1>18, <2>3, <3>1, Zenon DEF m
  <2>4. CASE c # b
    <3>1. c < b /\ c <= p
      BY <1>3, <2>1, <2>2, <2>4
    <3>2. PlaceOf(c) \in 0 .. n - 1
      <4>1. PlaceOf(c) \in Nat /\ PlaceOf(c) + 1 <= PlaceOf(b)
        BY <1>3, <2>1, <3>1, Places DEF ScanInv
      <4> QED
        BY <1>5, <4>1
    <3>3. After(PlaceOf(c)) = Entry(PlaceOf(c))
      BY <1>8, <3>2
    <3>4. MemberIsListed(c)
      BY <2>1, <3>1 DEF TableInv
    <3> QED
      BY <3>3, <3>4, Zenon DEF MemberIsListed
  <2> QED
    BY <2>3, <2>4
<1>13. ASSUME NEW k \in 0 .. n
       PROVE  /\ After(k).index = k
              /\ After(k).name # Empty
              /\ After(k).type = "5" <=> After(k).name[Len(After(k).name)] = "/"
  <2>1. CASE k = n
    <3>1. After(k) = new
      BY <1>8, <2>1
    <3> HIDE DEF After
    <3>2. After(k).index = k /\ After(k).name = name /\ After(k).type = archive[b].typeflag
      BY <1>18, <2>1, <3>1 DEF m
    <3> QED
      BY <1>4, <3>2
  <2>2. CASE k # n
    <3>1. k \in 0 .. n - 1
      BY <1>5, <2>2
    <3>2. After(k) = Entry(k)
      BY <1>8, <3>1
    <3>3. /\ Entry(k).index = k
          /\ Entry(k).name # Empty
          /\ Entry(k).type = "5" <=> Entry(k).name[Len(Entry(k).name)] = "/"
      BY <1>5, <3>1 DEF TableInv
    <3> HIDE DEF After
    <3> QED
      BY <3>2, <3>3, Zenon
  <2> QED
    BY <2>1, <2>2
<1>14. After(0).parent = -1 /\ After(1).name = root_directory_name
  <2>1. 0 \in 0 .. n - 1 /\ 1 \in 0 .. n - 1
    BY <1>5
  <2> QED
    BY <1>8, <2>1 DEF TableInv
<1>15. ASSUME NEW k \in 1 .. n
       PROVE  /\ After(k).parent \in 0 .. k - 1
              /\ After(After(k).parent).type = "5"
              /\ After(After(k).parent).name = DirectoryOf(After(k).name)
  <2>1. CASE k = n
    <3>1. After(k) = new /\ new.parent \in 0 .. n - 1
      BY <1>4, <1>5, <1>8, <2>1
    <3>2. After(new.parent) = Entry(new.parent)
      BY <1>8, <3>1
    <3>3. After(After(k).parent) = Entry(new.parent)
      BY <3>1, <3>2
    <3>4. After(k).name = name
      BY <1>18, <3>1
    <3> HIDE DEF After
    <3>5. After(k).parent \in 0 .. k - 1
      BY <2>1, <3>1
    <3> QED
      BY <1>4, <3>3, <3>4, <3>5
  <2>2. CASE k # n
    <3>1. k \in 1 .. n - 1 /\ k \in 0 .. n - 1
      BY <1>5, <2>2
    <3>2. /\ Entry(k).parent \in 0 .. k - 1
          /\ Entry(Entry(k).parent).type = "5"
          /\ Entry(Entry(k).parent).name = DirectoryOf(Entry(k).name)
      BY <1>5, <3>1 DEF TableInv, ParentHoldsChild
    <3>3. After(k) = Entry(k)
      BY <1>8, <3>1
    <3>4. Entry(k).parent \in 0 .. n - 1
      BY <1>5, <3>1, <3>2
    <3>5. After(Entry(k).parent) = Entry(Entry(k).parent)
      BY <1>8, <3>4
    <3>6. After(After(k).parent) = Entry(Entry(k).parent)
      BY <3>3, <3>5
    <3> QED
      BY <3>2, <3>3, <3>6
  <2> QED
    BY <2>1, <2>2
<1>16. vfs_pointer' - 1 = n
  BY <1>5, <1>8
<1>17. ParentHoldsChild'
  BY <1>15, <1>16 DEF ParentHoldsChild, Entry
<1> QED
  BY <1>8, <1>11, <1>12, <1>13, <1>14, <1>16, <1>17 DEF TableInv, Entry

\* The root directory lies in "/".
LEMMA RootIsBelowSlash ==
  /\ DirectoryOf(root_directory_name) = <<"/">>
  /\ <<"/">> \in Name /\ <<"/">> # Empty
<1>1. root_directory_name \in Name
  BY RootIsAName DEF Name
<1>2. InnerSlashes(root_directory_name) = {1}
  BY RootIsAName DEF InnerSlashes
<1>3. DirectoryOf(root_directory_name) = SubSeq(root_directory_name, 1, 1)
  BY <1>1, <1>2, DirectoryIsUpToASlash
<1>4. /\ SubSeq(root_directory_name, 1, 1) \in Seq(Parts)
      /\ Len(SubSeq(root_directory_name, 1, 1)) = 1
      /\ SubSeq(root_directory_name, 1, 1)[1] = "/"
  <2>1. 1 \in 1 .. 1 /\ \A i \in 1 .. 1 : root_directory_name[i] \in Parts
    BY RootIsAName, NamesAssumption
  <2>2. /\ SubSeq(root_directory_name, 1, 1) \in Seq(Parts)
        /\ Len(SubSeq(root_directory_name, 1, 1)) = IF 1 <= 1 THEN 1 - 1 + 1 ELSE 0
        /\ \A i \in 1 .. 1 - 1 + 1 :
             SubSeq(root_directory_name, 1, 1)[i] = root_directory_name[1 + i - 1]
    BY <2>1, SubSeqProperties
  <2> QED
    BY <2>2, RootIsAName
<1>5. <<"/">> \in Seq(Parts) /\ Len(<<"/">>) = 1 /\ <<"/">>[1] = "/"
  <2>1. \A a \in Parts : <<a>> \in Seq(Parts)
    OBVIOUS
  <2>2. "/" \in Parts
    BY NamesAssumption
  <2>3. <<"/">> \in Seq(Parts)
    BY <2>1, <2>2, Zenon
  <2> QED
    BY <2>3
<1> DEFINE cut == SubSeq(root_directory_name, 1, 1)
           top == <<"/">>
<1>6. /\ cut \in Seq(Parts) /\ top \in Seq(Parts) /\ Len(cut) = 1 /\ Len(top) = 1
      /\ cut[1] = top[1]
  BY <1>4, <1>5
<1> HIDE DEF cut, top
<1>7. \A i \in 1 .. 1 : cut[i] = top[i]
  BY <1>6
<1>8. cut = top
  BY <1>6, <1>7, SeqEqual
<1> QED
  BY <1>3, <1>5, <1>8, EmptySeq DEF cut, top, Name, Empty

\* The two roots are in the table before the archive is read.
LEMMA InitTableInv ==
  ASSUME TarfsInit
  PROVE  TableInv
<1> DEFINE top == slot(0, <<"/">>, -1, 0, "5", 0, 0)
           rootfs == slot(1, root_directory_name, 0, 0, "5", 0, BlockSize)
<1>1. /\ top.index = 0 /\ top.name = <<"/">> /\ top.parent = -1 /\ top.type = "5"
      /\ rootfs.index = 1 /\ rootfs.name = root_directory_name /\ rootfs.parent = 0
      /\ rootfs.type = "5"
  BY DEF slot
<1>2. root_directory_name \in Name /\ root_directory_name # Empty
  BY RootIsAName, EmptySeq DEF Name, Empty
<1>3. top \in Slots /\ rootfs \in Slots
  BY <1>2, RootIsBelowSlash DEF slot, Slots, BlockSize
<1>4. vfs = <<top, rootfs>> /\ archive \in Archives /\ p = 0
  BY DEF TarfsInit
<1> HIDE DEF top, rootfs
<1>5. vfs \in Seq(Slots) /\ Len(vfs) = 2 /\ vfs[1] = top /\ vfs[2] = rootfs
  BY <1>3, <1>4
<1>6. Entry(0) = top /\ Entry(1) = rootfs /\ vfs_pointer = 2
  BY <1>5 DEF Entry, vfs_pointer
<1>7. \A d \in Listed : d \in Nat \ {0}
  <2>1. Listed \subseteq 1 .. Len(archive) /\ Len(archive) \in Nat
    BY <1>4, Places, ArchiveFacts
  <2> QED
    BY <2>1
<1>8. PlaceOf(p + 1) = 2
  <2>1. {c \in Listed : c < 1} = {}
    BY <1>7
  <2> QED
    BY <1>4, <2>1, FS_EmptySet DEF PlaceOf
<1>9. \A b \in Listed : b <= p => MemberIsListed(b)
  BY <1>4, <1>7
<1>10. \A n \in 0 .. 1 :
         /\ Entry(n).index = n
         /\ Entry(n).name # Empty
         /\ Entry(n).type = "5" <=> Entry(n).name[Len(Entry(n).name)] = "/"
  <2>1. /\ Entry(0).index = 0 /\ Entry(0).name = <<"/">> /\ Entry(0).type = "5"
        /\ Entry(1).index = 1 /\ Entry(1).name = root_directory_name /\ Entry(1).type = "5"
    BY <1>1, <1>6
  <2>2. Len(<<"/">>) = 1 /\ <<"/">>[1] = "/"
    OBVIOUS
  <2>3. Len(root_directory_name) = 3 /\ root_directory_name[3] = "/"
    BY RootIsAName
  <2>4. \A n \in 0 .. 1 : n = 0 \/ n = 1
    OBVIOUS
  <2> QED
    BY <1>2, <2>1, <2>2, <2>3, <2>4, RootIsBelowSlash
<1>11. ParentHoldsChild
  <2>1. /\ Entry(1).parent = 0 /\ Entry(0).type = "5"
        /\ Entry(0).name = DirectoryOf(Entry(1).name)
    BY <1>1, <1>6, RootIsBelowSlash
  <2>2. \A n \in 1 .. vfs_pointer - 1 : n = 1
    BY <1>6
  <2> QED
    BY <2>1, <2>2 DEF ParentHoldsChild
<1>12. Entry(0).parent = -1 /\ Entry(1).name = root_directory_name
  BY <1>1, <1>6
<1> QED
  BY <1>5, <1>6, <1>8, <1>9, <1>10, <1>11, <1>12 DEF TableInv

\* Every step of tarfs_init keeps the table in order, and nothing else changes it.
LEMMA StepKeepsTableInv ==
  ASSUME ScanInv, TableInv, [TarfsNext]_vars
  PROVE  TableInv'
<1>1. CASE ReadMember
  <2> DEFINE b == p + 1
             name == root_directory_name \o archive[b].name
             new == slot(vfs_pointer, name,
                         get_parent_index(name, IF archive[b].typeflag = "0" THEN 1 ELSE 2),
                         archive[b].bytes, archive[b].typeflag,
                         p * BlockSize + archive[b].bytes, offset')
  <2>1. AtHeader /\ archive' = archive
    BY <1>1 DEF ReadMember
  <2>2. b \in HeadersOf(archive) /\ oct2bin(archive[b].size) = archive[b].bytes
    BY <2>1, NextHeader
  <2>3. p' = p + file_number(archive[b].bytes, archive[b].typeflag)
    BY <1>1, <2>2 DEF ReadMember
  <2>4. offset' \in Int
    <3>1. OffsetFollowsP' /\ p' \in 0 .. Len(archive') - 2 /\ Len(archive') \in Nat
      BY <2>1, StepKeepsScanInv, ArchiveFacts DEF ScanInv
    <3> QED
      BY <3>1 DEF OffsetFollowsP, BlockSize
  <2>5. CASE b \in Listed
    <3>1. archive[b].typeflag \in {"0", "5"}
      BY <2>5 DEF Listed
    <3>2. vfs' = Append(vfs, new)
      BY <1>1, <2>2, <3>1 DEF ReadMember
    <3> QED
      BY <2>1, <2>3, <2>4, <2>5, <3>2, EntryKeepsTableInv
  <2>6. CASE b \notin Listed
    <3>1. archive[b].typeflag \notin {"0", "5"}
      BY <2>2, <2>6 DEF Listed
    <3>2. vfs' = vfs
      BY <1>1, <3>1 DEF ReadMember
    <3> QED
      BY <2>1, <2>3, <2>6, <3>2, LinkKeepsTableInv
  <2> QED
    BY <2>5, <2>6
<1>2. CASE UNCHANGED <<archive, p, vfs>>
  <2>1. Listed' = Listed /\ PlaceOf(p + 1)' = PlaceOf(p + 1) /\ vfs_pointer' = vfs_pointer
    BY <1>2 DEF Listed, HeadersOf, PlaceOf, vfs_pointer
  <2>2. \A b : MemberIsListed(b)' <=> MemberIsListed(b)
    BY <1>2 DEF MemberIsListed, Entry, PlaceOf, Listed, HeadersOf
  <2>3. ParentHoldsChild'
    BY <1>2 DEF TableInv, ParentHoldsChild, Entry, vfs_pointer
  <2> QED
    BY <1>2, <2>1, <2>2, <2>3 DEF TableInv, Entry
<1>3. CASE ~ReadMember
  <2>1. UNCHANGED <<archive, p, vfs>>
    BY <1>3 DEF TarfsNext, tarfs_init, EndOfArchive, get_elf, traverse_tarfs, vars
  <2> QED
    BY <1>2, <2>1
<1> QED
  BY <1>1, <1>3

-----------------------------------------------------------------------------
(* The search *)

\* The blocks of an archive are whole words: every word lies in a block, the w-th
\* of block b is the word WordAt(b, w), and the words before a block lie in the
\* blocks before it.
WordAt(b, w) == WordsPerBlock * (b - 1) + w

LEMMA Words ==
  ASSUME archive \in Archives
  PROVE  /\ ArchiveWords \in Nat /\ WordsPerBlock \in Nat \ {0}
         /\ \A word \in 0 .. ArchiveWords - 1 :
              LET b == word \div WordsPerBlock + 1
                  w == word % WordsPerBlock
              IN  /\ b \in 1 .. Len(archive)
                  /\ w \in 0 .. WordsPerBlock - 1
                  /\ word = WordAt(b, w)
         /\ \A b \in 1 .. Len(archive) : \A w \in 0 .. WordsPerBlock - 1 :
              /\ WordAt(b, w) \in 0 .. ArchiveWords - 1
              /\ WordAt(b, w) \div WordsPerBlock + 1 = b
              /\ WordAt(b, w) % WordsPerBlock = w
         /\ \A b \in 1 .. Len(archive) : \A word \in 0 .. WordAt(b, 0) - 1 :
              word \div WordsPerBlock + 1 \in 1 .. b - 1
<1> DEFINE n == Len(archive)
           d == WordsPerBlock
<1>1. n \in Nat
  BY ArchiveFacts
<1>2. d \in Nat \ {0}
  <2>1. WordSize \in 1 .. 256
    BY WordAssumption
  <2> QED
    BY <2>1 DEF WordsPerBlock, BlockSize
<1>3. ArchiveWords = n * d
  BY DEF ArchiveWords
<1>4. \A b, w : WordAt(b, w) = d * (b - 1) + w
  BY DEF WordAt
<1> HIDE DEF n, d
<1>5. ArchiveWords \in Nat /\ ArchiveWords = d * n
  <2>1. n * d = d * n
    BY <1>1, <1>2
  <2> QED
    BY <1>1, <1>2, <1>3, <2>1, QuotientOfMultiple
<1>6. ASSUME NEW word \in 0 .. ArchiveWords - 1
      PROVE  /\ word \div d + 1 \in 1 .. n
             /\ word % d \in 0 .. d - 1
             /\ word = WordAt(word \div d + 1, word % d)
  <2>1. word \in Nat /\ word < d * n
    BY <1>5
  <2>2. word \div d \in Nat /\ word \div d < n
    BY <1>1, <1>2, <2>1, QuotientBelow
  <2>3. word % d \in 0 .. d - 1 /\ word = d * (word \div d) + (word % d)
    BY <1>2, <2>1, DivisionWithRest
  <2>4. (word \div d + 1) - 1 = word \div d
    BY <2>2
  <2>5. WordAt(word \div d + 1, word % d) = d * (word \div d) + (word % d)
    BY <1>4, <2>4
  <2> QED
    BY <1>1, <2>2, <2>3, <2>5
<1>7. ASSUME NEW b \in 1 .. n, NEW w \in 0 .. d - 1
      PROVE  /\ WordAt(b, w) \in 0 .. ArchiveWords - 1
             /\ WordAt(b, w) \div d + 1 = b
             /\ WordAt(b, w) % d = w
  <2>1. b - 1 \in Nat /\ b \in Nat /\ w \in Nat /\ w < d /\ b <= n
    BY <1>1, <1>2
  <2>2. /\ WordAt(b, w) \in Nat
        /\ WordAt(b, w) \div d = b - 1
        /\ WordAt(b, w) % d = w
    BY <1>2, <1>4, <2>1, QuotientOfSum
  <2>3. d * (b - 1) + d = d * b /\ d * b <= d * n /\ d * (b - 1) \in Nat
    BY <1>1, <1>2, <2>1
  <2>4. WordAt(b, w) < d * n
    BY <1>1, <1>2, <1>4, <1>5, <2>1, <2>3
  <2> QED
    BY <1>5, <2>1, <2>2, <2>4
<1>8. ASSUME NEW b \in 1 .. n, NEW word \in 0 .. WordAt(b, 0) - 1
      PROVE  word \div d + 1 \in 1 .. b - 1
  <2>1. b - 1 \in Nat /\ 0 \in 0 .. d - 1
    BY <1>1, <1>2
  <2>2. WordAt(b, 0) = d * (b - 1) /\ d * (b - 1) \in Nat
    BY <1>2, <1>4, <2>1, QuotientOfMultiple
  <2>3. word \in Nat /\ word < d * (b - 1)
    BY <2>2
  <2>4. word \div d \in Nat /\ word \div d < b - 1
    BY <1>2, <2>1, <2>3, QuotientBelow
  <2> QED
    BY <2>1, <2>4
<1> QED
  BY <1>2, <1>5, <1>6, <1>7, <1>8, Zenon DEF n, d

\* get_elf looks at one word after the other, from the first.
LEMMA StepKeepsSearchInv ==
  ASSUME ScanInv, SearchInv, [TarfsNext]_vars
  PROVE  SearchInv'
<1>1. ArchiveWords \in Nat /\ WordsPerBlock \in Nat \ {0} /\ archive' = archive
  BY Words DEF ScanInv, TarfsNext, tarfs_init, ReadMember, EndOfArchive, get_elf,
               traverse_tarfs, vars
<1>2. /\ ArchiveWords' = ArchiveWords /\ WordsPerBlock' = WordsPerBlock
      /\ filename' = filename => \A word : Matches(word)' = Matches(word)
  BY <1>1 DEF ArchiveWords, WordsPerBlock, Matches, Spells
<1>3. CASE UNCHANGED <<at, filename, elf>> /\ pc' = pc
  BY <1>1, <1>2, <1>3 DEF SearchInv
<1>4. CASE EndOfArchive
  <2>1. /\ pc = "tarfs_init" /\ pc' = "ready"
        /\ at' = at /\ filename' = filename /\ elf' = elf
    BY <1>4 DEF EndOfArchive
  <2>2. filename = Empty
    BY <2>1 DEF SearchInv
  <2> QED
    BY <1>1, <1>2, <2>1, <2>2 DEF SearchInv
<1>5. ASSUME NEW name \in Sought, get_elf(name) PROVE SearchInv'
  <2>1. filename' = name /\ at' = 0 /\ elf' = NULL /\ pc' = "traverse_tarfs"
    BY <1>5 DEF get_elf
  <2> QED
    BY <1>1, <1>2, <2>1 DEF SearchInv
<1>6. CASE traverse_tarfs
  <2>1. /\ pc = "traverse_tarfs" /\ filename' = filename
        /\ elf = NULL /\ at \in 0 .. ArchiveWords
        /\ filename \in Sought \union {Empty}
        /\ \A word \in 0 .. at - 1 : ~Matches(word)
    BY <1>1, <1>6 DEF traverse_tarfs, SearchInv
  <2>2. CASE Found
    <3>1. /\ elf' = at + WordsPerBlock /\ pc' = "ready" /\ at' = at
          /\ at \in 0 .. ArchiveWords - 1 /\ Matches(at)
      BY <1>1, <1>6, <2>1, <2>2 DEF traverse_tarfs, Found
    <3>2. elf' \in WordsPerBlock .. ArchiveWords + WordsPerBlock - 1 /\ elf' # NULL
      BY <1>1, <3>1 DEF NULL
    <3>3. \E found \in 0 .. ArchiveWords - 1 :
            /\ elf' = found + WordsPerBlock
            /\ Matches(found)
            /\ \A word \in 0 .. found - 1 : ~Matches(word)
      BY <2>1, <3>1, Zenon
    <3>4. at' \in 0 .. ArchiveWords + 1
      BY <1>1, <3>1
    <3> QED
      BY <1>1, <1>2, <2>1, <3>1, <3>2, <3>3, <3>4 DEF SearchInv
  <2>3. CASE ~Found
    <3>1. /\ at' = at + 1 /\ elf' = NULL
          /\ pc' = IF at + 1 <= ArchiveWords THEN "traverse_tarfs" ELSE "ready"
      BY <1>6, <2>1, <2>3 DEF traverse_tarfs, Step
    <3>2. at < ArchiveWords => \A word \in 0 .. at : ~Matches(word)
      <4>1. at < ArchiveWords => ~Matches(at)
        BY <2>3 DEF Found
      <4>2. \A word \in 0 .. at : word = at \/ word \in 0 .. at - 1
        BY <1>1, <2>1
      <4> QED
        BY <2>1, <4>1, <4>2
    <3>3. CASE at < ArchiveWords
      <4>1. /\ pc' = "traverse_tarfs" /\ at' <= ArchiveWords
            /\ at' \in 0 .. ArchiveWords + 1 /\ at' - 1 = at
        BY <1>1, <2>1, <3>1, <3>3
      <4> QED
        BY <1>1, <1>2, <2>1, <3>1, <3>2, <3>3, <4>1 DEF SearchInv
    <3>4. CASE ~(at < ArchiveWords)
      <4>1. /\ pc' = "ready" /\ at = ArchiveWords
            /\ at' \in 0 .. ArchiveWords + 1
        BY <1>1, <2>1, <3>1, <3>4
      <4> QED
        BY <1>1, <1>2, <2>1, <3>1, <4>1 DEF SearchInv
    <3> QED
      BY <3>3, <3>4
  <2> QED
    BY <2>2, <2>3
<1> QED
  BY <1>3, <1>4, <1>5, <1>6 DEF TarfsNext, tarfs_init, ReadMember, vars

-----------------------------------------------------------------------------
(* The theorems *)

LEMMA InitInv == TarfsInit => IInv
<1> SUFFICES ASSUME TarfsInit PROVE IInv
  OBVIOUS
<1>1. ScanInv
  <2>1. LaidOut(archive) /\ Len(archive) \in Nat /\ Len(archive) > 1
    BY ArchiveFacts DEF TarfsInit
  <2> QED
    BY <2>1 DEF TarfsInit, ScanInv, OffsetFollowsP, LaidOut, BlockSize
<1>2. TableInv
  BY InitTableInv
<1>3. SearchInv
  <2>1. ArchiveWords \in Nat
    BY Words DEF TarfsInit
  <2> QED
    BY <2>1 DEF TarfsInit, SearchInv
<1> QED
  BY <1>1, <1>2, <1>3 DEF IInv

\* The invariant of the archive: where the cursors of tarfs_init stand, what is in
\* the table so far, and which words get_elf has compared.
THEOREM TarfsInvariant == TarfsSpec => []IInv
<1>1. TarfsInit => IInv
  BY InitInv
<1>2. IInv /\ [TarfsNext]_vars => IInv'
  BY StepKeepsScanInv, StepKeepsTableInv, StepKeepsSearchInv DEF IInv
<1> QED
  BY <1>1, <1>2, PTL DEF TarfsSpec

\* No cursor of tarfs_init or get_elf leaves the archive, and every index in the
\* table is one of an entry.
THEOREM TarfsKeepsTypes == TarfsSpec => []TarfsTypeOK
<1>1. IInv => TarfsTypeOK
  <2> SUFFICES ASSUME IInv PROVE TarfsTypeOK
    OBVIOUS
  <2>1. vfs_pointer \in Nat
    BY LenProperties DEF IInv, TableInv, vfs_pointer
  <2>2. ASSUME NEW n \in 0 .. vfs_pointer - 1
        PROVE  Entry(n).index = n /\ Entry(n).parent \in -1 .. vfs_pointer - 1
    <3>1. CASE n = 0
      BY <2>1, <3>1 DEF IInv, TableInv
    <3>2. CASE n # 0
      <4>1. n \in 1 .. vfs_pointer - 1
        BY <2>1, <3>2
      <4>2. Entry(n).parent \in 0 .. n - 1
        BY <4>1 DEF IInv, TableInv, ParentHoldsChild
      <4> QED
        BY <2>1, <4>1, <4>2 DEF IInv, TableInv
    <3> QED
      BY <3>1, <3>2
  <2> QED
    BY <2>2 DEF IInv, ScanInv, SearchInv, TarfsTypeOK
<1> QED
  BY TarfsInvariant, <1>1, PTL

\* The two cursors of tarfs_init, which round sizes in different ways, stay together.
THEOREM TarfsOffsetFollowsP == TarfsSpec => []OffsetFollowsP
<1>1. IInv => OffsetFollowsP
  BY DEF IInv, ScanInv
<1> QED
  BY TarfsInvariant, <1>1, PTL

\* tarfs_init skips no member and takes no contents for a header.
THEOREM TarfsListsEveryMember == TarfsSpec => []EveryMemberIsListed
<1>1. IInv => EveryMemberIsListed
  <2> SUFFICES ASSUME IInv, pc # "tarfs_init"
               PROVE  /\ vfs_pointer = Cardinality(Listed) + 2
                      /\ \A b \in Listed : MemberIsListed(b)
    BY DEF EveryMemberIsListed, MemberIsListed
  <2> DEFINE n == Len(archive)
  <2>1. /\ archive \in Archives /\ LaidOut(archive) /\ Tree(archive)
        /\ n \in Nat /\ DOMAIN archive = 1 .. n
        /\ \A b \in 1 .. n : archive[b] \in Block
    BY ArchiveFacts DEF IInv, ScanInv
  <2>2. p \in 0 .. n - 2 /\ archive[p + 1].kind # "contents" /\ ~AtHeader
    BY DEF IInv, ScanInv
  <2> HIDE DEF n
  <2>3. p + 1 \in 1 .. n /\ p < n
    BY <2>1, <2>2
  <2>4. archive[p + 1].name = Empty
    BY <2>2, <2>3 DEF AtHeader, n
  <2>5. archive[p + 1].kind # "header"
    <3>1. archive[p + 1].kind = "header" => p + 1 \in HeadersOf(archive)
      BY <2>1, <2>3 DEF HeadersOf
    <3> QED
      BY <2>1, <2>4, <3>1 DEF Tree
  <2>6. archive[p + 1].kind = "zeros"
    BY <2>1, <2>2, <2>3, <2>5 DEF Block
  <2>7. \A c \in p + 1 .. n : archive[c].kind = "zeros"
    BY <2>1, <2>3, <2>6 DEF LaidOut, n
  <2>8. ASSUME NEW b \in Listed PROVE b < p + 1 /\ b <= p
    <3>1. b \in 1 .. n /\ archive[b].kind = "header"
      BY <2>1 DEF Listed, HeadersOf
    <3>2. b \notin p + 1 .. n
      BY <2>7, <3>1
    <3> QED
      BY <2>1, <2>2, <3>1, <3>2
  <2>9. p + 1 \in Int
    BY <2>1, <2>3
  <2>10. PlaceOf(p + 1) = 2 + Cardinality(Listed) /\ PlaceOf(p + 1) \in Nat
    BY <2>1, <2>8, <2>9, Places
  <2>11. Cardinality(Listed) \in Nat
    <3>1. Listed \in SUBSET (1 .. n) /\ IsFiniteSet(1 .. n)
      BY <2>1, FS_Interval DEF Listed, HeadersOf
    <3> QED
      BY <3>1, FS_Subset, FS_CardinalityType, Zenon
  <2>12. vfs_pointer = Cardinality(Listed) + 2
    BY <2>10, <2>11 DEF IInv, TableInv
  <2> QED
    BY <2>8, <2>12 DEF IInv, TableInv
<1> QED
  BY TarfsInvariant, <1>1, PTL

\* The parent indices are a tree: every entry lies in the directory its name says.
THEOREM TarfsParentHoldsChild == TarfsSpec => []ParentHoldsChild
<1>1. IInv => ParentHoldsChild
  BY DEF IInv, TableInv
<1> QED
  BY TarfsInvariant, <1>1, PTL

\* get_elf returns the contents of the file it is asked for unless a block before
\* it spells its name; it never passes over the name, and never returns what does
\* not lie behind it.
THEOREM TarfsFindsUnlessSpeltBefore == TarfsSpec => []GetElfFindsUnlessSpeltBefore
<1>1. IInv => GetElfFindsUnlessSpeltBefore
  <2> SUFFICES ASSUME IInv, pc = "ready", filename # Empty
               PROVE  /\ \A b \in Headers : elf = b * WordsPerBlock \/ SpeltBefore(b)
                      /\ IF elf = NULL
                         THEN ~SpeltBefore(Len(archive) + 1)
                         ELSE \E b \in DOMAIN archive, word \in 0 .. WordsPerBlock - 1 :
                                /\ Spells(archive[b], word, filename)
                                /\ elf = b * WordsPerBlock + word
    BY DEF GetElfFindsUnlessSpeltBefore
  <2> DEFINE n == Len(archive)
             d == WordsPerBlock
  <2>1. archive \in Archives /\ n \in Nat /\ DOMAIN archive = 1 .. n
    BY ArchiveFacts DEF IInv, ScanInv
  <2>2. ArchiveWords \in Nat /\ d \in Nat \ {0}
    BY <2>1, Words
  <2>3. ASSUME NEW word \in 0 .. ArchiveWords - 1
        PROVE  \E b \in 1 .. n, w \in 0 .. d - 1 :
                 /\ b = word \div d + 1 /\ w = word % d /\ word = WordAt(b, w)
                 /\ Matches(word) = Spells(archive[b], w, filename)
    BY <2>1, Words DEF Matches
  <2>4. ASSUME NEW b \in 1 .. n, NEW w \in 0 .. d - 1
        PROVE  /\ WordAt(b, w) \in 0 .. ArchiveWords - 1
               /\ Matches(WordAt(b, w)) = Spells(archive[b], w, filename)
    BY <2>1, Words DEF Matches
  <2>5. ASSUME NEW b \in 1 .. n, NEW word \in 0 .. WordAt(b, 0) - 1
        PROVE  word \div d + 1 \in 1 .. b - 1
    BY <2>1, Words
  <2>6. ASSUME NEW b \in 1 .. n, NEW w \in 0 .. d - 1
        PROVE  WordAt(b, w) \in Int /\ WordAt(b, w) + d = b * d + w
    <3>1. b \in Int /\ w \in Int /\ d \in Int /\ WordAt(b, w) = d * (b - 1) + w
      BY <2>1, <2>2 DEF WordAt
    <3> HIDE DEF d
    <3> QED
      BY <3>1
  <2> HIDE DEF n, d
  <2>7. ASSUME NEW b \in Headers PROVE elf = b * d \/ SpeltBefore(b)
    <3>1. /\ b \in 1 .. n /\ archive[b].name = filename
          /\ 0 \in 0 .. d - 1
      BY <2>1, <2>2 DEF Headers, HeadersOf
    <3>2. Spells(archive[b], 0, filename)
      <4>1. 0 * WordSize = 0
        BY WordAssumption
      <4> QED
        BY <3>1, <4>1 DEF Spells
    <3>3. WordAt(b, 0) \in 0 .. ArchiveWords - 1 /\ Matches(WordAt(b, 0))
      BY <2>4, <3>1, <3>2
    <3>4. PICK found \in 0 .. ArchiveWords - 1 :
            /\ elf = found + d
            /\ Matches(found)
            /\ \A word \in 0 .. found - 1 : ~Matches(word)
      <4>1. elf # NULL
        BY <3>3 DEF IInv, SearchInv
      <4> QED
        BY <4>1 DEF IInv, SearchInv, d
    <3>5. found <= WordAt(b, 0)
      <4>1. WordAt(b, 0) \notin 0 .. found - 1
        BY <3>3, <3>4
      <4> QED
        BY <2>2, <3>3, <4>1
    <3>6. CASE found = WordAt(b, 0)
      <4>1. elf = b * d + 0
        BY <2>6, <3>1, <3>4, <3>6
      <4>2. b * d \in Int
        BY <2>1, <2>2, <3>1
      <4> QED
        BY <4>1, <4>2
    <3>7. CASE found < WordAt(b, 0)
      <4>1. found \in 0 .. WordAt(b, 0) - 1
        BY <2>2, <3>3, <3>7
      <4>2. found \div d + 1 \in 1 .. b - 1
        BY <2>5, <3>1, <4>1
      <4>3. \E c \in 1 .. b - 1, w \in 0 .. d - 1 : Spells(archive[c], w, filename)
        BY <2>3, <3>4, <4>2
      <4> QED
        BY <4>3 DEF SpeltBefore, d
    <3> QED
      BY <2>2, <3>3, <3>5, <3>6, <3>7
  <2>8. ASSUME elf = NULL PROVE ~SpeltBefore(n + 1)
    <3> SUFFICES ASSUME SpeltBefore(n + 1) PROVE FALSE
      OBVIOUS
    <3>1. PICK c \in 1 .. (n + 1) - 1, w \in 0 .. d - 1 : Spells(archive[c], w, filename)
      BY DEF SpeltBefore, d
    <3>2. c \in 1 .. n
      BY <2>1
    <3>3. WordAt(c, w) \in 0 .. ArchiveWords - 1 /\ Matches(WordAt(c, w))
      BY <2>4, <3>1, <3>2
    <3> QED
      BY <2>8, <3>3 DEF IInv, SearchInv
  <2>9. ASSUME elf # NULL
        PROVE  \E b \in 1 .. n, word \in 0 .. d - 1 :
                 Spells(archive[b], word, filename) /\ elf = b * d + word
    <3>1. PICK found \in 0 .. ArchiveWords - 1 : elf = found + d /\ Matches(found)
      BY <2>9 DEF IInv, SearchInv, d
    <3>2. PICK b \in 1 .. n, w \in 0 .. d - 1 :
            found = WordAt(b, w) /\ Matches(found) = Spells(archive[b], w, filename)
      BY <2>3
    <3> QED
      BY <2>6, <3>1, <3>2
  <2> QED
    BY <2>1, <2>7, <2>8, <2>9 DEF n, d
<1> QED
  BY TarfsInvariant, <1>1, PTL
=============================================================================
