-------------------------------- MODULE Tarfs --------------------------------
(***************************************************************************)
(* The archive linked into the SBUnix kernel (sys/tarfs.c).  tarfs_init    *)
(* walks the headers at boot and makes the table vfs, a tree of parent     *)
(* indices; get_elf, which boot and exec_new_binary call, does not use the *)
(* table: it scans the archive for the name, 8 bytes at a time.            *)
(*                                                                         *)
(* An archive is a sequence of blocks, a header or 512 bytes of contents   *)
(* to a block.  A file name is a sequence of its parts, "/" among them,    *)
(* and is shorter than the 100 bytes a header has for it.  The name of a   *)
(* block is the string at its first byte, and the bytes of a header are    *)
(* what its size, in octal digits, spells.                                 *)
(*                                                                         *)
(* The scan does not know headers: strcmp compares the name it seeks with  *)
(* the string at every 8th byte, and so with what is left of a header's    *)
(* name behind its first 8, 16, ... bytes, with the header's later fields  *)
(* and with contents.                                                      *)
(***************************************************************************)
EXTENDS Integers, Sequences, FiniteSets, SequencesExt

CONSTANTS
  Parts,      \* what file names are made of
  Archives,   \* the archives considered, each a sequence of blocks
  Sought,     \* the file names get_elf is called with
  WordSize,   \* the step of traverse_tarfs, 8
  Rest(_, _)  \* Rest(name, n) is what is left of a name behind its first n bytes

ASSUME WordAssumption == WordSize \in 1 .. 256

BlockSize == 512     \* sizeof(struct posix_header_ustar)
NameBytes == 100     \* of which its name has so many
NULL == -1           \* an address no header has
Empty == <<>>        \* the name in a block of zeros
root_directory_name == <<"/", "rootfs", "/">>

\* int is wide enough: sizes stay below 2 GiB.
oct2bin(str) == FoldLeft(LAMBDA n, digit : 8 * n + digit, 0, str)

-----------------------------------------------------------------------------
(* The archive in memory, as tar writes it *)

Name == Seq(Parts)
ASSUME NamesAssumption ==
  {"/", "rootfs"} \subseteq Parts /\ \A name \in Sought : name \in Name /\ name # Empty

\* A block spells, at some of its bytes behind the name, strings that may be a
\* file name: the later fields of a header, like linkname, and contents do.
Block == [kind : {"header", "contents", "zeros"}, name : Name,
          typeflag : {"0", "2", "5", "NUL"}, size : Seq(0 .. 7), bytes : Nat,
          spells : SUBSET ((1 .. BlockSize - 1) \X Name)]

HeadersOf(blocks) == {b \in DOMAIN blocks : blocks[b].kind = "header"}

BlocksOf(size) == (size + BlockSize - 1) \div BlockSize

\* Behind a header lie its contents, and behind them the next header or the end:
\* two blocks of zeros or more.
LaidOut(blocks) ==
  /\ blocks \in Seq(Block)
  /\ Len(blocks) > 1
  /\ blocks[1].kind # "contents"
  /\ blocks[Len(blocks) - 1].kind = "zeros"
  /\ \A b \in DOMAIN blocks :
       blocks[b].kind = "zeros" =>
         /\ blocks[b].name = Empty /\ blocks[b].spells = {}
         /\ \A c \in b .. Len(blocks) : blocks[c].kind = "zeros"
  /\ \A b \in HeadersOf(blocks) :
       LET next == b + BlocksOf(blocks[b].bytes) + 1
       IN  /\ \A spelt \in blocks[b].spells : spelt[1] >= NameBytes
           /\ next < Len(blocks)
           /\ blocks[next].kind # "contents"
           /\ \A c \in b + 1 .. next - 1 : blocks[c].kind = "contents"

\* The places of the slashes a name has before its end.
InnerSlashes(name) == {k \in 1 .. Len(name) - 1 : name[k] = "/"}

\* A name lies in the directory with the longest name that it extends.
DirectoryOf(name) ==
  SubSeq(name, 1, CHOOSE k \in InnerSlashes(name) : \A j \in InnerSlashes(name) : j <= k)

\* The members are a tree: names are unique, those of directories end with a slash,
\* and a directory comes before what lies in it.  (find lists it so.)
Tree(blocks) ==
  \A b \in HeadersOf(blocks) :
    LET header == blocks[b]
    IN  /\ header.name # Empty
        /\ header.typeflag # "NUL"
        /\ header.typeflag = "5" <=> header.name[Len(header.name)] = "/"
        /\ \A c \in HeadersOf(blocks) : blocks[c].name = header.name => c = b
        /\ InnerSlashes(header.name) # {} =>
             \E c \in HeadersOf(blocks) : c < b /\ blocks[c].name = DirectoryOf(header.name)

\* What tar has written in octal reads back as the number it was.
SizesReadBack(blocks) ==
  \A b \in HeadersOf(blocks) : oct2bin(blocks[b].size) = blocks[b].bytes

ASSUME ArchivesAssumption ==
  \A blocks \in Archives : LaidOut(blocks) /\ Tree(blocks) /\ SizesReadBack(blocks)

VARIABLES
  archive,
  p,            \* the header tarfs_init looks at, counted in blocks
  offset,
  vfs,          \* the entries 0 .. vfs_pointer - 1
  pc,
  at,           \* the word traverse_tarfs looks at
  filename,     \* the argument of get_elf
  elf           \* its result, counted in words

vars == <<archive, p, offset, vfs, pc, at, filename, elf>>

vfs_pointer == Len(vfs)
Entry(n) == vfs[n + 1]

slot(nindex, nname, nparent, nsize, ntype, naddress, noffset) ==
  [name |-> nname, parent |-> nparent, size |-> nsize, type |-> ntype,
   address |-> naddress, index |-> nindex, offset |-> noffset]

TarfsInit ==
  /\ archive \in Archives
  \* The two roots: their type is 5 where the headers say '5'.
  /\ vfs = <<slot(0, <<"/">>, -1, 0, "5", 0, 0),
             slot(1, root_directory_name, 0, 0, "5", 0, BlockSize)>>
  /\ offset = BlockSize
  /\ p = 0
  /\ pc = "tarfs_init"
  /\ at = 0
  /\ filename = Empty
  /\ elf = NULL

-----------------------------------------------------------------------------
(* tarfs_init *)

Slashes(name) == {k \in DOMAIN name : name[k] = "/"}

\* Mutant: the name of a directory is cut at its own slash.
Mutant_UpToSlash(name, slice_count) ==
  SubSeq(name, 1, CHOOSE k \in Slashes(name) : \A j \in Slashes(name) : j <= k)

\* The name up to its slice_count-th slash from the end.  Names begin with
\* root_directory_name, so there always is one and get_parent_index does not
\* get to its "return -1".
UpToSlash(name, slice_count) ==
  SubSeq(name, 1,
         CHOOSE k \in Slashes(name) :
           Cardinality({j \in Slashes(name) : j >= k}) = slice_count)

get_parent_index(file_name, slice_count) ==
  LET named == {n \in 0 .. vfs_pointer - 1 : Entry(n).name = UpToSlash(file_name, slice_count)}
  IN  IF named = {} THEN -2 ELSE CHOOSE n \in named : \A other \in named : n <= other

\* Mutant: the end of the archive is not noticed by its empty names.
Mutant_AtHeader == p < Len(archive)

AtHeader == p < Len(archive) /\ archive[p + 1].name # Empty

\* Mutant: a size that is a multiple of the block is rounded up as well.
Mutant_Rounded(size) == size + (BlockSize - (size % BlockSize)) + BlockSize

\* How far offset moves: over the contents, rounded up, and the next header.
Rounded(size) ==
  IF size = 0 \/ size % BlockSize = 0
  THEN size + BlockSize
  ELSE size + (BlockSize - (size % BlockSize)) + BlockSize

\* Mutant: the size is rounded down.
Mutant_file_number(size, typeflag) == size \div BlockSize + 1

\* How many blocks p moves.
file_number(size, typeflag) ==
  (size + BlockSize - 1) \div BlockSize + 1 + (IF typeflag = "NUL" THEN 1 ELSE 0)

\* One member: files and directories get an entry, other types none.
ReadMember ==
  /\ pc = "tarfs_init"
  /\ AtHeader
  /\ LET header == archive[p + 1]
         size == oct2bin(header.size)
         name == root_directory_name \o header.name
         parent == get_parent_index(name, IF header.typeflag = "0" THEN 1 ELSE 2)
     IN  /\ offset' = offset + Rounded(size)
         /\ p' = p + file_number(size, header.typeflag)
         /\ vfs' = IF header.typeflag \in {"0", "5"}
                   THEN Append(vfs, slot(vfs_pointer, name, parent, size, header.typeflag,
                                         p * BlockSize + size, offset'))
                   ELSE vfs
  /\ UNCHANGED <<archive, pc, at, filename, elf>>

EndOfArchive ==
  /\ pc = "tarfs_init"
  /\ ~AtHeader
  /\ pc' = "ready"
  /\ UNCHANGED <<archive, p, offset, vfs, at, filename, elf>>

tarfs_init == ReadMember \/ EndOfArchive

-----------------------------------------------------------------------------
(* The lookups in vfs *)

tar_get_index(name) ==
  LET named == {n \in 0 .. vfs_pointer - 1 : Entry(n).name = name}
  IN  IF named = {} THEN -1 ELSE CHOOSE n \in named : \A other \in named : n <= other

tar_lookup(name) ==
  IF tar_get_index(name) = -1 THEN NULL ELSE Entry(tar_get_index(name)).address

-----------------------------------------------------------------------------
(* get_elf *)

WordsPerBlock == BlockSize \div WordSize
ArchiveWords == Len(archive) * WordsPerBlock

\* Mutant: the search steps over whole blocks, one too many.
Mutant_Step == 2 * WordsPerBlock

Step == 1

\* strcmp finds the name at a word of a block: it is the string a block begins
\* with, or what is left of a header's name there, or is spelt behind that.
Spells(block, word, name) ==
  LET byte == word * WordSize
  IN  \/ byte = 0 /\ block.name = name
      \/ byte \in 1 .. NameBytes - 1 /\ block.kind = "header" /\ Rest(block.name, byte) = name
      \/ <<byte, name>> \in block.spells

Matches(word) == Spells(archive[word \div WordsPerBlock + 1], word % WordsPerBlock, filename)

get_elf(name) ==
  /\ pc = "ready"
  /\ filename' = name
  /\ at' = 0
  /\ elf' = NULL
  /\ pc' = "traverse_tarfs"
  /\ UNCHANGED <<archive, p, offset, vfs>>

\* The loop also looks at &_binary_tarfs_end, where the archive has ended.
Found == at < ArchiveWords /\ Matches(at)

\* One comparison of traverse_tarfs, and with the last the end of get_elf, which
\* takes the word for a header and returns what is 512 bytes behind it.
traverse_tarfs ==
  /\ pc = "traverse_tarfs"
  /\ IF Found
     THEN /\ elf' = at + WordsPerBlock
          /\ pc' = "ready"
          /\ UNCHANGED at
     ELSE /\ at' = at + Step
          /\ pc' = IF at + Step <= ArchiveWords THEN "traverse_tarfs" ELSE "ready"
          /\ UNCHANGED elf
  /\ UNCHANGED <<archive, p, offset, vfs, filename>>

TarfsNext ==
  \/ tarfs_init
  \/ \E name \in Sought : get_elf(name)
  \/ traverse_tarfs

TarfsSpec == TarfsInit /\ [][TarfsNext]_vars

-----------------------------------------------------------------------------
(* Properties *)

\* The table grows by whole entries and both cursors stay inside the archive.
TarfsTypeOK ==
  /\ pc \in {"tarfs_init", "ready", "traverse_tarfs"}
  /\ p \in 0 .. Len(archive) - 2
  /\ at \in 0 .. ArchiveWords + 1
  /\ elf \in {NULL} \union WordsPerBlock .. ArchiveWords + WordsPerBlock - 1
  /\ \A n \in 0 .. vfs_pointer - 1 :
       Entry(n).index = n /\ Entry(n).parent \in -1 .. vfs_pointer - 1

\* The two cursors of tarfs_init round sizes in different ways and yet stay
\* together: offset is where the contents behind the header at p begin.
OffsetFollowsP == offset = (p + 1) * BlockSize

\* The members tarfs_init lists, files and directories, and the place of each.
Listed == {b \in HeadersOf(archive) : archive[b].typeflag \in {"0", "5"}}
PlaceOf(b) == 2 + Cardinality({c \in Listed : c < b})

\* When tarfs_init ends, no member was skipped and no contents were taken for a
\* header: after the two entries for the roots come the files and directories of
\* the archive, in its order and with their sizes.
EveryMemberIsListed ==
  pc # "tarfs_init" =>
    /\ vfs_pointer = Cardinality(Listed) + 2
    /\ \A b \in Listed :
         /\ Entry(PlaceOf(b)).name = root_directory_name \o archive[b].name
         /\ Entry(PlaceOf(b)).type = archive[b].typeflag
         /\ Entry(PlaceOf(b)).size = archive[b].bytes

\* The parent indices make vfs a tree below "/": each entry's parent is an
\* earlier entry, and is the directory that holds it, so tar_ls, which looks for
\* the entries with a given parent, lists what lies directly in a directory.
ParentHoldsChild ==
  \A n \in 1 .. vfs_pointer - 1 :
    LET parent == Entry(n).parent
    IN  /\ parent \in 0 .. n - 1
        /\ Entry(parent).type = "5"
        /\ Entry(parent).name = DirectoryOf(Entry(n).name)

Headers == {b \in HeadersOf(archive) : archive[b].name = filename}
SpeltBefore(b) ==
  \E c \in 1 .. b - 1, word \in 0 .. WordsPerBlock - 1 : Spells(archive[c], word, filename)

\* get_elf returns the contents of the file it is asked for, whatever lies in the
\* archive before it, unless a block before it spells the file's name as well: a
\* longer name that ends in it (bin/old/bin/sbush for bin/sbush) or another field
\* at one of the compared bytes, or contents.  It returns NULL only if no block
\* spells the name, and otherwise an address 512 bytes behind one that does.
GetElfFindsUnlessSpeltBefore ==
  (pc = "ready" /\ filename # Empty) =>
    /\ \A b \in Headers : elf = b * WordsPerBlock \/ SpeltBefore(b)
    /\ IF elf = NULL
       THEN ~SpeltBefore(Len(archive) + 1)
       ELSE \E b \in DOMAIN archive, word \in 0 .. WordsPerBlock - 1 :
              Spells(archive[b], word, filename) /\ elf = b * WordsPerBlock + word

\* tarfs.c:88 calls address, which tar_lookup returns, the "start address of
\* file contents": those begin one header behind the member's own.
AddressIsStartOfContents ==
  pc # "tarfs_init" =>
    \A b \in {c \in Listed : archive[c].bytes > 0} :
      tar_lookup(root_directory_name \o archive[b].name) = b * BlockSize
=============================================================================
