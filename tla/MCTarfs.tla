------------------------------ MODULE MCTarfs ------------------------------
EXTENDS Tarfs

AllParts == {"/", "rootfs", "bin", "sub", "old", "sbush", "ls", "sh", "cat", "libc.a", "?"}
Nothing == <<"?">>

bin == <<"bin", "/">>
old == bin \o <<"old", "/">>
sub == bin \o <<"sub", "/">>
sbush == bin \o <<"sbush">>
ls == sub \o <<"ls">>
libc == <<"libc.a">>

\* tar writes sizes as octal digits.
Octal[n \in Nat] == IF n < 8 THEN <<n>> ELSE Append(Octal[n \div 8], n % 8)

Header(member) == [kind |-> "header", name |-> member.name, typeflag |-> member.typeflag,
                   size |-> Octal[member.size], bytes |-> member.size,
                   spells |-> member.fields]
\* Contents taken for a header would make an entry.  They spell at bytes the scan
\* compares and at one that it does not.
Contents(spelt) == [kind |-> "contents", name |-> Nothing, typeflag |-> "0",
                    size |-> Octal[0], bytes |-> 0,
                    spells |-> {<<12, sbush>>, <<40, spelt>>}]
Zeros == [kind |-> "zeros", name |-> Empty, typeflag |-> "NUL", size |-> <<>>, bytes |-> 0,
          spells |-> {}]

\* tar writes a header and the contents for each member, then two empty blocks.
Blocks(members) ==
  FlattenSeq([k \in DOMAIN members |->
    <<Header(members[k])>>
      \o [j \in 1 .. BlocksOf(members[k].size) |-> Contents(members[k].spells)]])
    \o <<Zeros, Zeros>>

Directory(name) == [name |-> name, typeflag |-> "5", size |-> 0, spells |-> Nothing, fields |-> {}]
File(name, size, spells) ==
  [name |-> name, typeflag |-> "0", size |-> size, spells |-> spells, fields |-> {}]
\* linkname begins at byte 157: behind its "../" is a byte that is compared.
Link(name, up) == [name |-> name, typeflag |-> "2", size |-> 0, spells |-> Nothing,
                   fields |-> {<<160, up>>}]

\* The bytes of a name, and what is left of it behind some of them: nothing that
\* is sought if they end inside of a part.
PartBytes == [part \in AllParts |->
                CASE part \in {"/", "?"} -> 1
                  [] part \in {"ls", "sh"} -> 2
                  [] part \in {"bin", "sub", "old", "cat"} -> 3
                  [] part = "sbush" -> 5
                  [] part \in {"rootfs", "libc.a"} -> 6]
BytesOf(name) == FoldLeft(LAMBDA n, part : n + PartBytes[part], 0, name)
RestOf(name, n) ==
  LET cuts == {k \in 0 .. Len(name) : BytesOf(SubSeq(name, 1, k)) = n}
  IN  IF n >= BytesOf(name) THEN Empty
      ELSE IF cuts = {} THEN Nothing
      ELSE SubSeq(name, (CHOOSE k \in cuts : TRUE) + 1, Len(name))

\* Empty, one byte, a byte less than a block, a block, a byte more.
Sizes == {0, 1, 511, 512, 513}

\* Orders in which find may list one tree: a directory before what it holds.  In
\* some there is an earlier shell, before the shell or behind it, or a link to it.
Trees(a, b, c) ==
  LET earlier == <<Directory(old), Directory(old \o bin), File(old \o sbush, 1, Nothing)>>
      first   == <<Directory(bin), a, Directory(sub), b>>
      link    == <<Directory(bin), Link(bin \o <<"sh">>, sbush)>>
  IN  {first \o <<c>>,
       <<Directory(bin), Directory(sub), b, a, c>>,
       first \o earlier \o <<c>>,
       <<c, Directory(bin)>> \o earlier \o <<Directory(sub), b, a>>,
       link \o <<Directory(sub), b, a, c>>}

SizesTogether == UNION {{<<m, 512, 1>>, <<1, m, 512>>, <<513, 0, m>>} : m \in Sizes}

SmallArchives ==
  {Blocks(members) : members \in
     UNION {Trees(File(sbush, s[1], Nothing), File(ls, s[2], x), File(libc, s[3], y)) :
              s \in SizesTogether, x \in {Nothing, sbush}, y \in {Nothing, ls}}}

SoughtNames == {sbush, ls, <<"ls">>, bin \o <<"cat">>}
=============================================================================
