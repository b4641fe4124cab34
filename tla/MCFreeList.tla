---------------------------- MODULE MCFreeList ----------------------------
EXTENDS FreeList

\* Bytes are scaled: a page is 4 bytes, a descriptor 1, so that lists of a few
\* pages need one or two pages of descriptors.
R(b, e, u) == [base |-> b, length |-> e - b, usable |-> u]

Low == R(0, 2, TRUE)        \* conventional memory, below the kernel
Rom == R(2, 4, FALSE)

\* One region holds the kernel and all the memory above it, page-aligned.
AlignedMaps == { <<Low, Rom, R(4, 4 * e, TRUE)>> : e \in 3..12 }

\* As many regions as the loop can meet, any alignment, a hole after each.
GappedMaps ==
    { <<Low, Rom, R(4, e, TRUE), R(e + h, e + h + n, u), R(e + h + n + 8, e + h + n + 17, TRUE)>> :
        e \in {13, 16, 18, 47}, h \in {4, 5, 8}, n \in 0..9, u \in BOOLEAN }

SeparateMaps == AlignedMaps \union GappedMaps

\* Regions that meet on a page boundary.
AdjacentMaps == { <<Low, Rom, R(4, 16, TRUE), R(16, 24, TRUE), R(24, 32, TRUE)>> }
=============================================================================
