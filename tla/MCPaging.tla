------------------------------ MODULE MCPaging ------------------------------
EXTENDS Paging

\* One region, with as many pages from physfree on.
Machine(pages) == << [base |-> 0, length |-> 16, usable |-> TRUE],
                     [base |-> 96, length |-> (pages + 1) * 32, usable |-> TRUE] >>

\* Enough for all processes; not enough for the last one.
Machines == { Machine(76), Machine(55) }

Load(offset_, vaddr, filesz, memsz) ==
    [p_type |-> "PT_LOAD", p_offset |-> offset_, p_vaddr |-> vaddr,
     p_filesz |-> filesz, p_memsz |-> memsz]
Note == [p_type |-> "PT_NOTE", p_offset |-> 0, p_vaddr |-> 0, p_filesz |-> 0, p_memsz |-> 0]

\* Pages 1; 3 and 4, in two tables; 4 and 5, and 6 and 7 from the middle of 6 on;
\* 15 and 17, in different tables of the second level.
GoodBinaries == { <<Load(0, 32, 20, 20)>>,
                  <<Note, Load(0, 96, 40, 50)>>,
                  <<Load(0, 128, 33, 64), Load(20, 212, 18, 20)>>,
                  <<Load(0, 480, 9, 9), Note, Load(33, 545, 30, 31)>> }

\* A page shared with the end of an earlier segment, or with its start; nothing
\* to load; a part of the file far away.
BadBinaries == { <<Load(0, 32, 40, 40), Load(40, 72, 8, 8)>>,
                 <<Load(0, 192, 10, 10), Load(20, 180, 30, 30)>>,
                 <<Note>>,
                 <<Load(0, 32, 20, 20), Load(64, 64, 20, 20)>> }

AllBinaries == GoodBinaries \union BadBinaries
=============================================================================
