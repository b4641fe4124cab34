---------------------------------- MODULE Elf ----------------------------------
(***************************************************************************)
(* ELF files as the kernel takes them: sys/elf64.c, which makes a list of  *)
(* memory areas of the program headers, and the arithmetic with which      *)
(* create_process in sys/task.c says where an area is mapped and what is   *)
(* copied there.                                                           *)
(*                                                                         *)
(* A file is the sequence of its program headers.  Of its bytes only the   *)
(* place counts, from the ELF header on; the kernel does not know where a  *)
(* file ends.  validate_elf_header is left out: start and exec_new_binary  *)
(* overwrite its result with that of check_elf_loadable.                   *)
(***************************************************************************)
EXTENDS FreeList

CONSTANTS WordBytes,    \* sizeof(uint64_t), what elf_head points to
          Readable      \* bytes mapped from an ELF header on

IsLoad(phdr) == phdr.p_type = "PT_LOAD"
Loads(file) == SelectSeq(file, IsLoad)

check_elf_loadable(file) == \E i \in DOMAIN file : IsLoad(file[i])

\* The areas of type TYPE_FILE, in the order of the headers.  One for the stack
\* and one for the heap come behind them.
vmas(file) ==
    [i \in DOMAIN Loads(file) |->
       LET phdr == Loads(file)[i]
       IN  [vm_start |-> phdr.p_vaddr, vm_end |-> phdr.p_vaddr + phdr.p_memsz,
            vm_offset |-> phdr.p_offset]]

\* Of an area: its first page, and its size in pages.
vm_start(vma) == vma.vm_start \div PAGESIZE

\* Mutants: a page more, as kmalloc_user takes; an area that starts at a page.
Mutant_vm_size(vma) == round_up(vma.vm_end - vm_start(vma) * PAGESIZE) + 1
Mutant_vm_size_Unaligned(vma) == round_up(vma.vm_end - vma.vm_start)

vm_size(vma) == round_up(vma.vm_end - vm_start(vma) * PAGESIZE)

\* Mutant: the words before elf_head count as well.
Mutant_offset(vma) == WordBytes * (vma.vm_offset + 1)

\* Where the copy of an area starts: elf_head is a pointer to words and vm_offset
\* a number of bytes.
offset(vma) == WordBytes * vma.vm_offset

\* The pages an area fills, and the part of the file each is filled with.
PagesOf(vma) == vm_start(vma) .. (vm_start(vma) + vm_size(vma) - 1)
PartFor(vma, page) == offset(vma) + (page - vm_start(vma)) * PAGESIZE

CopyIsReadable(vma) == offset(vma) + vm_size(vma) * PAGESIZE <= Readable
=============================================================================
