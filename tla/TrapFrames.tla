------------------------------ MODULE TrapFrames ------------------------------
(***************************************************************************)
(* Traps into SBUnix and back, word by word: the stubs of sys/isr.s and    *)
(* sys/irq.s, the gates of sys/idt.c, the handlers of sys/isr.c that read  *)
(* the frame as a struct registers, the switch of stacks in the middle of  *)
(* generate_timer, and the frames sys/schedule.c crafts by index so that a *)
(* process that never trapped can be "returned" to.  Scheduler counts      *)
(* frames and decides who runs; here anyone may be next, and a frame is    *)
(* made of its words.                                                      *)
(*                                                                         *)
(* Words are tagged tuples.  A kernel stack pointer is <<"kstack", p, k>>, *)
(* the address of pcb p's kstack[k]; words below the stack pointer are     *)
(* forgotten when a trap returns.  A step runs from one rip to the next: a *)
(* trap up to its handler, a handler up to its ret, the pops of a stub,    *)
(* the iretq, which may fault.                                             *)
(***************************************************************************)
EXTENDS Integers, Sequences, SequencesExt

CONSTANTS
  Users, Idle, Boot,  \* the pcbs, and the stack start() runs on
  Exceptions, Irqs,   \* the vectors considered, of 0 .. 31 and of 33 .. 47
  SyscallNumbers,     \* what programs put into rax
  TicksPerSlice,      \* 180
  TimerPushes,        \* the words the compiled generate_timer pushes, 1
  CallWords           \* the words syscall_handler and getstring use

ASSUME VectorsAssumption == Exceptions \subseteq 0 .. 31 /\ Irqs \subseteq 33 .. 47
ASSUME PcbsAssumption == Idle \notin Users /\ Boot \notin Users \union {Idle}
ASSUME CountsAssumption ==
  TicksPerSlice \in Nat \ {0, 1} /\ TimerPushes \in Nat /\ CallWords \in Nat

Procs == Users \union {Idle}
Top == 511            \* kstack has 512 words; element 0 begins a page
Timer == 32
Syscall == 128

Num(n) == <<"num", n>>
KernelCode == Num(8)
UserCode == Num(43)
KStack(p, k) == <<"kstack", p, k>>
Flags(interrupts) == <<"flags", interrupts>>
At(place) == <<"at", place>>
Code(p) == <<"code", p>>

VARIABLES
  cpu,          \* the registers, rip, cs, flags, rsp and ss
  stack,        \* the words in use of each kernel stack
  current,      \* currently_running_process
  saved_rsp,    \* pcb.rsp
  tss_rsp0,
  timer_ticks,
  in_service,   \* the interrupts the controller waits to be told the end of
  context,      \* history: what each process was interrupted in, and by which vector,
                \* innermost last
  faulted       \* history: an exception has occurred

vars == <<cpu, stack, current, saved_rsp, tss_rsp0, timer_ticks, in_service, context, faulted>>

-----------------------------------------------------------------------------
(* What the stubs push and pop *)

PushOrder == <<"rdi", "rax", "rbx", "rcx", "rdx", "rbp", "rsi",
               "r8", "r9", "r10", "r11", "r12", "r13", "r14", "r15">>
Mutant_PopOrder == <<"r15", "r14", "r13", "r12", "r11", "r10", "r9", "r8",
                     "rsi", "rdx", "rbp", "rcx", "rbx", "rax", "rdi">>
PopOrder == <<"r15", "r14", "r13", "r12", "r11", "r10", "r9", "r8",
              "rsi", "rbp", "rdx", "rcx", "rbx", "rax", "rdi">>
Registers == ToSet(PushOrder)

\* struct registers, from the address in rdi upwards.
Mutant_registers == <<"r15", "r14", "r13", "r12", "r11", "r10", "r9", "r8",
                      "rsi", "rbp", "rdx", "rcx", "rbx", "rdi", "rax",
                      "int_no", "err_code", "rip", "cs", "rflags", "useresp", "ss">>
registers == <<"r15", "r14", "r13", "r12", "r11", "r10", "r9", "r8",
               "rsi", "rbp", "rdx", "rcx", "rbx", "rax", "rdi",
               "int_no", "err_code", "rip", "cs", "rflags", "useresp", "ss">>

\* The exceptions for which the processor pushes an error code.
ErrorCode == {8, 10, 11, 12, 13, 14, 17}
\* Mutant: no dummy for 13, 14 and 17 either.
Mutant_PushesDummy(v) == v \notin ErrorCode
PushesDummy(v) == v \notin {8, 10, 11, 12}

stub(v) ==
  CASE v < Timer   -> "isr_common_stub"
    [] v = Timer   -> "irq0"
    [] v = Syscall -> "irq128"
    [] OTHER       -> "irq_common_stub"

StubWords(v) ==
  IF v = Timer THEN <<>>
  ELSE (IF PushesDummy(v) THEN <<Num(0)>> ELSE <<>>) \o <<Num(v)>>

\* The idle process starts at the call in irq0, user processes behind it.
TheCall == At("irq0+0x1b")
Return(name) == IF name = "irq0" THEN At("irq0+0x20") ELSE At(name)

\* The handler a stub calls.
handler(v) ==
  CASE v < Timer   -> At("fault_handler")
    [] v = Timer   -> At("generate_timer")
    [] v = Syscall -> At("syscall_handler")
    [] OTHER       -> At("irq_handler")

\* Word j of words goes to index sp - j.
Pushed(mem, sp, words) ==
  [k \in DOMAIN mem \union (sp - Len(words)) .. (sp - 1) |->
     IF k \in (sp - Len(words)) .. (sp - 1) THEN words[sp - k] ELSE mem[k]]

rspOwner == cpu.rsp[2]
rspIndex == cpu.rsp[3]
Mem == stack[rspOwner]

-----------------------------------------------------------------------------
(* Crafted frames *)

\* What a process finds in its registers at its start: its pcb's page.
Fresh(p) == [q \in Registers |-> <<"page", p>>]

schedule_user_process(p) ==
  [k \in 490 .. Top |->
     CASE k = 511 -> Num(35) [] k = 510 -> <<"pstack", p>> [] k = 509 -> Flags(TRUE)
       [] k = 508 -> UserCode [] k = 507 -> Code(p) [] k = 507 - 16 -> Return("irq0")
       [] OTHER -> <<"page", p>>]

schedule_idle_process ==
  [k \in 490 .. Top |->
     CASE k = 511 -> Num(16) [] k = 510 -> KStack(Idle, 511) [] k = 509 -> Flags(TRUE)
       [] k = 508 -> KernelCode [] k = 507 -> Code(Idle) [] k = 507 - 16 -> TheCall
       [] OTHER -> <<"page", Idle>>]

\* What create_process and main.c mean a process to start with.
StartOf(p) ==
  [regs |-> Fresh(p), rip |-> Code(p), flags |-> Flags(TRUE),
   cs |-> IF p = Idle THEN KernelCode ELSE UserCode,
   rsp |-> IF p = Idle THEN KStack(p, Top) ELSE <<"pstack", p>>,
   ss |-> Num(IF p = Idle THEN 16 ELSE 35)]

Init ==
  /\ cpu = [regs |-> Fresh(Boot), rip |-> Code(Boot), cs |-> KernelCode, flags |-> Flags(TRUE),
            rsp |-> KStack(Boot, Top), ss |-> Num(16)]
  /\ stack = [p \in Procs \union {Boot} |->
                IF p \in Users THEN schedule_user_process(p)
                ELSE IF p = Idle THEN schedule_idle_process ELSE [k \in {} |-> Num(0)]]
  /\ current = Boot
  /\ saved_rsp = [p \in Procs |-> KStack(p, 507 - 17)]
  /\ tss_rsp0 = KStack(Boot, Top)
  /\ timer_ticks = 0
  /\ in_service = [master |-> {}, slave |-> {}]
  /\ context = [p \in Procs \union {Boot} |-> IF p = Boot THEN <<>> ELSE <<[cpu |-> StartOf(p), vector |-> Timer]>>]
  /\ faulted = FALSE

-----------------------------------------------------------------------------
(* The interrupt controller *)

Master(v) == IF v < 40 THEN v - 32 ELSE 2
NoneInService == [master |-> {}, slave |-> {}]

\* It holds back what is not more urgent than what it has delivered.
Deliverable(v) ==
  /\ \A line \in in_service.master : Master(v) < line
  /\ v >= 40 => \A line \in in_service.slave : v - 32 < line

Delivered(v) == [master |-> in_service.master \union {Master(v)},
                 slave |-> in_service.slave \union (IF v < 40 THEN {} ELSE {v - 32})]

\* A nonspecific end of interrupt is for the most urgent one in service.
Ended(lines) == {line \in lines : \E other \in lines : other < line}
EndOfInterrupt(service) == [service EXCEPT !.master = Ended(@)]

-----------------------------------------------------------------------------
(* Traps *)

\* The words a trap in c leaves, first pushed first: the processor's, the stub's, and
\* the return address of the call.
TrapWords(c, v) ==
  <<c.ss, c.rsp, c.flags, c.cs, c.rip>>
  \o (IF v \in ErrorCode THEN << <<"error", v>> >> ELSE <<>>)
  \o StubWords(v)
  \o [k \in 1 .. Len(PushOrder) |-> c.regs[PushOrder[k]]]
  \o <<Return(stub(v))>>

\* The processor, the stub, and the call of the handler, for a trap in c.  The
\* processor aligns the stack pointer; the C code of a handler may change any
\* register.
Trap(c, v) ==
  LET fromUser == c.cs = UserCode
      base == IF fromUser THEN tss_rsp0 ELSE c.rsp
      sp == base[3] - (base[3] % 2)
      words == TrapWords(c, v)
      rsp == KStack(base[2], sp - Len(words))
  IN  /\ stack' = [stack EXCEPT ![base[2]] = Pushed(@, sp, words)]
      /\ cpu' = [regs |-> [q \in Registers |-> IF q = "rdi" THEN KStack(rsp[2], rsp[3] + 1)
                                               ELSE <<"kernel", q>>],
                 rip |-> handler(v), cs |-> KernelCode, flags |-> Flags(FALSE),
                 rsp |-> rsp, ss |-> IF fromUser THEN Num(0) ELSE c.ss]
      /\ context' = [context EXCEPT ![current] = Append(@, [cpu |-> c, vector |-> v])]
      /\ UNCHANGED <<current, saved_rsp, tss_rsp0, timer_ticks>>

\* A process, or the kernel on its behalf with interrupts on, executes.
InCode == cpu.rip[1] \in {"code", "getstring"}

\* Kernel code moves its stack pointer by a word, so traps find it aligned or not.
Run ==
  /\ InCode
  /\ \E rsp \in IF cpu.rip = Code(Idle) THEN {KStack(Idle, Top), KStack(Idle, Top - 1)} ELSE {cpu.rsp} :
       cpu' = [cpu EXCEPT !.regs = [q \in Registers |-> <<"value", q, cpu.rip>>], !.rsp = rsp]
  /\ UNCHANGED <<stack, current, saved_rsp, tss_rsp0, timer_ticks, in_service, context, faulted>>

Interrupt(v) ==
  /\ cpu.flags = Flags(TRUE)
  /\ Deliverable(v)
  /\ in_service' = Delivered(v)
  /\ Trap(cpu, v)
  /\ UNCHANGED faulted

\* Exceptions strike programs, and the kernel where it uses their pointers.
Exception(v) ==
  /\ InCode \/ cpu.rip = At("syscall_handler")
  /\ faulted' = TRUE
  /\ Trap(IF InCode THEN cpu ELSE [cpu EXCEPT !.rsp = KStack(cpu.rsp[2], @[3] - CallWords)], v)
  /\ UNCHANGED in_service

\* int 0x80, with the number in rax.
SystemCall(number) ==
  /\ InCode
  /\ cpu.cs = UserCode
  /\ Trap([cpu EXCEPT !.regs["rax"] = Num(number)], Syscall)
  /\ UNCHANGED <<in_service, faulted>>

-----------------------------------------------------------------------------
(* Handlers *)

ret == cpu' = [cpu EXCEPT !.rip = Mem[rspIndex], !.rsp = KStack(rspOwner, rspIndex + 1)]

\* The field of *r, r being the first argument.
r(field) ==
  LET rdi == cpu.regs["rdi"]
  IN  stack[rdi[2]][rdi[3] - 1 + CHOOSE k \in DOMAIN registers : registers[k] = field]

HandlerStays == UNCHANGED <<current, saved_rsp, tss_rsp0, context, faulted>>

\* page_fault_handler prints and returns; the others do not return.
fault_handler ==
  /\ cpu.rip = At("fault_handler")
  /\ IF r("int_no") = Num(14)
     THEN ret /\ in_service' = EndOfInterrupt(in_service)
     ELSE cpu' = [cpu EXCEPT !.rip = At("halted")] /\ UNCHANGED in_service
  /\ UNCHANGED <<stack, timer_ticks>>
  /\ HandlerStays

\* Mutant: the second controller is not told.
Mutant_Acknowledged(int_no) == EndOfInterrupt(in_service)

\* keyboard_interrupt, for 33, is in Keyboard; it ends the interrupt itself, and
\* irq_handler does so again.
Acknowledged(int_no) ==
  EndOfInterrupt(
    CASE int_no = Num(33) -> EndOfInterrupt(in_service)
      [] int_no \in {Num(v) : v \in 40 .. 47} -> [in_service EXCEPT !.slave = Ended(@)]
      [] OTHER -> in_service)

irq_handler ==
  /\ cpu.rip = At("irq_handler")
  /\ ret
  /\ in_service' = Acknowledged(r("int_no"))
  /\ UNCHANGED <<stack, timer_ticks>>
  /\ HandlerStays

\* gets enables interrupts; the other calls run to their end, in Console and
\* Paging, and none writes to the frame.
syscall_handler ==
  /\ cpu.rip = At("syscall_handler")
  /\ IF r("rax") = Num(2)
     THEN /\ cpu' = [cpu EXCEPT !.rip = <<"getstring", current, rspIndex>>, !.flags = Flags(TRUE),
                                !.rsp = KStack(rspOwner, rspIndex - CallWords)]
          /\ UNCHANGED in_service
     ELSE ret /\ in_service' = EndOfInterrupt(in_service)
  /\ UNCHANGED <<stack, timer_ticks>>
  /\ HandlerStays

\* getstring and syscall_handler return, interrupts still on.
LeaveGetstring ==
  /\ cpu.rip[1] = "getstring"
  /\ LET sp == cpu.rip[3]
     IN  cpu' = [cpu EXCEPT !.rip = Mem[sp], !.rsp = KStack(rspOwner, sp + 1)]
  /\ in_service' = EndOfInterrupt(in_service)
  /\ UNCHANGED <<stack, timer_ticks>>
  /\ HandlerStays

TimerTick ==
  /\ timer_ticks + 1 # TicksPerSlice
  /\ timer_ticks' = timer_ticks + 1
  /\ ret
  /\ UNCHANGED <<stack, current, saved_rsp, tss_rsp0>>

\* generate_timer goes on with the stack pointer sp in mem: it pops what the compiler
\* saved at its start, and returns.
ResumeAt(mem, sp) ==
  LET k == sp[3] + TimerPushes
  IN  cpu' = [cpu EXCEPT !.rip = mem[k], !.rsp = KStack(sp[2], k + 1)]

FirstSchedule ==
  /\ timer_ticks + 1 = TicksPerSlice
  /\ current = Boot
  /\ timer_ticks' = 0
  /\ current' = Idle
  /\ ResumeAt(stack[Idle], saved_rsp[Idle])
  /\ UNCHANGED <<stack, saved_rsp, tss_rsp0>>

\* Mutant: rsp0 is set once.
Mutant_NewRsp0(p) == IF tss_rsp0[2] = Boot /\ p \in Users THEN KStack(p, Top) ELSE tss_rsp0

SavedRsp == KStack(rspOwner, rspIndex - TimerPushes)
NewRsp0(p) == IF p \in Users THEN KStack(p, Top) ELSE tss_rsp0

SwitchProcess(p) ==
  /\ timer_ticks + 1 = TicksPerSlice
  /\ current \notin {Boot, p}
  /\ timer_ticks' = 0
  /\ stack' = [stack EXCEPT ![rspOwner] =
                 Pushed(@, rspIndex, [k \in 1 .. TimerPushes |-> <<"kernel", "rbx">>])]
  /\ saved_rsp' = [saved_rsp EXCEPT ![current] = SavedRsp]
  /\ current' = p
  /\ tss_rsp0' = NewRsp0(p)
  /\ ResumeAt(stack[p], saved_rsp[p])

generate_timer ==
  /\ cpu.rip = At("generate_timer")
  /\ TimerTick \/ FirstSchedule \/ \E p \in Procs : SwitchProcess(p)
  /\ in_service' = EndOfInterrupt(in_service)
  /\ UNCHANGED <<context, faulted>>

-----------------------------------------------------------------------------
(* The way back *)

CallGenerateTimer ==
  /\ cpu.rip = TheCall
  /\ stack' = [stack EXCEPT ![rspOwner] = Pushed(@, rspIndex, <<Return("irq0")>>)]
  /\ cpu' = [cpu EXCEPT !.rip = At("generate_timer"), !.rsp = KStack(rspOwner, rspIndex - 1)]
  /\ UNCHANGED <<timer_ticks, in_service>>
  /\ HandlerStays

\* The pops, and over error code and number.  sti has no effect before the iretq
\* behind it; irq128 has none, and gets leaves interrupts on.
PopRegisters(name) ==
  /\ cpu.rip = Return(name)
  /\ cpu' = [cpu EXCEPT
       !.regs = [q \in Registers |-> Mem[rspIndex - 1 + CHOOSE k \in DOMAIN PopOrder : PopOrder[k] = q]],
       !.rsp = KStack(rspOwner, rspIndex + Len(PopOrder) + (IF name = "irq0" THEN 0 ELSE 2)),
       !.rip = At("iretq")]
  /\ UNCHANGED <<stack, timer_ticks, in_service>>
  /\ HandlerStays

\* What iretq loads.
Popped == [regs |-> cpu.regs, rip |-> Mem[rspIndex], cs |-> Mem[rspIndex + 1],
           flags |-> Mem[rspIndex + 2], rsp |-> Mem[rspIndex + 3], ss |-> Mem[rspIndex + 4]]

InUse(mem, rsp) == [k \in {j \in DOMAIN mem : rsp[1] = "kstack" /\ j >= rsp[3]} |-> mem[k]]

\* iretq needs a code selector for cs: anything else is a general protection
\* fault in the kernel.
iretq ==
  /\ cpu.rip = At("iretq")
  /\ IF Popped.cs \in {KernelCode, UserCode}
     THEN /\ cpu' = Popped
          /\ stack' = [stack EXCEPT ![rspOwner] = InUse(@, Popped.rsp)]
          /\ context' = [context EXCEPT ![current] = Front(@)]
          /\ UNCHANGED <<current, saved_rsp, tss_rsp0, timer_ticks, in_service, faulted>>
     ELSE Trap(cpu, 13) /\ faulted' = TRUE /\ UNCHANGED in_service

-----------------------------------------------------------------------------
Next ==
  \/ Run
  \/ \E v \in Irqs \union {Timer} : Interrupt(v)
  \/ \E v \in Exceptions : Exception(v)
  \/ \E number \in SyscallNumbers : SystemCall(number)
  \/ fault_handler \/ irq_handler \/ syscall_handler \/ LeaveGetstring
  \/ generate_timer \/ CallGenerateTimer
  \/ \E name \in {"isr_common_stub", "irq_common_stub", "irq128", "irq0"} : PopRegisters(name)
  \/ iretq

Spec == Init /\ [][Next]_vars

-----------------------------------------------------------------------------
(* Properties *)

Handling == cpu.rip \in {At("fault_handler"), At("irq_handler"), At("syscall_handler")}
Interrupted == Last(context[current]).cpu
vector == Last(context[current]).vector

\* The kernel is on a stack of its own, a program on that of its process, and no
\* stack grows by more than a system call and two exceptions.
TrapTypeOK ==
  /\ cpu.cs \in {KernelCode, UserCode}
  /\ current \in Procs \union {Boot}
  /\ timer_ticks \in 0 .. TicksPerSlice - 1
  /\ cpu.cs = KernelCode => cpu.rsp[1] = "kstack" /\ cpu.rsp[2] = current
  /\ Len(context[current]) <= 3

\* Whatever nests, switches and is resumed, every iretq gives the interrupted
\* code back all of its registers, its stack and its interrupt flag; the first one of
\* a process gives it the start that create_process meant.
ReturnsToWhatWasInterrupted ==
  cpu.rip = At("iretq") /\ ~faulted => Popped = Interrupted

\* struct registers lies on the words the stubs push: a handler reads the number
\* of its vector and the registers of the code that trapped and, unless both the
\* processor and the stub have pushed an error code, what the processor pushed.
ProcessorWords == [rip |-> Interrupted.rip, cs |-> Interrupted.cs, rflags |-> Interrupted.flags,
                   useresp |-> Interrupted.rsp, ss |-> Interrupted.ss]
ProcessorPartIsRight == \A field \in DOMAIN ProcessorWords : r(field) = ProcessorWords[field]
HandlersReadTheFrame ==
  Handling =>
    /\ r("int_no") = Num(vector)
    /\ \A q \in Registers : r(q) = Interrupted.regs[q]
    /\ vector \notin {13, 14, 17} => ProcessorPartIsRight

\* isr.h:14 says of rip, cs, rflags, useresp and ss that they are "Pushed by the
\* processor automatically": a handler finds there what the processor pushed.
ProcessorPartIsPushedByProcessor == Handling => ProcessorPartIsRight

\* No program runs again after an exception: most handlers stop, and although
\* page_fault_handler returns, isr14 has one word too many on its stack and the
\* iretq raises an exception that stops.  A page fault is never retried.
ExceptionsAreFinal == faulted => ~InCode

\* When a program goes on no interrupt is left in service, so the timer and the
\* keyboard can interrupt it: every path that ends one says so to the
\* controllers, across switches and before the frame of a new process.
InterruptsAreAcknowledged == InCode => in_service = NoneInService
=============================================================================
