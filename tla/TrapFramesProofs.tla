-------------------------- MODULE TrapFramesProofs --------------------------
(***************************************************************************)
(* What trapped goes on as it was: proofs of the properties of TrapFrames, *)
(* for any processes, vectors and system calls, any number of ticks in a   *)
(* slice and any use of the stack by the C code.                           *)
(*                                                                         *)
(* None of the properties is inductive.  The invariant says what lies on   *)
(* each kernel stack: for every trap that has not returned, where the      *)
(* words of its frame are, as far as they are still needed by what the     *)
(* kernel is doing about it.  A process traps twice at most without an     *)
(* exception, the second time out of a system call that waits, so the      *)
(* inner frame lies below the words of the outer one.                      *)
(***************************************************************************)
EXTENDS TrapFrames, SequenceTheorems, TLAPS

\* The frames schedule.c crafts fit a generate_timer that pushes one word.
OnePushAssumption == TimerPushes = 1

-----------------------------------------------------------------------------
(* Frames *)

\* The words between the registers and rip: error code, dummy, number.
Skip(v) == IF v = Timer THEN 0 ELSE IF v \in ErrorCode /\ PushesDummy(v) THEN 3 ELSE 2

Word(mem, k, w) == k \in DOMAIN mem /\ mem[k] = w

\* At s lies what iretq needs to return to c.
IretWords(mem, s, c) ==
  /\ Word(mem, s, c.rip)
  /\ Word(mem, s + 1, c.cs)
  /\ Word(mem, s + 2, c.flags)
  /\ Word(mem, s + 3, c.rsp)
  /\ Word(mem, s + 4, c.ss)

\* At s begins what a stub pops to return from the trap e.
FrameAt(mem, s, e) ==
  /\ \A k \in 1 .. 15 : Word(mem, s + k - 1, e.cpu.regs[PopOrder[k]])
  /\ e.vector # Timer => Word(mem, s + 15, Num(e.vector))
  /\ IretWords(mem, s + 15 + Skip(e.vector), e.cpu)

\* The handler of the trap e has been called, and will return to the word at s.
CalledAt(mem, s, e) == Word(mem, s, Return(stub(e.vector))) /\ FrameAt(mem, s + 1, e)

-----------------------------------------------------------------------------
(* The states code can be in *)

IsCpu(c) ==
  c = [regs |-> [q \in Registers |-> c.regs[q]], rip |-> c.rip, cs |-> c.cs, flags |-> c.flags,
       rsp |-> c.rsp, ss |-> c.ss]

\* A process that has not trapped.
Untrapped(p, c) ==
  /\ IsCpu(c)
  /\ c.rip = Code(p)
  /\ c.flags = Flags(TRUE)
  /\ IF p \in Users THEN c.cs = UserCode /\ c.rsp = <<"pstack", p>>
     ELSE c.cs = KernelCode /\ c.rsp = KStack(p, c.rsp[3]) /\ c.rsp[3] \in Int

\* The kernel, on the stack of p.
InKernel(p, c) ==
  /\ IsCpu(c)
  /\ c.cs = KernelCode
  /\ c.rsp = KStack(p, c.rsp[3])
  /\ c.rsp[3] \in Int

InHandler(mem, p, c, e) ==
  /\ c.rip = handler(e.vector)
  /\ c.flags = Flags(FALSE)
  /\ CalledAt(mem, c.rsp[3], e)
  /\ e.vector # Timer => c.regs["rdi"] = KStack(p, c.rsp[3] + 1)

InGetstring(mem, p, c, e) ==
  /\ e.vector = Syscall
  /\ c.rip[1] = "getstring"
  /\ c.rip = <<"getstring", p, c.rip[3]>>
  /\ c.flags = Flags(TRUE)
  /\ c.rip[3] \in Int
  /\ c.rsp[3] = c.rip[3] - CallWords
  /\ CalledAt(mem, c.rip[3], e)

\* On the way out of gets interrupts are on.
FlagsOnReturn(c, e) == c.flags = Flags(FALSE) \/ (e.vector = Syscall /\ c.flags = Flags(TRUE))

AtPops(mem, c, e) ==
  /\ c.rip = Return(stub(e.vector))
  /\ FlagsOnReturn(c, e)
  /\ FrameAt(mem, c.rsp[3], e)

AtIretq(mem, c, e) ==
  /\ c.rip = At("iretq")
  /\ FlagsOnReturn(c, e)
  /\ c.regs = e.cpu.regs
  /\ IretWords(mem, c.rsp[3], e.cpu)

\* The first time the idle process is dispatched.
AtTheCall(mem, p, c, e) ==
  /\ p = Idle
  /\ e.vector = Timer
  /\ c.rip = TheCall
  /\ c.flags = Flags(FALSE)
  /\ FrameAt(mem, c.rsp[3], e)

\* The kernel is dealing with the trap e of p.
Handles(mem, p, c, e) ==
  /\ InKernel(p, c)
  /\ \/ InHandler(mem, p, c, e)
     \/ InGetstring(mem, p, c, e)
     \/ AtPops(mem, c, e)
     \/ AtIretq(mem, c, e)
     \/ AtTheCall(mem, p, c, e)

-----------------------------------------------------------------------------
(* The invariant *)

HardwareVectors == Irqs \union {Timer}

IsTuple(q) == Len(q) \in Nat /\ q = [i \in 1 .. Len(q) |-> q[i]]

\* The traps q of p that have not returned: none, one, or an interrupt of the part of
\* a system call that has interrupts on.
Nested(mem, q, p) ==
  /\ IsTuple(q)
  /\ Len(q) <= 2
  /\ Len(q) >= 1 => Untrapped(p, q[1].cpu) /\ q[1].vector \in HardwareVectors \union {Syscall}
  /\ Len(q) = 2 => /\ Handles(mem, p, q[2].cpu, q[1])
                   /\ q[2].cpu.flags = Flags(TRUE)
                   /\ q[2].vector \in HardwareVectors

\* Below all that an interrupted system call needs.
Below(q, s) == Len(q) = 2 => s <= q[2].cpu.rsp[3]

\* A process that does not run has its timer frame on top of its stack.
Suspended(mem, q, rsp, p) ==
  LET s == rsp[3] + TimerPushes
  IN  /\ Len(q) >= 1
      /\ q[Len(q)].vector = Timer
      /\ rsp = KStack(p, rsp[3])
      /\ rsp[3] \in Int
      /\ Word(mem, s, Return("irq0")) \/ (p = Idle /\ Len(q) = 1 /\ Word(mem, s, TheCall))
      /\ FrameAt(mem, s + 1, q[Len(q)])

\* What the CPU does about the innermost trap of the current process.
Running(mem, q, c, p) ==
  \/ Len(q) = 0 /\ Untrapped(p, c)
  \/ /\ Len(q) >= 1
     /\ Handles(mem, p, c, q[Len(q)])
     /\ Len(q) = 2 => c.flags = Flags(FALSE) /\ c.rip # TheCall
     /\ c.rip = handler(q[Len(q)].vector) => Below(q, c.rsp[3])

\* Only the interrupt whose handler has been called is in service.
ServiceFollows(q, c, service) ==
  \/ service = NoneInService
  \/ /\ Len(q) >= 1
     /\ q[Len(q)].vector \in HardwareVectors
     /\ c.rip = handler(q[Len(q)].vector)
     /\ service = [master |-> {Master(q[Len(q)].vector)},
                   slave |-> IF q[Len(q)].vector < 40 THEN {} ELSE {q[Len(q)].vector - 32}]

\* After an exception: the handler halts, or the iretq finds rip where it takes cs.
NoSelector(w) == w \notin {KernelCode, UserCode}
Stopping(mem, q, c, p) ==
  /\ InKernel(p, c)
  /\ c.flags = Flags(FALSE)
  /\ IsTuple(q)
  /\ Len(q) \in 1 .. 3
  /\ \/ /\ c.rip = At("fault_handler")
        /\ q[Len(q)].vector \in 0 .. 31
        /\ CalledAt(mem, c.rsp[3], q[Len(q)])
        /\ c.regs["rdi"] = KStack(p, c.rsp[3] + 1)
        /\ q[Len(q)].vector # 14 \/ (NoSelector(q[Len(q)].cpu.rip) /\ Len(q) <= 2)
     \/ c.rip = At("isr_common_stub") /\ Len(q) <= 2 /\ NoSelector(mem[c.rsp[3] + 18])
     \/ c.rip = At("iretq") /\ Len(q) <= 2 /\ NoSelector(mem[c.rsp[3] + 1])
     \/ c.rip = At("halted")

TypesOK ==
  /\ current \in Procs \union {Boot}
  /\ timer_ticks \in 0 .. TicksPerSlice - 1
  /\ faulted \in BOOLEAN
  /\ DOMAIN stack = Procs \union {Boot}
  /\ DOMAIN context = Procs \union {Boot}
  /\ DOMAIN saved_rsp = Procs

\* Without exceptions, every frame is where it should be.
Placed ==
  /\ \A p \in Procs \union {Boot} : Nested(stack[p], context[p], p)
  /\ \A p \in Procs \ {current} : Suspended(stack[p], context[p], saved_rsp[p], p)
  /\ Running(stack[current], context[current], cpu, current)
  /\ current \in Users => tss_rsp0 = KStack(current, Top)

Sane == Placed /\ ServiceFollows(context[current], cpu, in_service)

IInv ==
  /\ TypesOK
  /\ ~faulted => Sane
  /\ faulted => Stopping(stack[current], context[current], cpu, current)

-----------------------------------------------------------------------------
(* Lemmas about the stubs and about struct registers *)

\* The vectors a trap can have.
Vectors == 0 .. 31 \union HardwareVectors \union {Syscall}

LEMMA VectorFacts ==
  /\ Timer = 32 /\ Syscall = 128
  /\ HardwareVectors \subseteq 32 .. 47
  /\ Exceptions \subseteq Vectors
  /\ Vectors \subseteq 0 .. 128
BY VectorsAssumption DEF Vectors, HardwareVectors, Timer, Syscall

\* Places are apart from one another and from code.
LEMMA AtFacts ==
  /\ \A a, b : At(a) = At(b) => a = b
  /\ \A a : At(a)[1] = "at"
  /\ TheCall = At("irq0+0x1b")
  /\ \A p : Code(p)[1] = "code"
  /\ Flags(TRUE) # Flags(FALSE)
BY DEF At, TheCall, Code, Flags

\* Which handler a trap calls, and which stub it returns to.
LEMMA Places ==
  ASSUME NEW v \in Vectors
  PROVE  /\ v \in 0 .. 31 => handler(v) = At("fault_handler") /\ Return(stub(v)) = At("isr_common_stub")
         /\ v = Timer => handler(v) = At("generate_timer") /\ Return(stub(v)) = At("irq0+0x20")
         /\ v = Syscall => handler(v) = At("syscall_handler") /\ Return(stub(v)) = At("irq128")
         /\ v \in Irqs => handler(v) = At("irq_handler") /\ Return(stub(v)) = At("irq_common_stub")
         /\ v \in 0 .. 31 \/ v = Timer \/ v = Syscall \/ v \in Irqs
<1>1. v \in 0 .. 31 \/ v = Timer \/ v = Syscall \/ v \in Irqs
  BY DEF Vectors, HardwareVectors
<1>2. CASE v \in 0 .. 31
  <2>1. v < Timer /\ v # Timer /\ v # Syscall /\ v \notin Irqs
    BY <1>2, VectorsAssumption DEF Timer, Syscall
  <2>2. handler(v) = At("fault_handler") /\ stub(v) = "isr_common_stub"
    BY <2>1, Zenon DEF handler, stub
  <2> QED
    BY <1>2, <2>1, <2>2 DEF Return
<1>3. CASE v = Timer
  <2>1. ~(v < Timer) /\ v # Syscall /\ v \notin Irqs /\ v \notin 0 .. 31
    BY <1>3, VectorsAssumption DEF Timer, Syscall
  <2>2. handler(v) = At("generate_timer") /\ stub(v) = "irq0"
    BY <1>3, <2>1, Zenon DEF handler, stub
  <2> QED
    BY <1>3, <2>1, <2>2 DEF Return
<1>4. CASE v = Syscall
  <2>1. ~(v < Timer) /\ v # Timer /\ v \notin Irqs /\ v \notin 0 .. 31
    BY <1>4, VectorsAssumption DEF Timer, Syscall
  <2>2. handler(v) = At("syscall_handler") /\ stub(v) = "irq128"
    BY <1>4, <2>1, Zenon DEF handler, stub
  <2> QED
    BY <1>4, <2>1, <2>2 DEF Return
<1>5. CASE v \in Irqs
  <2>1. ~(v < Timer) /\ v # Timer /\ v # Syscall /\ v \notin 0 .. 31
    BY <1>5, VectorsAssumption DEF Timer, Syscall
  <2>2. handler(v) = At("irq_handler") /\ stub(v) = "irq_common_stub"
    BY <2>1, Zenon DEF handler, stub
  <2> QED
    BY <1>5, <2>1, <2>2 DEF Return
<1> QED
  BY <1>1, <1>2, <1>3, <1>4, <1>5, Zenon

\* The stubs pop the registers in the opposite order they push them in, and the
\* fields of struct registers begin with that order.
LEMMA PopsAreThePushes ==
  /\ Len(PushOrder) = 15 /\ Len(PopOrder) = 15
  /\ DOMAIN PopOrder = 1 .. 15 /\ DOMAIN registers = 1 .. 22
  /\ \A k \in 1 .. 15 : PopOrder[k] = PushOrder[16 - k]
  /\ \A k \in 1 .. 15 : registers[k] = PopOrder[k]
  /\ \A k \in 1 .. 15 : PopOrder[k] \in Registers
<1>1. Len(PushOrder) = 15 /\ Len(PopOrder) = 15 /\ DOMAIN PopOrder = 1 .. 15
  /\ DOMAIN PushOrder = 1 .. 15 /\ DOMAIN registers = 1 .. 22
  BY DEF PushOrder, PopOrder, registers
<1>2. \A k \in 1 .. 15 : PopOrder[k] = PushOrder[16 - k]
  BY DEF PushOrder, PopOrder
<1>3. \A k \in 1 .. 15 : registers[k] = PopOrder[k]
  BY DEF registers, PopOrder
<1>4. \A k \in 1 .. 15 : PopOrder[k] \in Registers
  BY <1>1, <1>2 DEF Registers, ToSet
<1> QED
  BY <1>1, <1>2, <1>3, <1>4

LEMMA RegistersArePopped == \A g \in Registers : \E k \in 1 .. 15 : g = PopOrder[k]
<1>1. \A j \in 1 .. 15 : PushOrder[j] = PopOrder[16 - j] /\ 16 - j \in 1 .. 15
  BY DEF PushOrder, PopOrder
<1>2. Registers = {PushOrder[j] : j \in 1 .. 15}
  BY DEF Registers, ToSet, PushOrder
<1> QED
  BY <1>1, <1>2

\* Every register is pushed once, so the CHOOSE of PopRegisters has one candidate.
LEMMA PopIndex ==
  ASSUME NEW k \in 1 .. 15
  PROVE  (CHOOSE i \in DOMAIN PopOrder : PopOrder[i] = PopOrder[k]) = k
<1>1. \A i \in 1 .. 15 : PopOrder[i] = PopOrder[k] => i = k
  BY DEF PopOrder
<1> QED
  BY <1>1, PopsAreThePushes

LEMMA FieldIndex ==
  ASSUME NEW k \in 1 .. 22
  PROVE  (CHOOSE i \in DOMAIN registers : registers[i] = registers[k]) = k
<1>1. \A i \in 1 .. 22 : registers[i] = registers[k] => i = k
  BY DEF registers
<1> QED
  BY <1>1, PopsAreThePushes

\* The words of a trap, by their place.
LEMMA TrapWordsAre ==
  ASSUME NEW c, NEW v \in Vectors
  PROVE  LET w == TrapWords(c, v)
         IN  /\ Len(w) = 21 + Skip(v)
             /\ w[1] = c.ss /\ w[2] = c.rsp /\ w[3] = c.flags /\ w[4] = c.cs /\ w[5] = c.rip
             /\ v # Timer => w[5 + Skip(v)] = Num(v)
             /\ \A k \in 1 .. 15 : w[5 + Skip(v) + k] = c.regs[PushOrder[k]]
             /\ w[21 + Skip(v)] = Return(stub(v))
<1> DEFINE a == <<c.ss, c.rsp, c.flags, c.cs, c.rip>>
           b == IF v \in ErrorCode THEN << <<"error", v>> >> ELSE <<>>
           d == StubWords(v)
           f == [k \in 1 .. 15 |-> c.regs[PushOrder[k]]]
           g == <<Return(stub(v))>>
<1>1. TrapWords(c, v) = a \o b \o d \o f \o g
  BY PopsAreThePushes DEF TrapWords
<1> DEFINE two == <<Num(0)>> \o <<Num(v)>>
<1>0. Len(two) = 2 /\ two[1] = Num(0) /\ two[2] = Num(v)
  OBVIOUS
<1>2. CASE v = Timer
  <2>1. b = <<>> /\ d = <<>> /\ Skip(v) = 0
    BY <1>2, VectorFacts DEF StubWords, Skip, ErrorCode, Timer
  <2> QED
    BY <1>1, <1>2, <2>1
<1>3. CASE v # Timer /\ v \in ErrorCode /\ PushesDummy(v)
  <2>1. b = << <<"error", v>> >> /\ d = two /\ Skip(v) = 3
    BY <1>3, VectorFacts DEF StubWords, Skip
  <2> QED
    BY <1>0, <1>1, <1>3, <2>1
<1>4. CASE v # Timer /\ v \in ErrorCode /\ ~PushesDummy(v)
  <2>1. b = << <<"error", v>> >> /\ d = <<Num(v)>> /\ Skip(v) = 2
    BY <1>4, VectorFacts DEF StubWords, Skip
  <2> QED
    BY <1>1, <1>4, <2>1
<1>5. CASE v # Timer /\ v \notin ErrorCode
  <2>1. b = <<>> /\ d = two /\ Skip(v) = 2
    BY <1>5, VectorFacts DEF StubWords, Skip, ErrorCode, PushesDummy
  <2> QED
    BY <1>0, <1>1, <1>5, <2>1
<1> QED
  BY <1>2, <1>3, <1>4, <1>5

-----------------------------------------------------------------------------
(* Lemmas about memory *)

\* Pushing writes below the stack pointer and nowhere else.
LEMMA PushedFacts ==
  ASSUME NEW mem, NEW sp \in Int, NEW w, Len(w) \in Nat
  PROVE  /\ \A k, x : k >= sp /\ k \in Int /\ Word(mem, k, x) => Word(Pushed(mem, sp, w), k, x)
         /\ \A j \in 1 .. Len(w) : Word(Pushed(mem, sp, w), sp - j, w[j])
BY DEF Pushed, Word

\* A trap leaves its frame where the stack pointer was, and nothing above it changes.
LEMMA TrapMakesAFrame ==
  ASSUME NEW c, NEW v \in Vectors, NEW p \in Procs \union {Boot}, NEW base \in Int,
         (IF c.cs = UserCode THEN tss_rsp0 ELSE c.rsp) = KStack(p, base),
         DOMAIN stack = Procs \union {Boot},
         Trap(c, v)
  PROVE  \E s \in Int :
           /\ s <= base
           /\ cpu'.rsp = KStack(p, s)
           /\ InKernel(p, cpu')
           /\ cpu'.flags = Flags(FALSE)
           /\ cpu'.rip = handler(v)
           /\ cpu'.regs["rdi"] = KStack(p, s + 1)
           /\ CalledAt(stack'[p], s, [cpu |-> c, vector |-> v])
           /\ DOMAIN stack' = DOMAIN stack
           /\ \A q \in DOMAIN stack \ {p} : stack'[q] = stack[q]
           /\ \A k \in Int : \A x : k >= base /\ Word(stack[p], k, x) => Word(stack'[p], k, x)
<1> DEFINE sp == base - (base % 2)
           w == TrapWords(c, v)
           s == sp - Len(w)
           e == [cpu |-> c, vector |-> v]
<1>1. /\ Len(w) = 21 + Skip(v)
      /\ w[1] = c.ss /\ w[2] = c.rsp /\ w[3] = c.flags /\ w[4] = c.cs /\ w[5] = c.rip
      /\ v # Timer => w[5 + Skip(v)] = Num(v)
      /\ \A k \in 1 .. 15 : w[5 + Skip(v) + k] = c.regs[PushOrder[k]]
      /\ w[21 + Skip(v)] = Return(stub(v))
  BY TrapWordsAre
<1>2. Skip(v) \in Nat /\ (v # Timer => Skip(v) >= 2)
  BY DEF Skip
<1>a. Len(w) = 21 + Skip(v)
  BY <1>1
<1> HIDE DEF w
<1>0. sp \in Int /\ sp <= base
  BY SMT
<1> HIDE DEF sp
<1>3. s \in Int /\ s <= base /\ Len(w) \in Nat /\ s = sp - 21 - Skip(v)
  BY <1>0, <1>2, <1>a
<1>4. /\ stack' = [stack EXCEPT ![p] = Pushed(@, sp, w)]
      /\ \E ss :
           cpu' = [regs |-> [q \in Registers |-> IF q = "rdi" THEN KStack(p, s + 1) ELSE <<"kernel", q>>],
                   rip |-> handler(v), cs |-> KernelCode, flags |-> Flags(FALSE),
                   rsp |-> KStack(p, s), ss |-> ss]
  <2> DEFINE from == IF c.cs = UserCode THEN tss_rsp0 ELSE c.rsp
  <2>1. from[2] = p /\ from[3] = base
    BY DEF KStack
  <2>2. KStack(p, s)[2] = p /\ KStack(p, s)[3] = s
    BY DEF KStack
  <2> HIDE DEF from
  <2>3. /\ stack' = [stack EXCEPT ![from[2]] = Pushed(@, from[3] - (from[3] % 2), TrapWords(c, v))]
        /\ \E ss :
             LET rsp == KStack(from[2], from[3] - (from[3] % 2) - Len(TrapWords(c, v)))
             IN  cpu' = [regs |-> [q \in Registers |-> IF q = "rdi" THEN KStack(rsp[2], rsp[3] + 1)
                                                       ELSE <<"kernel", q>>],
                         rip |-> handler(v), cs |-> KernelCode, flags |-> Flags(FALSE),
                         rsp |-> rsp, ss |-> ss]
    BY Zenon DEF Trap, from
  <2> QED
    BY <2>1, <2>2, <2>3 DEF s, sp, w
<1> HIDE DEF s
<1>b. sp \in Int /\ s \in Int /\ Skip(v) \in Int /\ s = sp - 21 - Skip(v)
  BY <1>0, <1>2, <1>3
<1>5. "rdi" \in Registers
  BY DEF Registers, ToSet, PushOrder
<1>6. /\ cpu'.rsp = KStack(p, s) /\ cpu'.flags = Flags(FALSE)
      /\ cpu'.rip = handler(v) /\ cpu'.regs["rdi"] = KStack(p, s + 1)
      /\ InKernel(p, cpu')
  <2> DEFINE regs == [q \in Registers |-> IF q = "rdi" THEN KStack(p, s + 1) ELSE <<"kernel", q>>]
  <2>1. PICK ss : cpu' = [regs |-> regs, rip |-> handler(v), cs |-> KernelCode, flags |-> Flags(FALSE),
                          rsp |-> KStack(p, s), ss |-> ss]
    BY <1>4
  <2>2. regs["rdi"] = KStack(p, s + 1) /\ regs = [q \in Registers |-> regs[q]]
    BY <1>5
  <2> HIDE DEF regs
  <2>3. cpu'.rsp[3] = s
    BY <2>1 DEF KStack
  <2>4. IsCpu(cpu')
    BY <2>1, <2>2 DEF IsCpu
  <2> QED
    BY <1>3, <2>1, <2>2, <2>3, <2>4 DEF InKernel
<1>7. stack'[p] = Pushed(stack[p], sp, w)
  BY <1>4
<1> DEFINE mem == stack'[p]
<1>8. \A j \in 1 .. Len(w) : Word(mem, sp - j, w[j])
  BY <1>0, <1>3, <1>7, PushedFacts
<1>9. \A k \in Int : \A x : k >= base /\ Word(stack[p], k, x) => Word(mem, k, x)
  BY <1>0, <1>3, <1>7, PushedFacts
<1> HIDE DEF mem
<1>10. Word(mem, s, Return(stub(v)))
  BY SMTT(20), <1>0, <1>1, <1>2, <1>3, <1>8
<1>11. ASSUME NEW k \in 1 .. 15 PROVE Word(mem, s + 1 + k - 1, c.regs[PopOrder[k]])
  <2>1. PopOrder[k] = PushOrder[16 - k] /\ 16 - k \in 1 .. 15
    BY PopsAreThePushes
  <2>2. w[5 + Skip(v) + (16 - k)] = c.regs[PopOrder[k]]
    BY <1>1, <2>1
  <2> DEFINE j == 5 + Skip(v) + (16 - k)
  <2>3. j \in Int /\ 1 <= j /\ j <= 21 + Skip(v)
    BY <1>2
  <2>5. s + 1 + k - 1 = sp - j
    BY <1>b
  <2>4. j \in 1 .. Len(w)
    BY <1>2, <1>a, <2>3
  <2> HIDE DEF j
  <2> QED
    BY <1>8, <2>2, <2>4, <2>5 DEF j
<1>12. v # Timer => Word(mem, s + 1 + 15, Num(v))
  <2>1. s + 1 + 15 = sp - (5 + Skip(v)) /\ 5 + Skip(v) \in 1 .. Len(w)
    BY <1>0, <1>2, <1>3, <1>a
  <2> QED
    BY <1>1, <1>8, <2>1
<1>13. IretWords(mem, s + 1 + 15 + Skip(v), c)
  <2> DEFINE low == s + 1 + 15 + Skip(v)
  <2>1. /\ low = sp - 5 /\ low + 1 = sp - 4 /\ low + 2 = sp - 3 /\ low + 3 = sp - 2 /\ low + 4 = sp - 1
    BY <1>b
  <2>4. 5 <= Len(w)
    BY <1>2, <1>a
  <2> HIDE DEF low
  <2>2. \A j \in 1 .. 5 : Word(mem, sp - j, w[j])
    BY <1>3, <1>8, <2>4
  <2>3. IretWords(mem, low, c)
    BY <1>1, <2>1, <2>2 DEF IretWords
  <2> QED
    BY <2>3 DEF low
<1>14. CalledAt(mem, s, e)
  BY <1>10, <1>11, <1>12, <1>13 DEF CalledAt, FrameAt
<1> QED
  BY <1>3, <1>4, <1>6, <1>9, <1>14 DEF mem

\* What is said about a stack stays true when nothing above the stack pointer changes.
SameFrom(old, new, low) == \A k \in Int : \A x : k >= low /\ Word(old, k, x) => Word(new, k, x)

LEMMA FrameStays ==
  ASSUME NEW old, NEW new, NEW low \in Int, SameFrom(old, new, low), NEW s \in Int, low <= s, NEW e
  PROVE  /\ \A x : Word(old, s, x) => Word(new, s, x)
         /\ IretWords(old, s, e.cpu) => IretWords(new, s, e.cpu)
         /\ FrameAt(old, s, e) => FrameAt(new, s, e)
         /\ CalledAt(old, s, e) => CalledAt(new, s, e)
<1>1. ASSUME NEW k \in Int, low <= k, NEW x, Word(old, k, x) PROVE Word(new, k, x)
  BY <1>1 DEF SameFrom
<1>2. ASSUME NEW t \in Int, low <= t, IretWords(old, t, e.cpu) PROVE IretWords(new, t, e.cpu)
  BY <1>1, <1>2 DEF IretWords
<1>3. ASSUME NEW t \in Int, low <= t, FrameAt(old, t, e) PROVE FrameAt(new, t, e)
  <2>1. Skip(e.vector) \in Nat
    BY DEF Skip
  <2>2. t + 15 + Skip(e.vector) \in Int /\ low <= t + 15 + Skip(e.vector)
    BY <1>3, <2>1
  <2>3. \A k \in 1 .. 15 : t + k - 1 \in Int /\ low <= t + k - 1
    BY <1>3
  <2>4. IretWords(new, t + 15 + Skip(e.vector), e.cpu)
    BY <1>2, <1>3, <2>2 DEF FrameAt
  <2>5. \A k \in 1 .. 15 : Word(new, t + k - 1, e.cpu.regs[PopOrder[k]])
    BY <1>1, <1>3, <2>3 DEF FrameAt
  <2>6. e.vector # Timer => Word(new, t + 15, Num(e.vector))
    BY <1>1, <1>3 DEF FrameAt
  <2> QED
    BY <2>4, <2>5, <2>6 DEF FrameAt
<1>4. ASSUME CalledAt(old, s, e) PROVE CalledAt(new, s, e)
  BY <1>1, <1>3, <1>4 DEF CalledAt
<1> QED
  BY <1>1, <1>2, <1>3, <1>4

LEMMA HandlesStays ==
  ASSUME NEW old, NEW new, NEW p, NEW c, NEW e, NEW low \in Int,
         Handles(old, p, c, e), SameFrom(old, new, low), low <= c.rsp[3]
  PROVE  Handles(new, p, c, e)
<1>1. InKernel(p, c) /\ c.rsp[3] \in Int
  BY DEF Handles, InKernel
<1>2. CASE InHandler(old, p, c, e)
  BY <1>1, <1>2, FrameStays DEF Handles, InHandler
<1>3. CASE InGetstring(old, p, c, e)
  <2>1. c.rip[3] \in Int /\ low <= c.rip[3]
    BY <1>1, <1>3, CountsAssumption DEF InGetstring
  <2>2. CalledAt(new, c.rip[3], e)
    BY <1>3, <2>1, FrameStays DEF InGetstring
  <2> QED
    BY <1>1, <1>3, <2>2 DEF Handles, InGetstring
<1>4. CASE AtPops(old, c, e)
  BY <1>1, <1>4, FrameStays DEF Handles, AtPops
<1>5. CASE AtIretq(old, c, e)
  BY <1>1, <1>5, FrameStays DEF Handles, AtIretq
<1>6. CASE AtTheCall(old, p, c, e)
  BY <1>1, <1>6, FrameStays DEF Handles, AtTheCall
<1> QED
  BY <1>2, <1>3, <1>4, <1>5, <1>6 DEF Handles

-----------------------------------------------------------------------------
(* Lemmas about the traps that have not returned *)

LEMMA AppendFacts ==
  ASSUME NEW q, IsTuple(q), NEW e
  PROVE  /\ IsTuple(Append(q, e))
         /\ Len(Append(q, e)) = Len(q) + 1
         /\ Append(q, e)[Len(q) + 1] = e
         /\ \A i \in 1 .. Len(q) : Append(q, e)[i] = q[i]
<1> DEFINE S == {q[i] : i \in 1 .. Len(q)} \union {e}
<1>1. q \in Seq(S) /\ e \in S /\ Len(q) \in Nat
  BY DEF IsTuple
<1>2. Append(q, e) \in Seq(S)
  BY <1>1
<1>3. /\ Len(Append(q, e)) = Len(q) + 1
      /\ Append(q, e)[Len(q) + 1] = e
      /\ \A i \in 1 .. Len(q) : Append(q, e)[i] = q[i]
  BY <1>1, AppendProperties
<1>4. IsTuple(Append(q, e))
  BY <1>2, LenProperties DEF IsTuple
<1> QED
  BY <1>3, <1>4

LEMMA FrontFacts ==
  ASSUME NEW q, IsTuple(q), Len(q) >= 1
  PROVE  /\ IsTuple(Front(q))
         /\ Len(Front(q)) = Len(q) - 1
         /\ \A i \in 1 .. Len(q) - 1 : Front(q)[i] = q[i]
BY DEF IsTuple, Front

-----------------------------------------------------------------------------
(* Traps *)

\* Where the processor puts the frame.
TrapBase(c, base) == (IF c.cs = UserCode THEN tss_rsp0 ELSE c.rsp) = KStack(current, base)

\* The stack pointer a trap starts from: rsp0 or that of the kernel.
LEMMA BaseFacts ==
  ASSUME IInv, ~faulted, NEW c,
         Untrapped(current, c) \/ InKernel(current, c)
  PROVE  \E base \in Int : TrapBase(c, base) /\ (InKernel(current, c) => base = c.rsp[3])
<1>1. KernelCode # UserCode
  BY DEF KernelCode, UserCode, Num
<1>2. CASE InKernel(current, c)
  BY <1>1, <1>2 DEF InKernel, TrapBase
<1>3. CASE Untrapped(current, c) /\ current \in Users
  <2>1. c.cs = UserCode /\ tss_rsp0 = KStack(current, Top)
    BY <1>3 DEF Untrapped, IInv, Sane, Placed
  <2>2. ~InKernel(current, c) /\ TrapBase(c, Top) /\ Top \in Int
    BY <1>1, <2>1 DEF InKernel, TrapBase, Top
  <2> QED
    BY <2>2
<1>4. CASE Untrapped(current, c) /\ current \notin Users
  <2>1. InKernel(current, c)
    BY <1>4 DEF Untrapped, InKernel
  <2> QED
    BY <1>1, <2>1 DEF InKernel, TrapBase
<1> QED
  BY <1>2, <1>3, <1>4

\* A trap, with or without an exception, makes e the innermost trap of the current
\* process and calls its handler.
LEMMA TrapFacts ==
  ASSUME TypesOK, NEW c, NEW v \in Vectors, NEW base \in Int, TrapBase(c, base),
         IsTuple(context[current]), Trap(c, v)
  PROVE  LET q == context'[current]
             e == [cpu |-> c, vector |-> v]
             s == cpu'.rsp[3]
         IN  /\ IsTuple(q) /\ Len(q) = Len(context[current]) + 1 /\ q[Len(q)] = e
             /\ \A i \in 1 .. Len(context[current]) : q[i] = context[current][i]
             /\ s \in Int /\ s <= base
             /\ InKernel(current, cpu')
             /\ cpu'.rip = handler(v)
             /\ cpu'.flags = Flags(FALSE)
             /\ cpu'.regs["rdi"] = KStack(current, s + 1)
             /\ CalledAt(stack'[current], s, e)
             /\ SameFrom(stack[current], stack'[current], base)
             /\ \A p \in (Procs \union {Boot}) \ {current} :
                  stack'[p] = stack[p] /\ context'[p] = context[p]
             /\ DOMAIN stack' = Procs \union {Boot} /\ DOMAIN context' = Procs \union {Boot}
             /\ UNCHANGED <<current, saved_rsp, tss_rsp0, timer_ticks>>
<1> DEFINE e == [cpu |-> c, vector |-> v]
<1>1. current \in Procs \union {Boot} /\ DOMAIN stack = Procs \union {Boot}
      /\ DOMAIN context = Procs \union {Boot}
  BY DEF TypesOK
<1>2. PICK s \in Int :
           /\ s <= base
           /\ cpu'.rsp = KStack(current, s)
           /\ InKernel(current, cpu')
           /\ cpu'.flags = Flags(FALSE)
           /\ cpu'.rip = handler(v)
           /\ cpu'.regs["rdi"] = KStack(current, s + 1)
           /\ CalledAt(stack'[current], s, e)
           /\ DOMAIN stack' = DOMAIN stack
           /\ \A q \in DOMAIN stack \ {current} : stack'[q] = stack[q]
           /\ \A k \in Int : \A x : k >= base /\ Word(stack[current], k, x) => Word(stack'[current], k, x)
  BY <1>1, TrapMakesAFrame, Zenon DEF TrapBase
<1>3. cpu'.rsp[3] = s
  BY <1>2 DEF KStack
<1>4. context' = [context EXCEPT ![current] = Append(@, e)]
      /\ UNCHANGED <<current, saved_rsp, tss_rsp0, timer_ticks>>
  BY DEF Trap
<1>5. /\ context'[current] = Append(context[current], e)
      /\ DOMAIN context' = Procs \union {Boot}
      /\ \A p \in (Procs \union {Boot}) \ {current} : context'[p] = context[p]
  BY <1>1, <1>4
<1>6. SameFrom(stack[current], stack'[current], base)
  BY <1>2 DEF SameFrom
<1> HIDE DEF e
<1>7. LET q == context'[current] IN
      /\ IsTuple(q) /\ Len(q) = Len(context[current]) + 1 /\ q[Len(q)] = e
      /\ \A i \in 1 .. Len(context[current]) : q[i] = context[current][i]
  BY <1>5, AppendFacts
<1> QED
  BY <1>1, <1>2, <1>3, <1>4, <1>5, <1>6, <1>7 DEF e

\* A trap that is no exception strikes code that has not trapped, or a system call
\* with interrupts on.
MayTrap(c, v) ==
  LET q == context[current]
  IN  \/ Len(q) = 0 /\ Untrapped(current, c)
      \/ /\ Len(q) = 1
         /\ Handles(stack[current], current, c, q[1])
         /\ c.flags = Flags(TRUE)
         /\ v \in HardwareVectors

LEMMA TrapKeepsPlaces ==
  ASSUME IInv, ~faulted, UNCHANGED faulted,
         NEW c, NEW v \in HardwareVectors \union {Syscall}, MayTrap(c, v), Trap(c, v)
  PROVE  /\ TypesOK' /\ Placed'
         /\ UNCHANGED current
         /\ Len(context'[current]) >= 1
         /\ context'[current][Len(context'[current])].vector = v
         /\ cpu'.rip = handler(v)
<1> DEFINE q == context[current]
           e == [cpu |-> c, vector |-> v]
<1>1. v \in Vectors /\ TypesOK /\ Placed /\ IsTuple(q)
  BY DEF Vectors, IInv, Sane, Placed, Nested, TypesOK
<1>2. Untrapped(current, c) \/ InKernel(current, c)
  BY DEF MayTrap, Handles
<1>3. PICK base \in Int : TrapBase(c, base) /\ (InKernel(current, c) => base = c.rsp[3])
  BY <1>2, BaseFacts
<1>4. /\ IsTuple(context'[current]) /\ Len(context'[current]) = Len(q) + 1
      /\ context'[current][Len(context'[current])] = e
      /\ \A i \in 1 .. Len(q) : context'[current][i] = q[i]
      /\ cpu'.rsp[3] \in Int /\ cpu'.rsp[3] <= base
      /\ InKernel(current, cpu')
      /\ cpu'.rip = handler(v)
      /\ cpu'.flags = Flags(FALSE)
      /\ cpu'.regs["rdi"] = KStack(current, cpu'.rsp[3] + 1)
      /\ CalledAt(stack'[current], cpu'.rsp[3], e)
      /\ SameFrom(stack[current], stack'[current], base)
      /\ \A p \in (Procs \union {Boot}) \ {current} : stack'[p] = stack[p] /\ context'[p] = context[p]
      /\ DOMAIN stack' = Procs \union {Boot} /\ DOMAIN context' = Procs \union {Boot}
      /\ UNCHANGED <<current, saved_rsp, tss_rsp0, timer_ticks>>
  BY <1>1, <1>3, TrapFacts
<1> DEFINE r1 == context'[current]
<1>5. TypesOK'
  BY <1>1, <1>4 DEF TypesOK
<1>6. Handles(stack'[current], current, cpu', e)
  <2>1. InHandler(stack'[current], current, cpu', e)
    BY <1>4 DEF InHandler
  <2> QED
    BY <1>4, <2>1 DEF Handles
<1>7. CASE Len(q) = 0 /\ Untrapped(current, c)
  <2>1. Len(r1) = 1 /\ r1[1] = e /\ IsTuple(r1)
    BY <1>4, <1>7
  <2>2. Nested(stack'[current], r1, current)
    BY <1>7, <2>1 DEF Nested
  <2>3. Running(stack'[current], r1, cpu', current)
    BY <1>6, <2>1 DEF Running, Below
  <2> QED
    BY <1>1, <1>4, <1>5, <2>2, <2>3 DEF Placed, TypesOK
<1>8. CASE /\ Len(q) = 1 /\ Handles(stack[current], current, c, q[1])
           /\ c.flags = Flags(TRUE) /\ v \in HardwareVectors
  <2>1. Len(r1) = 2 /\ r1[1] = q[1] /\ r1[2] = e /\ IsTuple(r1)
    BY <1>4, <1>8
  <2>2. InKernel(current, c) /\ base = c.rsp[3]
    BY <1>3, <1>8 DEF Handles
  <2>3. Handles(stack'[current], current, c, q[1])
    BY <1>4, <1>8, <2>2, HandlesStays
  <2>4. Untrapped(current, q[1].cpu) /\ q[1].vector \in HardwareVectors \union {Syscall}
    <3>1. Nested(stack[current], q, current)
      BY <1>1 DEF Placed, TypesOK
    <3> HIDE DEF q
    <3> QED
      BY <1>8, <3>1 DEF Nested
  <2>5. Nested(stack'[current], r1, current)
    <3>1. /\ r1[1].cpu = q[1].cpu /\ r1[1].vector = q[1].vector
          /\ r1[2].cpu = c /\ r1[2].vector = v
      BY <2>1
    <3>2. Handles(stack'[current], current, r1[2].cpu, r1[1]) /\ r1[2].cpu.flags = Flags(TRUE)
      BY <1>8, <2>1, <2>3, <3>1
    <3>3. Untrapped(current, r1[1].cpu) /\ r1[1].vector \in HardwareVectors \union {Syscall}
          /\ r1[2].vector \in HardwareVectors
      BY <1>8, <2>4, <3>1
    <3>4. IsTuple(r1) /\ Len(r1) <= 2
      BY <2>1
    <3> HIDE DEF r1, q
    <3> QED
      BY <3>2, <3>3, <3>4, Zenon DEF Nested
  <2>6. cpu'.rip # TheCall
    BY <1>4 DEF handler, TheCall, At
  <2>7. Running(stack'[current], r1, cpu', current)
    BY <1>4, <1>6, <2>1, <2>2, <2>6 DEF Running, Below
  <2> QED
    BY <1>1, <1>4, <1>5, <2>5, <2>7 DEF Placed, TypesOK
<1>9. Len(context'[current]) >= 1 /\ context'[current][Len(context'[current])].vector = v
  BY <1>1, <1>4 DEF IsTuple
<1> QED
  BY <1>4, <1>7, <1>8, <1>9 DEF MayTrap

\* An exception begins the end.
LEMMA ExceptionStops ==
  ASSUME TypesOK, faulted' = TRUE, IsTuple(context[current]), Len(context[current]) <= 2,
         NEW c, NEW v \in 0 .. 31, NEW base \in Int, TrapBase(c, base), Trap(c, v),
         v # 14 \/ (NoSelector(c.rip) /\ Len(context[current]) <= 1)
  PROVE  IInv'
<1> DEFINE q == context[current]
           e == [cpu |-> c, vector |-> v]
           r1 == context'[current]
<1>1. v \in Vectors
  BY DEF Vectors
<1>2. /\ IsTuple(r1) /\ Len(r1) = Len(q) + 1 /\ r1[Len(r1)] = e
      /\ cpu'.rsp[3] \in Int
      /\ InKernel(current, cpu')
      /\ cpu'.rip = handler(v)
      /\ cpu'.flags = Flags(FALSE)
      /\ cpu'.regs["rdi"] = KStack(current, cpu'.rsp[3] + 1)
      /\ CalledAt(stack'[current], cpu'.rsp[3], e)
      /\ DOMAIN stack' = Procs \union {Boot} /\ DOMAIN context' = Procs \union {Boot}
      /\ UNCHANGED <<current, saved_rsp, tss_rsp0, timer_ticks>>
  BY <1>1, TrapFacts
<1>3. TypesOK'
  BY <1>2 DEF TypesOK
<1>4. cpu'.rip = At("fault_handler")
  BY <1>1, <1>2, Places
<1>5. Len(q) \in Nat /\ Len(r1) \in 1 .. 3 /\ (Len(q) <= 1 => Len(r1) <= 2)
  BY <1>2 DEF IsTuple
<1>6. r1[Len(r1)].vector = v /\ r1[Len(r1)].cpu = c
  BY <1>2
<1>7. Stopping(stack'[current], r1, cpu', current)
  <2> HIDE DEF r1, q
  <2> QED
    BY <1>2, <1>4, <1>5, <1>6, Zenon DEF Stopping, q
<1> QED
  BY <1>2, <1>3, <1>7, Zenon DEF IInv

-----------------------------------------------------------------------------
(* Where rip is says what the kernel is doing *)

ProgramTraps == HardwareVectors \union {Syscall}

LEMMA Phases ==
  ASSUME NEW mem, NEW p, NEW c, NEW e, e.vector \in ProgramTraps, Handles(mem, p, c, e)
  PROVE  /\ InKernel(p, c)
         /\ c.rip[1] \in {"at", "getstring"}
         /\ c.rip \notin {At("fault_handler"), At("isr_common_stub"), At("halted")}
         /\ c.rip[1] = "getstring" => InGetstring(mem, p, c, e)
         /\ c.rip = At("generate_timer") => e.vector = Timer /\ InHandler(mem, p, c, e)
         /\ c.rip = At("irq_handler") => e.vector \in Irqs /\ InHandler(mem, p, c, e)
         /\ c.rip = At("syscall_handler") => e.vector = Syscall /\ InHandler(mem, p, c, e)
         /\ c.rip = At("irq0+0x20") => e.vector = Timer /\ AtPops(mem, c, e)
         /\ c.rip = At("irq_common_stub") => e.vector \in Irqs /\ AtPops(mem, c, e)
         /\ c.rip = At("irq128") => e.vector = Syscall /\ AtPops(mem, c, e)
         /\ c.rip = At("iretq") => AtIretq(mem, c, e)
         /\ c.rip = TheCall => AtTheCall(mem, p, c, e)
<1> DEFINE v == e.vector
<1>1. /\ InKernel(p, c)
      /\ \/ InHandler(mem, p, c, e) \/ InGetstring(mem, p, c, e) \/ AtPops(mem, c, e)
         \/ AtIretq(mem, c, e) \/ AtTheCall(mem, p, c, e)
  BY DEF Handles
<1>2. /\ v = Timer => handler(v) = At("generate_timer") /\ Return(stub(v)) = At("irq0+0x20")
      /\ v = Syscall => handler(v) = At("syscall_handler") /\ Return(stub(v)) = At("irq128")
      /\ v \in Irqs => handler(v) = At("irq_handler") /\ Return(stub(v)) = At("irq_common_stub")
      /\ v = Timer \/ v = Syscall \/ v \in Irqs
  BY Places DEF ProgramTraps, HardwareVectors, Vectors
<1> HIDE DEF v
<1>3. CASE InHandler(mem, p, c, e)
  <2>1. c.rip = handler(v)
    BY <1>3 DEF InHandler, v
  <2> QED
    BY <1>1, <1>2, <1>3, <2>1, AtFacts DEF v
<1>4. CASE InGetstring(mem, p, c, e)
  <2>1. c.rip[1] = "getstring"
    BY <1>4 DEF InGetstring
  <2> QED
    BY <1>1, <1>4, <2>1, AtFacts
<1>5. CASE AtPops(mem, c, e)
  <2>1. c.rip = Return(stub(v))
    BY <1>5 DEF AtPops, v
  <2> QED
    BY <1>1, <1>2, <1>5, <2>1, AtFacts DEF v
<1>6. CASE AtIretq(mem, c, e)
  <2>1. c.rip = At("iretq")
    BY <1>6 DEF AtIretq
  <2> QED
    BY <1>1, <1>6, <2>1, AtFacts
<1>7. CASE AtTheCall(mem, p, c, e)
  <2>1. c.rip = TheCall
    BY <1>7 DEF AtTheCall
  <2> QED
    BY <1>1, <1>7, <2>1, AtFacts
<1> QED
  BY <1>1, <1>3, <1>4, <1>5, <1>6, <1>7

\* The current process has not trapped, or the kernel is dealing with its innermost
\* trap, the first or the second.
LEMMA RunningFacts ==
  ASSUME IInv, ~faulted
  PROVE  LET q == context[current]
             e == q[Len(q)]
         IN  /\ IsTuple(q)
             /\ \/ Len(q) = 0 /\ Untrapped(current, cpu)
                \/ /\ Len(q) = 1 \/ (Len(q) = 2 /\ cpu.flags = Flags(FALSE) /\ cpu.rip # TheCall)
                   /\ e.vector \in ProgramTraps
                   /\ Len(q) = 2 => e.vector \in HardwareVectors
                   /\ Handles(stack[current], current, cpu, e)
                   /\ cpu.rip = handler(e.vector) => Below(q, cpu.rsp[3])
                   /\ IsCpu(e.cpu) /\ e.cpu.cs \in {KernelCode, UserCode}
<1> DEFINE q == context[current]
           n == Len(q)
<1>1. Running(stack[current], q, cpu, current) /\ Nested(stack[current], q, current)
  BY DEF IInv, Sane, Placed, TypesOK
<1> HIDE DEF q
<1>2. /\ IsTuple(q) /\ n \in Nat /\ n <= 2
      /\ n >= 1 => q[1].vector \in ProgramTraps
      /\ n = 2 => q[2].vector \in HardwareVectors
  BY <1>1, Zenon DEF Nested, IsTuple, ProgramTraps
<1>3. \/ n = 0 /\ Untrapped(current, cpu)
      \/ /\ n >= 1
         /\ Handles(stack[current], current, cpu, q[n])
         /\ n = 2 => cpu.flags = Flags(FALSE) /\ cpu.rip # TheCall
         /\ cpu.rip = handler(q[n].vector) => Below(q, cpu.rsp[3])
  BY <1>1, Zenon DEF Running
<1> HIDE DEF n
<1>4. n = 0 \/ n = 1 \/ n = 2
  BY <1>2
<1>5. n >= 1 => q[n].vector \in ProgramTraps
  BY <1>2, <1>4 DEF ProgramTraps
<1>6. ~(0 >= 1) /\ 1 >= 1 /\ 2 >= 1
  OBVIOUS
<1>7. n >= 1 => IsCpu(q[n].cpu) /\ q[n].cpu.cs \in {KernelCode, UserCode}
  <2>1. CASE n = 1
    <3>1. Untrapped(current, q[1].cpu)
      BY <1>1, <1>6, <2>1, Zenon DEF Nested, n
    <3> QED
      BY <2>1, <3>1 DEF Untrapped
  <2>2. CASE n = 2
    <3>1. InKernel(current, q[2].cpu)
      BY <1>1, <2>2, Zenon DEF Nested, Handles, n
    <3> QED
      BY <2>2, <3>1 DEF InKernel
  <2> QED
    BY <1>4, <1>6, <2>1, <2>2
<1> QED
  BY <1>2, <1>3, <1>4, <1>5, <1>6, <1>7 DEF n, q

-----------------------------------------------------------------------------
(* One lemma for each kind of step: what traps *)

LEMMA CodeFacts ==
  ASSUME IInv, ~faulted, InCode
  PROVE  LET q == context[current]
         IN  \/ Len(q) = 0 /\ Untrapped(current, cpu) /\ cpu.rip = Code(current)
             \/ Len(q) = 1 /\ InKernel(current, cpu) /\ InGetstring(stack[current], current, cpu, q[1])
<1> DEFINE q == context[current]
<1>1. CASE Len(q) = 0 /\ Untrapped(current, cpu)
  BY <1>1 DEF Untrapped
<1>2. CASE ~(Len(q) = 0 /\ Untrapped(current, cpu))
  <2>1. /\ Len(q) = 1 \/ (Len(q) = 2 /\ cpu.flags = Flags(FALSE))
        /\ Handles(stack[current], current, cpu, q[Len(q)])
        /\ q[Len(q)].vector \in ProgramTraps
    BY <1>2, RunningFacts
  <2>2. cpu.rip[1] # "at"
    BY DEF InCode
  <2>3. InKernel(current, cpu) /\ InGetstring(stack[current], current, cpu, q[Len(q)])
    BY <2>1, <2>2, Phases
  <2>4. cpu.flags # Flags(FALSE)
    BY <2>3, AtFacts DEF InGetstring
  <2> QED
    BY <2>1, <2>3, <2>4
<1> QED
  BY <1>1, <1>2

\* With interrupts on nothing is in service.
LEMMA NoneInServiceWhenOn ==
  ASSUME IInv, ~faulted, cpu.flags = Flags(TRUE)
  PROVE  in_service = NoneInService
<1> DEFINE q == context[current]
           e == q[Len(q)]
<1>1. ServiceFollows(q, cpu, in_service)
  BY DEF IInv, Sane
<1>2. ASSUME Len(q) >= 1, e.vector \in HardwareVectors, cpu.rip = handler(e.vector) PROVE FALSE
  <2>0. ~(0 >= 1)
    OBVIOUS
  <2>1. Handles(stack[current], current, cpu, e) /\ e.vector \in ProgramTraps
    BY <1>2, <2>0, RunningFacts, Zenon
  <2>2. cpu.rip \in {At("generate_timer"), At("irq_handler")}
    BY <1>2, Places DEF HardwareVectors, Vectors
  <2>3. InHandler(stack[current], current, cpu, e)
    BY <2>1, <2>2, Phases, Zenon
  <2> QED
    BY <2>3, AtFacts DEF InHandler
<1> HIDE DEF e, q
<1> QED
  BY <1>1, <1>2, Zenon DEF ServiceFollows, e

\* A step that changes nothing but the CPU and what is in service.
LEMMA CpuStep ==
  ASSUME IInv, ~faulted,
         UNCHANGED <<stack, current, saved_rsp, tss_rsp0, context, faulted>>,
         timer_ticks' \in 0 .. TicksPerSlice - 1,
         Running(stack[current], context[current], cpu', current),
         ServiceFollows(context[current], cpu', in_service')
  PROVE  IInv'
<1>1. TypesOK'
  BY DEF IInv, TypesOK
<1>2. Placed'
  BY DEF IInv, Sane, Placed
<1> QED
  BY <1>1, <1>2 DEF IInv, Sane

\* After an exception the kernel is in one of four places, with interrupts off.
LEMMA StoppingPlaces ==
  ASSUME IInv, faulted
  PROVE  /\ cpu.rip \in {At("fault_handler"), At("isr_common_stub"), At("iretq"), At("halted")}
         /\ cpu.flags = Flags(FALSE)
         /\ ~InCode
<1>1. /\ cpu.rip \in {At("fault_handler"), At("isr_common_stub"), At("iretq"), At("halted")}
      /\ cpu.flags = Flags(FALSE)
  BY DEF IInv, Stopping
<1> QED
  BY <1>1, AtFacts DEF InCode

LEMMA RunKeepsIInv == ASSUME IInv, Run PROVE IInv'
<1> DEFINE q == context[current]
           choices == IF cpu.rip = Code(Idle) THEN {KStack(Idle, Top), KStack(Idle, Top - 1)} ELSE {cpu.rsp}
<1>0. /\ InCode
      /\ UNCHANGED <<stack, current, saved_rsp, tss_rsp0, timer_ticks, in_service, context, faulted>>
  BY DEF Run
<1>1. ~faulted /\ TypesOK
  BY <1>0, StoppingPlaces DEF IInv
<1>2. PICK rsp \in choices :
        cpu' = [cpu EXCEPT !.regs = [g \in Registers |-> <<"value", g, cpu.rip>>], !.rsp = rsp]
  BY Zenon DEF Run
<1> DEFINE regs == [g \in Registers |-> <<"value", g, cpu.rip>>]
<1>3. regs = [g \in Registers |-> regs[g]]
  OBVIOUS
<1> HIDE DEF regs
<1>4. ASSUME IsCpu(cpu)
      PROVE  /\ IsCpu(cpu') /\ cpu'.rip = cpu.rip /\ cpu'.cs = cpu.cs /\ cpu'.flags = cpu.flags
             /\ cpu'.rsp = rsp
  BY <1>2, <1>3, <1>4 DEF IsCpu, regs
<1>5. Running(stack[current], q, cpu', current) /\ cpu.flags = Flags(TRUE)
  <2>1. CASE Len(q) = 0 /\ Untrapped(current, cpu) /\ cpu.rip = Code(current)
    <3>1. IsCpu(cpu) /\ cpu.flags = Flags(TRUE)
      BY <2>1 DEF Untrapped
    <3>2. cpu.rip = Code(Idle) <=> current = Idle
      BY <2>1 DEF Code
    <3>3. CASE current = Idle
      <4>1. rsp = KStack(Idle, rsp[3]) /\ rsp[3] \in Int
        BY <3>2, <3>3 DEF KStack, Top
      <4>2. Untrapped(current, cpu')
        BY <1>4, <2>1, <3>1, <3>3, <4>1, PcbsAssumption DEF Untrapped
      <4> QED
        BY <2>1, <3>1, <4>2 DEF Running
    <3>4. CASE current # Idle
      <4>1. Untrapped(current, cpu')
        BY <1>4, <2>1, <3>1, <3>2, <3>4 DEF Untrapped
      <4> QED
        BY <2>1, <3>1, <4>1 DEF Running
    <3> QED
      BY <3>3, <3>4
  <2>2. CASE Len(q) = 1 /\ InKernel(current, cpu) /\ InGetstring(stack[current], current, cpu, q[1])
    <3>1. IsCpu(cpu) /\ cpu.rip # Code(Idle) /\ cpu.flags = Flags(TRUE)
      BY <2>2, AtFacts DEF InKernel, InGetstring
    <3>2. rsp = cpu.rsp
      BY <3>1
    <3>3. InKernel(current, cpu') /\ InGetstring(stack[current], current, cpu', q[1])
      BY <1>4, <2>2, <3>1, <3>2 DEF InKernel, InGetstring
    <3>4. Handles(stack[current], current, cpu', q[1])
      BY <3>3, Zenon DEF Handles
    <3> QED
      BY <2>2, <3>1, <3>4 DEF Running, Below
  <2> QED
    BY <1>0, <1>1, <2>1, <2>2, CodeFacts
<1>6. in_service = NoneInService
  BY <1>1, <1>5, NoneInServiceWhenOn
<1>7. ServiceFollows(q, cpu', in_service')
  BY <1>0, <1>6 DEF ServiceFollows
<1>8. timer_ticks' \in 0 .. TicksPerSlice - 1
  BY <1>0, <1>1 DEF TypesOK
<1> QED
  BY <1>0, <1>1, <1>5, <1>7, <1>8, CpuStep

LEMMA InterruptKeepsIInv ==
  ASSUME IInv, NEW v \in Irqs \union {Timer}, Interrupt(v) PROVE IInv'
<1> DEFINE q == context[current]
<1>1. cpu.flags = Flags(TRUE) /\ Trap(cpu, v) /\ in_service' = Delivered(v) /\ UNCHANGED faulted
  BY DEF Interrupt
<1>2. ~faulted
  BY <1>1, StoppingPlaces, AtFacts
<1>3. v \in HardwareVectors
  BY DEF HardwareVectors
<1>4. MayTrap(cpu, v)
  <2>1. CASE Len(q) = 0 /\ Untrapped(current, cpu)
    BY <2>1 DEF MayTrap
  <2>2. CASE ~(Len(q) = 0 /\ Untrapped(current, cpu))
    <3>1. Len(q) = 1 /\ Handles(stack[current], current, cpu, q[Len(q)])
      BY <1>1, <1>2, <2>2, RunningFacts, AtFacts
    <3> QED
      BY <1>1, <1>3, <3>1 DEF MayTrap
  <2> QED
    BY <2>1, <2>2
<1>5. /\ TypesOK' /\ Placed' /\ UNCHANGED current
      /\ Len(context'[current]) >= 1
      /\ context'[current][Len(context'[current])].vector = v
      /\ cpu'.rip = handler(v)
  BY <1>1, <1>2, <1>3, <1>4, TrapKeepsPlaces
<1>6. in_service' = [master |-> {Master(v)}, slave |-> IF v < 40 THEN {} ELSE {v - 32}]
  <2>1. in_service.master = {} /\ in_service.slave = {}
    BY <1>1, <1>2, NoneInServiceWhenOn DEF NoneInService
  <2> QED
    BY <1>1, <2>1 DEF Delivered
<1>7. ServiceFollows(context'[current], cpu', in_service')
  BY <1>3, <1>5, <1>6, Zenon DEF ServiceFollows
<1> QED
  BY <1>1, <1>2, <1>5, <1>7 DEF IInv, Sane

LEMMA SystemCallKeepsIInv ==
  ASSUME IInv, NEW number \in SyscallNumbers, SystemCall(number) PROVE IInv'
<1> DEFINE q == context[current]
           c == [cpu EXCEPT !.regs["rax"] = Num(number)]
<1>1. InCode /\ cpu.cs = UserCode /\ Trap(c, Syscall) /\ UNCHANGED <<in_service, faulted>>
  BY DEF SystemCall
<1>2. ~faulted
  BY <1>1, StoppingPlaces
<1>3. KernelCode # UserCode
  BY DEF KernelCode, UserCode, Num
<1>4. Len(q) = 0 /\ Untrapped(current, cpu)
  BY <1>1, <1>2, <1>3, CodeFacts DEF InKernel
<1>5. Untrapped(current, c)
  <2> DEFINE regs == [cpu.regs EXCEPT !["rax"] = Num(number)]
  <2>1. IsCpu(cpu)
    BY <1>4 DEF Untrapped
  <2>2. cpu.regs = [g \in Registers |-> cpu.regs[g]]
    BY <2>1 DEF IsCpu
  <2>3. regs = [g \in Registers |-> regs[g]]
    BY <2>2
  <2>4. c = [cpu EXCEPT !.regs = regs]
    BY <2>1 DEF IsCpu
  <2> HIDE DEF regs, c
  <2>5. /\ IsCpu(c) /\ c.rip = cpu.rip /\ c.flags = cpu.flags /\ c.cs = cpu.cs /\ c.rsp = cpu.rsp
    BY <2>1, <2>3, <2>4 DEF IsCpu
  <2> QED
    BY <1>4, <2>5 DEF Untrapped
<1>6. MayTrap(c, Syscall)
  BY <1>4, <1>5 DEF MayTrap
<1> HIDE DEF c
<1>7. TypesOK' /\ Placed'
  BY <1>1, <1>2, <1>6, TrapKeepsPlaces
<1>8. in_service = NoneInService
  BY <1>2, <1>4, NoneInServiceWhenOn DEF Untrapped
<1>9. ServiceFollows(context'[current'], cpu', in_service')
  BY <1>1, <1>8, Zenon DEF ServiceFollows
<1> QED
  BY <1>1, <1>2, <1>7, <1>9 DEF IInv, Sane

LEMMA ExceptionKeepsIInv ==
  ASSUME IInv, NEW v \in Exceptions, Exception(v) PROVE IInv'
<1> DEFINE q == context[current]
           c == IF InCode THEN cpu ELSE [cpu EXCEPT !.rsp = KStack(cpu.rsp[2], @[3] - CallWords)]
<1>1. /\ InCode \/ cpu.rip = At("syscall_handler")
      /\ Trap(c, v) /\ faulted' = TRUE /\ v \in 0 .. 31
  BY VectorsAssumption DEF Exception
<1>2. ~faulted
  BY <1>1, StoppingPlaces, AtFacts
<1>3. TypesOK /\ IsTuple(q)
  BY <1>2, RunningFacts DEF IInv
<1>4. /\ Len(q) = 0 \/ Len(q) = 1
      /\ Untrapped(current, c) \/ InKernel(current, c)
      /\ NoSelector(c.rip)
  <2>1. CASE InCode
    <3>1. c = cpu
      BY <2>1
    <3>2. NoSelector(cpu.rip)
      BY <2>1 DEF InCode, NoSelector, KernelCode, UserCode, Num
    <3> QED
      BY <1>2, <2>1, <3>1, <3>2, CodeFacts
  <2>2. CASE ~InCode
    <3>1. ~Untrapped(current, cpu)
      BY <2>2, AtFacts DEF Untrapped, InCode
    <3>2. /\ Len(q) = 1 \/ (Len(q) = 2 /\ q[Len(q)].vector \in HardwareVectors)
          /\ Handles(stack[current], current, cpu, q[Len(q)])
          /\ q[Len(q)].vector \in ProgramTraps
      BY <1>2, <3>1, RunningFacts
    <3>3. q[Len(q)].vector = Syscall /\ InKernel(current, cpu)
      BY <1>1, <2>2, <3>2, Phases
    <3>4. Len(q) = 1
      BY <3>2, <3>3, VectorFacts
    <3>5. InKernel(current, c) /\ c.rip = cpu.rip
      <4>1. cpu.rsp[2] = current /\ cpu.rsp[3] - CallWords \in Int
        BY <3>3, CountsAssumption DEF InKernel, KStack
      <4>2. c = [cpu EXCEPT !.rsp = KStack(current, cpu.rsp[3] - CallWords)]
        BY <2>2, <4>1
      <4>3. KStack(current, cpu.rsp[3] - CallWords)[3] = cpu.rsp[3] - CallWords
        BY DEF KStack
      <4> HIDE DEF c
      <4> QED
        BY <3>3, <4>1, <4>2, <4>3 DEF InKernel, IsCpu
    <3>6. NoSelector(cpu.rip)
      BY <1>1, <2>2, AtFacts DEF NoSelector, KernelCode, UserCode, Num
    <3> QED
      BY <3>4, <3>5, <3>6
  <2> QED
    BY <2>1, <2>2
<1> HIDE DEF c
<1>5. PICK base \in Int : TrapBase(c, base)
  BY <1>2, <1>4, BaseFacts
<1>6. Len(q) <= 2 /\ Len(q) <= 1
  <2> DEFINE n == Len(q)
  <2>1. n = 0 \/ n = 1
    BY <1>4
  <2> HIDE DEF n
  <2>2. n <= 2 /\ n <= 1
    BY <2>1
  <2> QED
    BY <2>2 DEF n
<1> QED
  BY <1>1, <1>3, <1>4, <1>5, <1>6, ExceptionStops

-----------------------------------------------------------------------------
(* Handlers *)

\* The fields of *r, once rdi points to a frame.
LEMMA FieldFacts ==
  ASSUME NEW p, NEW s \in Int, cpu.regs["rdi"] = KStack(p, s), NEW k \in 1 .. 22
  PROVE  r(registers[k]) = stack[p][s + k - 1]
<1>1. cpu.regs["rdi"][2] = p /\ cpu.regs["rdi"][3] = s
  BY DEF KStack
<1>2. (CHOOSE i \in DOMAIN registers : registers[i] = registers[k]) = k
  BY FieldIndex
<1>3. s - 1 + k = s + k - 1
  OBVIOUS
<1> QED
  BY <1>1, <1>2, <1>3 DEF r

LEMMA IntNo ==
  ASSUME NEW p, NEW s \in Int, cpu.regs["rdi"] = KStack(p, s),
         NEW e, FrameAt(stack[p], s, e), e.vector # Timer
  PROVE  r("int_no") = Num(e.vector)
<1>1. r(registers[16]) = stack[p][s + 16 - 1]
  BY FieldFacts
<1>2. registers[16] = "int_no" /\ s + 16 - 1 = s + 15
  BY DEF registers
<1> QED
  BY <1>1, <1>2 DEF FrameAt, Word

\* What the steps of the kernel set in the CPU, and what they leave alone.
MovedTo(c, rip, rsp) == [c EXCEPT !.rip = rip, !.rsp = rsp]
WaitingAt(c, rip, flags, rsp) == [c EXCEPT !.rip = rip, !.flags = flags, !.rsp = rsp]
WithPopped(c, regs, rsp, rip) == [c EXCEPT !.regs = regs, !.rsp = rsp, !.rip = rip]

LEMMA MovedCpu ==
  ASSUME NEW c, IsCpu(c), NEW rip, NEW rsp
  PROVE  LET d == MovedTo(c, rip, rsp) IN
         /\ IsCpu(d)
         /\ d.rip = rip /\ d.rsp = rsp /\ d.flags = c.flags /\ d.cs = c.cs /\ d.regs = c.regs
<1> DEFINE d == MovedTo(c, rip, rsp)
           old == c.regs  ip == c.rip  cs == c.cs  fl == c.flags  sp == c.rsp  ss == c.ss
<1>1. old = [g \in Registers |-> old[g]]
  BY DEF IsCpu
<1>2. c = [regs |-> old, rip |-> ip, cs |-> cs, flags |-> fl, rsp |-> sp, ss |-> ss]
  BY <1>1, Zenon DEF IsCpu
<1> HIDE DEF old, ip, cs, fl, sp, ss
<1>3. d = [regs |-> old, rip |-> rip, cs |-> cs, flags |-> fl, rsp |-> rsp, ss |-> ss]
  <2>1. d = MovedTo(c, rip, rsp)
    OBVIOUS
  <2> HIDE DEF d
  <2> QED
    BY <1>2, <2>1 DEF MovedTo
<1> HIDE DEF d
<1>4. IsCpu(d)
  <2> DEFINE new == [g \in Registers |-> d.regs[g]]
  <2>0. d.regs = old
    BY <1>3
  <2>1. new = d.regs
    BY <1>1, <2>0
  <2> HIDE DEF new
  <2>2. d = [regs |-> new, rip |-> d.rip, cs |-> d.cs, flags |-> d.flags, rsp |-> d.rsp, ss |-> d.ss]
    BY <1>3, <2>1
  <2> QED
    BY <2>2, Zenon DEF IsCpu, new
<1> QED
  BY <1>3, <1>4 DEF d, old, ip, cs, fl, sp, ss

LEMMA CpuMoves ==
  ASSUME IsCpu(cpu), NEW rip, NEW rsp, cpu' = MovedTo(cpu, rip, rsp)
  PROVE  /\ IsCpu(cpu')
         /\ cpu'.rip = rip /\ cpu'.cs = cpu.cs /\ cpu'.rsp = rsp /\ cpu'.flags = cpu.flags
BY MovedCpu

LEMMA WaitingCpu ==
  ASSUME NEW c, IsCpu(c), NEW rip, NEW flags, NEW rsp
  PROVE  LET d == WaitingAt(c, rip, flags, rsp) IN
         /\ IsCpu(d)
         /\ d.rip = rip /\ d.rsp = rsp /\ d.flags = flags /\ d.cs = c.cs /\ d.regs = c.regs
<1> DEFINE d == WaitingAt(c, rip, flags, rsp)
           old == c.regs  ip == c.rip  cs == c.cs  fl == c.flags  sp == c.rsp  ss == c.ss
<1>1. old = [g \in Registers |-> old[g]]
  BY DEF IsCpu
<1>2. c = [regs |-> old, rip |-> ip, cs |-> cs, flags |-> fl, rsp |-> sp, ss |-> ss]
  BY <1>1, Zenon DEF IsCpu
<1> HIDE DEF old, ip, cs, fl, sp, ss
<1>3. d = [regs |-> old, rip |-> rip, cs |-> cs, flags |-> flags, rsp |-> rsp, ss |-> ss]
  <2>1. d = WaitingAt(c, rip, flags, rsp)
    OBVIOUS
  <2> HIDE DEF d
  <2> QED
    BY <1>2, <2>1 DEF WaitingAt
<1> HIDE DEF d
<1>4. IsCpu(d)
  <2> DEFINE new == [g \in Registers |-> d.regs[g]]
  <2>0. d.regs = old
    BY <1>3
  <2>1. new = d.regs
    BY <1>1, <2>0
  <2> HIDE DEF new
  <2>2. d = [regs |-> new, rip |-> d.rip, cs |-> d.cs, flags |-> d.flags, rsp |-> d.rsp, ss |-> d.ss]
    BY <1>3, <2>1
  <2> QED
    BY <2>2, Zenon DEF IsCpu, new
<1> QED
  BY <1>3, <1>4 DEF d, old, ip, cs, fl, sp, ss

LEMMA PoppedCpu ==
  ASSUME NEW c, IsCpu(c), NEW regs, regs = [g \in Registers |-> regs[g]], NEW rsp, NEW rip
  PROVE  LET d == WithPopped(c, regs, rsp, rip) IN
         /\ IsCpu(d)
         /\ d.rip = rip /\ d.rsp = rsp /\ d.flags = c.flags /\ d.cs = c.cs /\ d.regs = regs
<1> DEFINE d == WithPopped(c, regs, rsp, rip)
           old == c.regs  ip == c.rip  cs == c.cs  fl == c.flags  sp == c.rsp  ss == c.ss
<1>1. old = [g \in Registers |-> old[g]]
  BY DEF IsCpu
<1>2. c = [regs |-> old, rip |-> ip, cs |-> cs, flags |-> fl, rsp |-> sp, ss |-> ss]
  BY <1>1, Zenon DEF IsCpu
<1> HIDE DEF old, ip, cs, fl, sp, ss
<1>3. d = [regs |-> regs, rip |-> rip, cs |-> cs, flags |-> fl, rsp |-> rsp, ss |-> ss]
  <2>1. d = WithPopped(c, regs, rsp, rip)
    OBVIOUS
  <2> HIDE DEF d
  <2> QED
    BY <1>2, <2>1 DEF WithPopped
<1> HIDE DEF d
<1>4. IsCpu(d)
  <2> DEFINE new == [g \in Registers |-> d.regs[g]]
  <2>0. d.regs = regs
    BY <1>3
  <2>1. new = d.regs
    BY <2>0
  <2> HIDE DEF new
  <2>2. d = [regs |-> new, rip |-> d.rip, cs |-> d.cs, flags |-> d.flags, rsp |-> d.rsp, ss |-> d.ss]
    BY <1>3, <2>1
  <2> QED
    BY <2>2, Zenon DEF IsCpu, new
<1> QED
  BY <1>3, <1>4 DEF d, old, ip, cs, fl, sp, ss

\* The ret of a handler goes to its stub.
LEMMA RetFacts ==
  ASSUME NEW e, InKernel(current, cpu), CalledAt(stack[current], cpu.rsp[3], e), ret
  PROVE  /\ InKernel(current, cpu')
         /\ cpu'.rip = Return(stub(e.vector))
         /\ cpu'.flags = cpu.flags
         /\ cpu'.rsp[3] = cpu.rsp[3] + 1
         /\ FrameAt(stack[current], cpu'.rsp[3], e)
<1> DEFINE s == cpu.rsp[3]
<1>1. cpu.rsp[2] = current /\ s \in Int /\ IsCpu(cpu) /\ cpu.cs = KernelCode
  BY DEF InKernel, KStack
<1>2. stack[current][s] = Return(stub(e.vector)) /\ FrameAt(stack[current], s + 1, e)
  BY DEF CalledAt, Word
<1>3. cpu' = MovedTo(cpu, Return(stub(e.vector)), KStack(current, s + 1))
  BY <1>1, <1>2 DEF ret, rspOwner, rspIndex, Mem, MovedTo
<1>4. KStack(current, s + 1)[3] = s + 1
  BY DEF KStack
<1> HIDE DEF s
<1>5. /\ IsCpu(cpu') /\ cpu'.rip = Return(stub(e.vector)) /\ cpu'.flags = cpu.flags
      /\ cpu'.cs = KernelCode /\ cpu'.rsp = KStack(current, s + 1)
  <2>1. cpu'.rip = Return(stub(e.vector)) /\ cpu'.rsp = KStack(current, s + 1)
        /\ cpu'.flags = cpu.flags /\ cpu'.cs = cpu.cs /\ IsCpu(cpu')
    BY <1>1, <1>3, MovedCpu
  <2> QED
    BY <1>1, <2>1
<1> QED
  BY <1>1, <1>2, <1>4, <1>5 DEF InKernel, s

\* So a handler that returns has its stub pop what trapped.
LEMMA RetKeepsRunning ==
  ASSUME IInv, ~faulted, ret,
         NEW v \in ProgramTraps,
         v = context[current][Len(context[current])].vector,
         cpu.rip = handler(v),
         cpu.rip \in {At("generate_timer"), At("irq_handler"), At("syscall_handler")}
  PROVE  Running(stack[current], context[current], cpu', current) /\ Len(context[current]) >= 1
<1> DEFINE q == context[current]
           e == q[Len(q)]
<1>1. /\ Len(q) = 1 \/ (Len(q) = 2 /\ cpu.flags = Flags(FALSE))
      /\ Handles(stack[current], current, cpu, e)
  BY RunningFacts, AtFacts DEF Untrapped
<1>2. InKernel(current, cpu) /\ InHandler(stack[current], current, cpu, e)
  BY <1>1, Phases, Zenon
<1> HIDE DEF e, q
<1>3. /\ InKernel(current, cpu')
      /\ cpu'.rip = Return(stub(e.vector))
      /\ cpu'.flags = Flags(FALSE)
      /\ FrameAt(stack[current], cpu'.rsp[3], e)
  BY <1>2, RetFacts DEF InHandler
<1>4. Handles(stack[current], current, cpu', e)
  BY <1>3 DEF Handles, AtPops, FlagsOnReturn
<1>5. cpu'.rip # TheCall /\ cpu'.rip # handler(e.vector)
  <2>1. e.vector = v /\ v \in Vectors /\ (v = Timer \/ v = Syscall \/ v \in Irqs)
    BY DEF e, q, ProgramTraps, Vectors, HardwareVectors
  <2>2. Return(stub(v)) \in {At("irq0+0x20"), At("irq128"), At("irq_common_stub")}
        /\ handler(v) \in {At("generate_timer"), At("irq_handler"), At("syscall_handler")}
    BY <2>1, Places
  <2> QED
    BY <1>3, <2>1, <2>2, AtFacts
<1>6. Len(q) >= 1
  <2> DEFINE n == Len(q)
  <2>1. n = 1 \/ n = 2
    BY <1>1
  <2> HIDE DEF n
  <2>2. n >= 1
    BY <2>1
  <2> QED
    BY <2>2 DEF n
<1> QED
  BY <1>3, <1>4, <1>5, <1>6, Zenon DEF Running, e, q

\* An end of interrupt leaves nothing in service.
LEMMA EndedFacts ==
  /\ Ended({}) = {}
  /\ \A x \in Int : Ended({x}) = {}
  /\ EndOfInterrupt(NoneInService) = NoneInService
<1>1. Ended({}) = {} /\ \A x \in Int : Ended({x}) = {}
  BY DEF Ended
<1> QED
  BY <1>1 DEF EndOfInterrupt, NoneInService

LEMMA FaultHandlerKeepsIInv == ASSUME IInv, fault_handler PROVE IInv'
<1> DEFINE q == context[current]
           e == q[Len(q)]
           s == cpu.rsp[3]
<1>1. /\ cpu.rip = At("fault_handler")
      /\ IF r("int_no") = Num(14) THEN ret ELSE cpu' = [cpu EXCEPT !.rip = At("halted")]
      /\ UNCHANGED <<stack, timer_ticks, current, saved_rsp, tss_rsp0, context, faulted>>
  BY DEF fault_handler, HandlerStays
<1>2. faulted
  <2>1. ASSUME ~faulted PROVE FALSE
    <3>1. cpu.rip[1] = "at" /\ ~Untrapped(current, cpu)
      BY <1>1, AtFacts DEF Untrapped
    <3>2. Handles(stack[current], current, cpu, e) /\ e.vector \in ProgramTraps
      BY <2>1, <3>1, RunningFacts
    <3> QED
      BY <1>1, <3>2, Phases
  <2> QED
    BY <2>1 DEF IInv, TypesOK
<1>3. TypesOK' /\ Stopping(stack[current], q, cpu, current)
  BY <1>1, <1>2 DEF IInv, TypesOK
<1> HIDE DEF e, q
<1>4. /\ InKernel(current, cpu) /\ cpu.flags = Flags(FALSE) /\ IsTuple(q) /\ Len(q) \in 1 .. 3
      /\ e.vector \in 0 .. 31
      /\ CalledAt(stack[current], s, e)
      /\ cpu.regs["rdi"] = KStack(current, s + 1)
      /\ e.vector # 14 \/ (NoSelector(e.cpu.rip) /\ Len(q) <= 2)
  BY <1>1, <1>3, AtFacts, Zenon DEF Stopping, e
<1>5. Stopping(stack[current], q, cpu', current)
  <2>1. s \in Int /\ s + 1 \in Int /\ IsCpu(cpu) /\ cpu.cs = KernelCode
    BY <1>4 DEF InKernel
  <2>2. e.vector # Timer /\ FrameAt(stack[current], s + 1, e)
    <3>1. e.vector # Timer
      <4>1. e.vector \in 0 .. 31
        BY <1>4
      <4>2. \A n \in 0 .. 31 : n # 32
        OBVIOUS
      <4> QED
        BY <4>1, <4>2 DEF Timer
    <3> QED
      BY <1>4, <3>1, Zenon DEF CalledAt
  <2>3. r("int_no") = Num(e.vector)
    BY <1>4, <2>1, <2>2, IntNo
  <2>4. CASE r("int_no") = Num(14)
    <3>1. e.vector = 14 /\ NoSelector(e.cpu.rip) /\ Len(q) <= 2
      BY <1>4, <2>3, <2>4 DEF Num
    <3>2. ret
      BY <1>1, <2>4
    <3>3. /\ InKernel(current, cpu')
          /\ cpu'.rip = Return(stub(e.vector))
          /\ cpu'.flags = Flags(FALSE)
          /\ cpu'.rsp[3] = s + 1
      BY <1>4, <3>2, RetFacts
    <3>4. cpu'.rip = At("isr_common_stub")
      BY <1>4, <3>3, Places DEF Vectors
    <3>5. Skip(14) = 3
      BY DEF Skip, Timer, ErrorCode, PushesDummy
    <3>6. stack[current][s + 1 + 15 + 3] = e.cpu.rip
      BY <2>2, <3>1, <3>5 DEF FrameAt, IretWords, Word
    <3>7. s + 1 + 18 = s + 1 + 15 + 3
      BY <2>1
    <3>8. NoSelector(stack[current][cpu'.rsp[3] + 18])
      BY <3>1, <3>3, <3>6, <3>7
    <3> QED
      BY <1>4, <3>1, <3>3, <3>4, <3>8, Zenon DEF Stopping
  <2>5. CASE r("int_no") # Num(14)
    <3>1. cpu' = MovedTo(cpu, At("halted"), cpu.rsp)
      <4>1. cpu' = [cpu EXCEPT !.rip = At("halted")]
        BY <1>1, <2>5
      <4>2. [cpu EXCEPT !.rip = At("halted")] = [cpu EXCEPT !.rip = At("halted"), !.rsp = cpu.rsp]
        BY <2>1 DEF IsCpu
      <4> QED
        BY <4>1, <4>2 DEF MovedTo
    <3>2. IsCpu(cpu') /\ cpu'.rip = At("halted") /\ cpu'.rsp = cpu.rsp
          /\ cpu'.flags = cpu.flags /\ cpu'.cs = cpu.cs
      BY <2>1, <3>1, MovedCpu
    <3>3. InKernel(current, cpu')
      BY <1>4, <3>2 DEF InKernel
    <3> QED
      BY <1>4, <3>2, <3>3, Zenon DEF Stopping
  <2> QED
    BY <2>4, <2>5
<1> QED
  BY <1>1, <1>2, <1>3, <1>5 DEF IInv, q

LEMMA IrqHandlerKeepsIInv == ASSUME IInv, irq_handler PROVE IInv'
<1> DEFINE q == context[current]
           v == q[Len(q)].vector
<1>1. /\ cpu.rip = At("irq_handler") /\ ret
      /\ in_service' = Acknowledged(r("int_no"))
      /\ UNCHANGED <<stack, timer_ticks, current, saved_rsp, tss_rsp0, context, faulted>>
  BY DEF irq_handler, HandlerStays
<1>2. ~faulted
  BY <1>1, StoppingPlaces, AtFacts
<1>3. Handles(stack[current], current, cpu, q[Len(q)]) /\ v \in ProgramTraps
  BY <1>1, <1>2, RunningFacts, AtFacts DEF Untrapped
<1>4. v \in Irqs /\ InHandler(stack[current], current, cpu, q[Len(q)]) /\ InKernel(current, cpu)
  BY <1>1, <1>3, Phases
<1>5. cpu.rip = handler(v) /\ v # Timer
  BY <1>4, VectorsAssumption DEF InHandler, Timer
<1>6. Running(stack[current], q, cpu', current)
  BY <1>1, <1>2, <1>3, <1>5, RetKeepsRunning
<1>7. r("int_no") = Num(v)
  <2>1. cpu.rsp[3] + 1 \in Int /\ cpu.regs["rdi"] = KStack(current, cpu.rsp[3] + 1)
        /\ FrameAt(stack[current], cpu.rsp[3] + 1, q[Len(q)])
    BY <1>4, <1>5 DEF InHandler, InKernel, CalledAt
  <2> QED
    BY <1>5, <2>1, IntNo
<1>8. ServiceFollows(q, cpu, in_service)
  BY <1>2 DEF IInv, Sane
<1> HIDE DEF v, q
<1>9. \/ in_service = NoneInService
      \/ in_service = [master |-> {Master(v)}, slave |-> IF v < 40 THEN {} ELSE {v - 32}]
  BY <1>8, Zenon DEF ServiceFollows, v
<1>10. v \in 33 .. 47 /\ Master(v) \in Int
  BY <1>4, VectorsAssumption DEF Master
<1>11. PICK m, sl : /\ in_service = [master |-> m, slave |-> sl]
                    /\ Ended(m) = {} /\ Ended(sl) = {} /\ (v < 40 => sl = {})
  <2>1. CASE in_service = NoneInService
    BY <2>1, EndedFacts DEF NoneInService
  <2>2. CASE in_service = [master |-> {Master(v)}, slave |-> IF v < 40 THEN {} ELSE {v - 32}]
    <3>1. v - 32 \in Int
      BY <1>10
    <3>2. Ended({Master(v)}) = {} /\ Ended(IF v < 40 THEN {} ELSE {v - 32}) = {}
      BY <1>10, <3>1, EndedFacts
    <3> QED
      BY <2>2, <3>2
  <2> QED
    BY <1>9, <2>1, <2>2
<1>12. Acknowledged(Num(v)) = NoneInService
  <2>1. CASE v = 33
    <3>1. Acknowledged(Num(v)) = EndOfInterrupt(EndOfInterrupt(in_service))
      <4>1. Num(v) = Num(33) /\ Num(v) \notin {Num(w) : w \in 40 .. 47}
        BY <2>1 DEF Num
      <4> QED
        BY <4>1, Zenon DEF Acknowledged
    <3>2. EndOfInterrupt(in_service) = NoneInService
      BY <1>11, <2>1 DEF EndOfInterrupt, NoneInService
    <3> QED
      BY <3>1, <3>2, EndedFacts
  <2>2. CASE v \in 40 .. 47
    <3>1. Acknowledged(Num(v)) = EndOfInterrupt([in_service EXCEPT !.slave = Ended(@)])
      <4>1. Num(v) # Num(33) /\ Num(v) \in {Num(w) : w \in 40 .. 47}
        BY <2>2 DEF Num
      <4> QED
        BY <4>1, Zenon DEF Acknowledged
    <3> QED
      BY <1>11, <3>1 DEF EndOfInterrupt, NoneInService
  <2>3. CASE v # 33 /\ v \notin 40 .. 47
    <3>1. Acknowledged(Num(v)) = EndOfInterrupt(in_service)
      <4>1. Num(v) # Num(33) /\ Num(v) \notin {Num(w) : w \in 40 .. 47}
        BY <2>3 DEF Num
      <4> QED
        BY <4>1, Zenon DEF Acknowledged
    <3>2. v < 40
      BY <1>10, <2>3
    <3> QED
      BY <1>11, <3>1, <3>2 DEF EndOfInterrupt, NoneInService
  <2> QED
    BY <2>1, <2>2, <2>3
<1>13. ServiceFollows(q, cpu', in_service')
  BY <1>1, <1>7, <1>12 DEF ServiceFollows
<1>14. timer_ticks' \in 0 .. TicksPerSlice - 1
  BY <1>1 DEF IInv, TypesOK
<1> QED
  BY <1>1, <1>2, <1>6, <1>13, <1>14, CpuStep DEF q

LEMMA SyscallHandlerKeepsIInv == ASSUME IInv, syscall_handler PROVE IInv'
<1> DEFINE q == context[current]
           e == q[Len(q)]
           s == cpu.rsp[3]
<1>1. /\ cpu.rip = At("syscall_handler")
      /\ IF r("rax") = Num(2)
         THEN /\ cpu' = [cpu EXCEPT !.rip = <<"getstring", current, rspIndex>>, !.flags = Flags(TRUE),
                                    !.rsp = KStack(rspOwner, rspIndex - CallWords)]
              /\ UNCHANGED in_service
         ELSE ret /\ in_service' = EndOfInterrupt(in_service)
      /\ UNCHANGED <<stack, timer_ticks, current, saved_rsp, tss_rsp0, context, faulted>>
  BY DEF syscall_handler, HandlerStays
<1>2. ~faulted
  BY <1>1, StoppingPlaces, AtFacts
<1>3. /\ Handles(stack[current], current, cpu, e) /\ e.vector \in ProgramTraps
      /\ Len(q) = 1 \/ (Len(q) = 2 /\ e.vector \in HardwareVectors)
  BY <1>1, <1>2, RunningFacts, AtFacts DEF Untrapped
<1>4. e.vector = Syscall /\ InHandler(stack[current], current, cpu, e) /\ InKernel(current, cpu)
  BY <1>1, <1>3, Phases
<1>5. Len(q) = 1 /\ e.vector \notin HardwareVectors
  BY <1>3, <1>4, VectorFacts
<1>6. in_service = NoneInService
  <2>1. ServiceFollows(q, cpu, in_service)
    BY <1>2 DEF IInv, Sane
  <2> HIDE DEF e, q
  <2> QED
    BY <1>5, <2>1, Zenon DEF ServiceFollows, e
<1>7. in_service' = NoneInService
  BY <1>1, <1>6, EndedFacts
<1>8. Running(stack[current], q, cpu', current)
  <2>1. CASE r("rax") = Num(2)
    <3>1. cpu.rsp[2] = current /\ s \in Int /\ IsCpu(cpu) /\ cpu.cs = KernelCode
      BY <1>4 DEF InKernel, KStack
    <3>2. cpu' = WaitingAt(cpu, <<"getstring", current, s>>, Flags(TRUE), KStack(current, s - CallWords))
      BY <1>1, <2>1, <3>1 DEF WaitingAt, rspOwner, rspIndex
    <3>3. /\ IsCpu(cpu') /\ cpu'.rip = <<"getstring", current, s>> /\ cpu'.cs = KernelCode
          /\ cpu'.rsp = KStack(current, s - CallWords) /\ cpu'.flags = Flags(TRUE)
      <4> DEFINE rip == <<"getstring", current, s>>
                 rsp == KStack(current, s - CallWords)
                 on == Flags(TRUE)
                 d == WaitingAt(cpu, rip, on, rsp)
      <4>1. IsCpu(cpu) /\ cpu' = d
        BY <3>1, <3>2
      <4> HIDE DEF rip, rsp, on
      <4>2. IsCpu(d) /\ d.rip = rip /\ d.cs = cpu.cs /\ d.rsp = rsp /\ d.flags = on
        BY <4>1, WaitingCpu
      <4>3. IsCpu(cpu') /\ cpu'.rip = rip /\ cpu'.cs = cpu.cs /\ cpu'.rsp = rsp /\ cpu'.flags = on
        BY <4>1, <4>2
      <4> QED
        BY <3>1, <4>3 DEF rip, rsp, on
    <3>4. s - CallWords \in Int
      BY <3>1, CountsAssumption
    <3>5. cpu'.rsp[3] = s - CallWords /\ cpu'.rip[1] = "getstring" /\ cpu'.rip[3] = s
      BY <3>3 DEF KStack
    <3>6. CalledAt(stack[current], s, e)
      BY <1>4 DEF InHandler
    <3> HIDE DEF e, q, s
    <3>7. InKernel(current, cpu')
      BY <3>3, <3>4, <3>5 DEF InKernel
    <3>8. InGetstring(stack[current], current, cpu', e)
      BY <1>4, <3>1, <3>3, <3>5, <3>6 DEF InGetstring
    <3>9. Handles(stack[current], current, cpu', e)
      BY <3>7, <3>8, Zenon DEF Handles
    <3> QED
      BY <1>5, <3>9 DEF Running, Below, e
  <2>2. CASE r("rax") # Num(2)
    <3>1. ret
      BY <1>1, <2>2
    <3>2. cpu.rip = handler(e.vector)
      BY <1>4 DEF InHandler
    <3> QED
      BY <1>1, <1>2, <1>3, <3>1, <3>2, RetKeepsRunning
  <2> QED
    BY <2>1, <2>2
<1>9. ServiceFollows(q, cpu', in_service')
  BY <1>7 DEF ServiceFollows
<1>10. timer_ticks' \in 0 .. TicksPerSlice - 1
  BY <1>1 DEF IInv, TypesOK
<1> QED
  BY <1>1, <1>2, <1>8, <1>9, <1>10, CpuStep

LEMMA LeaveGetstringKeepsIInv == ASSUME IInv, LeaveGetstring PROVE IInv'
<1> DEFINE q == context[current]
           e == q[1]
           t == cpu.rip[3]
<1>1. /\ cpu.rip[1] = "getstring"
      /\ cpu' = [cpu EXCEPT !.rip = Mem[t], !.rsp = KStack(rspOwner, t + 1)]
      /\ in_service' = EndOfInterrupt(in_service)
      /\ UNCHANGED <<stack, timer_ticks, current, saved_rsp, tss_rsp0, context, faulted>>
  BY DEF LeaveGetstring, HandlerStays
<1>2. ~faulted /\ InCode
  BY <1>1, StoppingPlaces DEF InCode
<1>3. Len(q) = 1 /\ InKernel(current, cpu) /\ InGetstring(stack[current], current, cpu, e)
  BY <1>1, <1>2, CodeFacts, AtFacts
<1>4. /\ cpu.rsp[2] = current /\ t \in Int /\ IsCpu(cpu) /\ cpu.cs = KernelCode
      /\ cpu.flags = Flags(TRUE) /\ e.vector = Syscall
      /\ CalledAt(stack[current], t, e)
  BY <1>3 DEF InKernel, InGetstring, KStack
<1>5. in_service' = NoneInService
  BY <1>1, <1>2, <1>4, NoneInServiceWhenOn, EndedFacts
<1>6. stack[current][t] = Return(stub(e.vector)) /\ FrameAt(stack[current], t + 1, e)
  BY <1>4, Zenon DEF CalledAt, Word
<1> HIDE DEF e, q, t
<1>7. cpu' = MovedTo(cpu, Return(stub(e.vector)), KStack(current, t + 1))
  BY <1>1, <1>4, <1>6 DEF rspOwner, Mem, MovedTo
<1>8. /\ IsCpu(cpu') /\ cpu'.rip = Return(stub(e.vector)) /\ cpu'.cs = KernelCode
      /\ cpu'.rsp = KStack(current, t + 1) /\ cpu'.flags = Flags(TRUE)
  <2>1. IsCpu(cpu)
    BY <1>4
  <2> DEFINE d == MovedTo(cpu, Return(stub(e.vector)), KStack(current, t + 1))
  <2>2. /\ IsCpu(d) /\ d.rip = Return(stub(e.vector)) /\ d.cs = cpu.cs
        /\ d.rsp = KStack(current, t + 1) /\ d.flags = cpu.flags
    BY <2>1, MovedCpu
  <2> QED
    BY <1>4, <1>7, <2>2
<1>9. cpu'.rsp[3] = t + 1 /\ t + 1 \in Int
  BY <1>4, <1>8 DEF KStack
<1>10. InKernel(current, cpu')
  BY <1>8, <1>9 DEF InKernel
<1>11. AtPops(stack[current], cpu', e)
  BY <1>4, <1>6, <1>8, <1>9 DEF AtPops, FlagsOnReturn
<1>12. Handles(stack[current], current, cpu', e)
  BY <1>10, <1>11, Zenon DEF Handles
<1>13. Running(stack[current], q, cpu', current)
  BY <1>3, <1>12 DEF Running, Below, e
<1>14. ServiceFollows(q, cpu', in_service')
  BY <1>5 DEF ServiceFollows
<1>15. timer_ticks' \in 0 .. TicksPerSlice - 1
  BY <1>1 DEF IInv, TypesOK
<1> QED
  BY <1>1, <1>2, <1>13, <1>14, <1>15, CpuStep DEF q

-----------------------------------------------------------------------------
(* The timer *)

\* Whoever was suspended is resumed in its own generate_timer, or at the call of it.
LEMMA ResumeRuns ==
  ASSUME IInv, ~faulted, NEW p \in Procs \ {current},
         InKernel(current, cpu), cpu.flags = Flags(FALSE),
         ResumeAt(stack[p], saved_rsp[p])
  PROVE  Running(stack[p], context[p], cpu', p)
<1> DEFINE q == context[p]
           e == q[Len(q)]
           s == saved_rsp[p][3] + TimerPushes
<1>1. Suspended(stack[p], q, saved_rsp[p], p)
  BY DEF IInv, Sane, Placed
<1> HIDE DEF e, q
<1>2. /\ Len(q) >= 1 /\ e.vector = Timer
      /\ saved_rsp[p] = KStack(p, saved_rsp[p][3]) /\ saved_rsp[p][3] \in Int
      /\ Word(stack[p], s, Return("irq0")) \/ (p = Idle /\ Len(q) = 1 /\ Word(stack[p], s, TheCall))
      /\ FrameAt(stack[p], s + 1, e)
  BY <1>1, Zenon DEF Suspended, e
<1>3. s \in Int /\ s + 1 \in Int /\ saved_rsp[p][2] = p
  BY <1>2, CountsAssumption DEF KStack
<1> DEFINE rip == stack[p][s]
           rsp == KStack(p, s + 1)
<1>4. cpu' = MovedTo(cpu, rip, rsp)
  BY <1>3 DEF ResumeAt, MovedTo
<1>5. rip = Return("irq0") \/ (p = Idle /\ Len(q) = 1 /\ rip = TheCall)
  BY <1>2, Zenon DEF Word
<1>6. rsp[3] = s + 1 /\ rsp = KStack(p, s + 1)
  BY DEF KStack
<1> HIDE DEF rip, rsp, s
<1>7. /\ IsCpu(cpu') /\ cpu'.rip = rip /\ cpu'.rsp = rsp /\ cpu'.cs = KernelCode
      /\ cpu'.flags = Flags(FALSE)
  <2>1. IsCpu(cpu)
    BY DEF InKernel
  <2>2. IsCpu(cpu') /\ cpu'.rip = rip /\ cpu'.cs = cpu.cs /\ cpu'.rsp = rsp /\ cpu'.flags = cpu.flags
    BY <1>4, <2>1, CpuMoves, Zenon
  <2> QED
    BY <2>2 DEF InKernel
<1>8. InKernel(p, cpu')
  BY <1>3, <1>6, <1>7 DEF InKernel
<1>9. FrameAt(stack[p], cpu'.rsp[3], e)
  BY <1>2, <1>6, <1>7
<1>10. /\ handler(e.vector) = At("generate_timer")
       /\ Return(stub(e.vector)) = At("irq0+0x20") /\ Return("irq0") = At("irq0+0x20")
  BY <1>2, Places DEF Vectors, HardwareVectors, Return
<1>11. CASE rip = Return("irq0")
  <2>1. Handles(stack[p], p, cpu', e)
    BY <1>7, <1>8, <1>9, <1>10, <1>11 DEF Handles, AtPops, FlagsOnReturn
  <2>2. cpu'.rip # TheCall /\ cpu'.rip # handler(e.vector)
    BY <1>7, <1>10, <1>11, AtFacts
  <2> QED
    BY <1>2, <1>7, <2>1, <2>2, Zenon DEF Running, e, q
<1>12. CASE p = Idle /\ Len(q) = 1 /\ rip = TheCall
  <2>1. Handles(stack[p], p, cpu', e)
    BY <1>2, <1>7, <1>8, <1>9, <1>12 DEF Handles, AtTheCall
  <2>2. cpu'.rip # handler(e.vector)
    BY <1>7, <1>10, <1>12, AtFacts
  <2>3. Len(q) # 2
    BY <1>12
  <2> QED
    BY <1>2, <2>1, <2>2, <2>3, Zenon DEF Running, e, q
<1> QED
  BY <1>5, <1>11, <1>12

LEMMA GenerateTimerKeepsIInv == ASSUME IInv, generate_timer PROVE IInv'
<1> DEFINE q == context[current]
           e == q[Len(q)]
           s == cpu.rsp[3]
<1>1. /\ cpu.rip = At("generate_timer")
      /\ TimerTick \/ FirstSchedule \/ \E p \in Procs : SwitchProcess(p)
      /\ in_service' = EndOfInterrupt(in_service)
      /\ UNCHANGED <<context, faulted>>
  BY DEF generate_timer
<1>2. ~faulted /\ TypesOK /\ Placed
  BY <1>1, StoppingPlaces, AtFacts DEF IInv, Sane
<1>3. /\ Handles(stack[current], current, cpu, e) /\ e.vector \in ProgramTraps
      /\ cpu.rip = handler(e.vector) => Below(q, s)
      /\ Len(q) = 1 \/ Len(q) = 2
  BY <1>1, <1>2, RunningFacts, AtFacts DEF Untrapped
<1>4. e.vector = Timer /\ InHandler(stack[current], current, cpu, e) /\ InKernel(current, cpu)
  BY <1>1, <1>3, Phases
<1>5. /\ cpu.rip = handler(e.vector) /\ cpu.flags = Flags(FALSE) /\ Below(q, s)
      /\ CalledAt(stack[current], s, e) /\ s \in Int /\ cpu.rsp[2] = current
      /\ cpu.rsp = KStack(current, s)
  BY <1>3, <1>4 DEF InHandler, InKernel, KStack
<1>6. in_service' = NoneInService
  <2>1. ServiceFollows(q, cpu, in_service)
    BY <1>2 DEF IInv, Sane
  <2> HIDE DEF e, q
  <2>2. \/ in_service = NoneInService
        \/ in_service = [master |-> {Master(Timer)}, slave |-> IF Timer < 40 THEN {} ELSE {Timer - 32}]
    BY <1>4, <2>1, Zenon DEF ServiceFollows, e
  <2>3. CASE in_service = NoneInService
    BY <1>1, <2>3, EndedFacts
  <2>4. CASE in_service = [master |-> {Master(Timer)}, slave |-> IF Timer < 40 THEN {} ELSE {Timer - 32}]
    <3>1. Master(Timer) = 0 /\ (IF Timer < 40 THEN {} ELSE {Timer - 32}) = {}
      BY DEF Master, Timer
    <3>2. in_service = [master |-> {0}, slave |-> {}]
      BY <2>4, <3>1
    <3>3. Ended({0}) = {}
      BY EndedFacts
    <3> QED
      BY <1>1, <3>2, <3>3 DEF EndOfInterrupt, NoneInService
  <2> QED
    BY <2>2, <2>3, <2>4
<1>7. \A c : ServiceFollows(context'[current'], c, in_service')
  BY <1>6, Zenon DEF ServiceFollows
<1>8. timer_ticks \in 0 .. TicksPerSlice - 1 /\ TicksPerSlice \in Nat \ {0, 1}
  BY <1>2, CountsAssumption DEF TypesOK
<1>9. CASE TimerTick
  <2>1. ret /\ UNCHANGED <<stack, current, saved_rsp, tss_rsp0>>
        /\ timer_ticks' = timer_ticks + 1 /\ timer_ticks + 1 # TicksPerSlice
    BY <1>9 DEF TimerTick
  <2>2. timer_ticks' \in 0 .. TicksPerSlice - 1
    BY <1>8, <2>1
  <2>3. Running(stack[current], q, cpu', current)
    BY <1>1, <1>2, <1>3, <1>5, <2>1, RetKeepsRunning
  <2> QED
    BY <1>1, <1>2, <1>7, <2>1, <2>2, <2>3, CpuStep
<1>10. CASE FirstSchedule
  <2>1. /\ current = Boot /\ current' = Idle /\ timer_ticks' = 0
        /\ ResumeAt(stack[Idle], saved_rsp[Idle])
        /\ UNCHANGED <<stack, saved_rsp, tss_rsp0>>
    BY <1>10 DEF FirstSchedule
  <2>2. Idle \in Procs \ {current} /\ Idle \notin Users /\ Procs \ {Idle} \subseteq Procs \ {current}
    BY <2>1, PcbsAssumption DEF Procs
  <2>3. Running(stack[Idle], context[Idle], cpu', Idle)
    BY <1>2, <1>4, <1>5, <2>1, <2>2, ResumeRuns
  <2>4. TypesOK'
    BY <1>1, <1>2, <1>8, <2>1, <2>2 DEF TypesOK
  <2>5. Placed'
    BY <1>1, <1>2, <2>1, <2>2, <2>3 DEF Placed
  <2> QED
    BY <1>1, <1>2, <1>7, <2>4, <2>5 DEF IInv, Sane
<1>11. ASSUME NEW p \in Procs, SwitchProcess(p) PROVE IInv'
  <2> DEFINE words == [k \in 1 .. TimerPushes |-> <<"kernel", "rbx">>]
  <2>1. /\ current \in Procs /\ p # current /\ timer_ticks' = 0
        /\ stack' = [stack EXCEPT ![current] = Pushed(@, s, words)]
        /\ saved_rsp' = [saved_rsp EXCEPT ![current] = KStack(current, s - TimerPushes)]
        /\ current' = p
        /\ tss_rsp0' = NewRsp0(p)
        /\ ResumeAt(stack[p], saved_rsp[p])
    <3>1. current \notin {Boot, p}
      BY <1>11 DEF SwitchProcess
    <3>2. rspOwner = current /\ rspIndex = s
      BY <1>5 DEF rspOwner, rspIndex
    <3> QED
      BY <1>2, <1>11, <3>1, <3>2 DEF SwitchProcess, SavedRsp, TypesOK
  <2>2. Running(stack[p], context[p], cpu', p)
    BY <1>2, <1>4, <1>5, <2>1, ResumeRuns
  <2>3. /\ stack'[current] = Pushed(stack[current], s, words)
        /\ \A x \in (Procs \union {Boot}) \ {current} : stack'[x] = stack[x]
        /\ \A x \in Procs \ {current} : saved_rsp'[x] = saved_rsp[x]
        /\ saved_rsp'[current] = KStack(current, s - TimerPushes)
        /\ DOMAIN stack' = Procs \union {Boot} /\ DOMAIN saved_rsp' = Procs
    BY <1>2, <2>1 DEF TypesOK
  <2>4. SameFrom(stack[current], stack'[current], s)
    <3>1. Len(words) \in Nat
      BY CountsAssumption
    <3> HIDE DEF words
    <3> QED
      BY <1>5, <2>3, <3>1, PushedFacts DEF SameFrom
  <2> HIDE DEF words, s
  <2>5. TypesOK'
    BY <1>1, <1>2, <1>8, <2>1, <2>3 DEF TypesOK
  <2>6. Suspended(stack'[current], q, saved_rsp'[current], current)
    <3> DEFINE t == saved_rsp'[current][3] + TimerPushes
    <3>1. saved_rsp'[current][3] = s - TimerPushes /\ s - TimerPushes \in Int /\ t = s
      BY <1>5, <2>3, CountsAssumption DEF KStack
    <3>2. CalledAt(stack'[current], s, e)
      BY <1>5, <2>4, FrameStays
    <3>3. Return(stub(e.vector)) = Return("irq0")
      BY <1>4, Places DEF Vectors, HardwareVectors, Return
    <3>4. Word(stack'[current], t, Return("irq0")) /\ FrameAt(stack'[current], t + 1, e)
      BY <3>1, <3>2, <3>3 DEF CalledAt
    <3>5. Len(q) >= 1
      <4> DEFINE n == Len(q)
      <4>1. n = 1 \/ n = 2
        BY <1>3
      <4> HIDE DEF n
      <4>2. n >= 1
        BY <4>1
      <4> QED
        BY <4>2 DEF n
    <3>6. saved_rsp'[current] = KStack(current, saved_rsp'[current][3]) /\ saved_rsp'[current][3] \in Int
      BY <2>3, <3>1
    <3> HIDE DEF q
    <3> QED
      BY <1>4, <3>4, <3>5, <3>6, Zenon DEF Suspended, e
  <2>7. Nested(stack'[current], q, current)
    <3>1. Nested(stack[current], q, current)
      BY <1>2 DEF Placed, TypesOK
    <3>2. Len(q) = 2 => Handles(stack'[current], current, q[2].cpu, q[1])
      <4>1. SUFFICES ASSUME Len(q) = 2 PROVE Handles(stack'[current], current, q[2].cpu, q[1])
        OBVIOUS
      <4>2. Handles(stack[current], current, q[2].cpu, q[1])
        BY <3>1, <4>1, Zenon DEF Nested
      <4>3. s <= q[2].cpu.rsp[3]
        BY <1>5, <4>1, Zenon DEF Below
      <4> QED
        BY <1>5, <2>4, <4>2, <4>3, HandlesStays
    <3> HIDE DEF q
    <3> QED
      BY <3>1, <3>2, Zenon DEF Nested
  <2>8. p \in Users => tss_rsp0' = KStack(p, Top)
    BY <2>1 DEF NewRsp0
  <2>9. Placed'
    <3>1. ASSUME NEW x \in Procs \union {Boot} PROVE Nested(stack'[x], context'[x], x)
      BY <1>1, <1>2, <2>3, <2>7 DEF Placed
    <3>2. ASSUME NEW x \in Procs \ {p} PROVE Suspended(stack'[x], context'[x], saved_rsp'[x], x)
      BY <1>1, <1>2, <2>3, <2>6 DEF Placed
    <3>3. Running(stack'[p], context'[p], cpu', p)
      BY <1>1, <2>1, <2>2, <2>3
    <3> QED
      BY <2>1, <2>8, <3>1, <3>2, <3>3 DEF Placed
  <2> QED
    BY <1>1, <1>2, <1>7, <2>1, <2>5, <2>9 DEF IInv, Sane
<1> QED
  BY <1>1, <1>9, <1>10, <1>11

\* The idle process calls generate_timer for the first time.
LEMMA CallGenerateTimerKeepsIInv == ASSUME IInv, CallGenerateTimer PROVE IInv'
<1> DEFINE q == context[current]
           e == q[1]
           s == cpu.rsp[3]
           words == <<Return("irq0")>>
<1>1. /\ cpu.rip = TheCall
      /\ stack' = [stack EXCEPT ![rspOwner] = Pushed(@, rspIndex, words)]
      /\ cpu' = [cpu EXCEPT !.rip = At("generate_timer"), !.rsp = KStack(rspOwner, rspIndex - 1)]
      /\ UNCHANGED <<timer_ticks, in_service, current, saved_rsp, tss_rsp0, context, faulted>>
  BY DEF CallGenerateTimer, HandlerStays
<1>2. ~faulted /\ TypesOK /\ Placed
  BY <1>1, StoppingPlaces, AtFacts DEF IInv, Sane
<1>3. /\ Len(q) = 1 /\ Handles(stack[current], current, cpu, e) /\ e.vector \in ProgramTraps
  BY <1>1, <1>2, RunningFacts, AtFacts DEF Untrapped
<1>4. AtTheCall(stack[current], current, cpu, e) /\ InKernel(current, cpu)
  BY <1>1, <1>3, Phases
<1>5. /\ e.vector = Timer /\ cpu.flags = Flags(FALSE) /\ FrameAt(stack[current], s, e)
      /\ IsCpu(cpu) /\ cpu.cs = KernelCode /\ s \in Int /\ cpu.rsp[2] = current
      /\ current \in Procs \union {Boot}
  BY <1>2, <1>4 DEF AtTheCall, InKernel, KStack, TypesOK
<1>6. cpu' = MovedTo(cpu, At("generate_timer"), KStack(current, s - 1))
  BY <1>1, <1>5 DEF rspOwner, rspIndex, MovedTo
<1>7. /\ IsCpu(cpu') /\ cpu'.rip = At("generate_timer") /\ cpu'.cs = KernelCode
      /\ cpu'.rsp = KStack(current, s - 1) /\ cpu'.flags = Flags(FALSE)
  <2>1. IsCpu(cpu)
    BY <1>5
  <2>2. /\ IsCpu(cpu') /\ cpu'.rip = At("generate_timer") /\ cpu'.cs = cpu.cs
        /\ cpu'.rsp = KStack(current, s - 1) /\ cpu'.flags = cpu.flags
    BY <1>6, <2>1, CpuMoves, Zenon
  <2> QED
    BY <1>5, <2>2
<1>8. cpu'.rsp[3] = s - 1 /\ s - 1 \in Int
  BY <1>5, <1>7 DEF KStack
<1>9. InKernel(current, cpu')
  BY <1>7, <1>8 DEF InKernel
<1>10. /\ stack'[current] = Pushed(stack[current], s, words)
       /\ \A x \in (Procs \union {Boot}) \ {current} : stack'[x] = stack[x]
       /\ DOMAIN stack' = Procs \union {Boot}
  BY <1>1, <1>2, <1>5 DEF rspOwner, rspIndex, TypesOK
<1>11. Len(words) = 1 /\ words[1] = Return("irq0")
  OBVIOUS
<1> HIDE DEF words
<1>12. SameFrom(stack[current], stack'[current], s) /\ Word(stack'[current], s - 1, Return("irq0"))
  <2>1. 1 \in 1 .. Len(words) /\ Len(words) \in Nat
    BY <1>11
  <2> QED
    BY <1>5, <1>10, <1>11, <2>1, PushedFacts DEF SameFrom
<1>13. handler(e.vector) = At("generate_timer") /\ Return(stub(e.vector)) = Return("irq0")
  BY <1>5, Places DEF Vectors, HardwareVectors, Return
<1>14. CalledAt(stack'[current], cpu'.rsp[3], e)
  <2>1. FrameAt(stack'[current], s, e)
    BY <1>5, <1>12, FrameStays
  <2>2. s - 1 + 1 = s
    BY <1>5
  <2> QED
    BY <1>8, <1>12, <1>13, <2>1, <2>2 DEF CalledAt
<1>15. Handles(stack'[current], current, cpu', e)
  BY <1>5, <1>7, <1>9, <1>13, <1>14 DEF Handles, InHandler
<1>16. Running(stack'[current], q, cpu', current)
  BY <1>3, <1>15 DEF Running, Below
<1>17. Nested(stack'[current], q, current)
  <2>1. Nested(stack[current], q, current) /\ Len(q) # 2
    BY <1>2, <1>3, <1>5 DEF Placed
  <2> HIDE DEF q
  <2> QED
    BY <2>1, Zenon DEF Nested
<1>18. TypesOK'
  BY <1>1, <1>2, <1>10 DEF TypesOK
<1>19. Placed'
  <2>1. ASSUME NEW x \in Procs \union {Boot} PROVE Nested(stack'[x], context'[x], x)
    BY <1>1, <1>2, <1>10, <1>17 DEF Placed
  <2>2. ASSUME NEW x \in Procs \ {current} PROVE Suspended(stack'[x], context'[x], saved_rsp'[x], x)
    BY <1>1, <1>2, <1>10 DEF Placed
  <2>3. Running(stack'[current], context'[current], cpu', current)
    BY <1>1, <1>16
  <2>4. current \in Users => tss_rsp0 = KStack(current, Top)
    BY <1>2 DEF Placed
  <2> QED
    BY <1>1, <2>1, <2>2, <2>3, <2>4 DEF Placed
<1>20. in_service = NoneInService
  <2>1. ServiceFollows(q, cpu, in_service)
    BY <1>2 DEF IInv, Sane
  <2>2. cpu.rip # handler(e.vector)
    BY <1>1, <1>13, AtFacts
  <2> QED
    BY <1>3, <2>1, <2>2 DEF ServiceFollows
<1> QED
  BY <1>1, <1>2, <1>18, <1>19, <1>20 DEF IInv, Sane, ServiceFollows

-----------------------------------------------------------------------------
(* The way back *)

\* In the kernel, one trap or two have not returned.
LEMMA TrappedFacts ==
  ASSUME IInv, ~faulted, cpu.rip[1] = "at"
  PROVE  LET q == context[current]
             e == q[Len(q)]
         IN  /\ Len(q) = 1 \/ Len(q) = 2
             /\ Len(q) >= 1
             /\ Len(q) = 2 => cpu.flags = Flags(FALSE)
             /\ Handles(stack[current], current, cpu, e)
             /\ e.vector \in ProgramTraps
             /\ IsCpu(e.cpu) /\ e.cpu.cs \in {KernelCode, UserCode}
<1> DEFINE q == context[current]
           e == q[Len(q)]
           n == Len(q)
<1>1. ~Untrapped(current, cpu)
  BY AtFacts DEF Untrapped
<1>2. /\ n = 1 \/ (n = 2 /\ cpu.flags = Flags(FALSE))
      /\ Handles(stack[current], current, cpu, e) /\ e.vector \in ProgramTraps
      /\ IsCpu(e.cpu) /\ e.cpu.cs \in {KernelCode, UserCode}
  BY <1>1, RunningFacts, Zenon
<1> HIDE DEF n
<1>3. n = 1 => n # 2
  OBVIOUS
<1>4. n = 2 => cpu.flags = Flags(FALSE)
  BY <1>2, <1>3, Zenon
<1>5. n = 1 \/ n = 2
  BY <1>2
<1>6. n >= 1
  BY <1>5
<1> HIDE DEF e, q
<1> QED
  BY <1>2, <1>4, <1>5, <1>6, Zenon DEF n, e, q

\* The words a stub pops are the registers of what trapped, each in its place.
LEMMA PopsTheRegisters ==
  ASSUME NEW mem, NEW s \in Int, NEW e, FrameAt(mem, s, e), IsCpu(e.cpu)
  PROVE  [g \in Registers |-> mem[s - 1 + CHOOSE k \in DOMAIN PopOrder : PopOrder[k] = g]] = e.cpu.regs
<1> DEFINE popped(g) == mem[s - 1 + CHOOSE k \in DOMAIN PopOrder : PopOrder[k] = g]
<1>1. ASSUME NEW k \in 1 .. 15 PROVE popped(PopOrder[k]) = e.cpu.regs[PopOrder[k]]
  <2>1. popped(PopOrder[k]) = mem[s - 1 + k]
    BY PopIndex
  <2>2. s - 1 + k = s + k - 1
    OBVIOUS
  <2> QED
    BY <2>1, <2>2 DEF FrameAt, Word
<1>2. \A g \in Registers : \E k \in 1 .. 15 : g = PopOrder[k]
  BY RegistersArePopped
<1>3. ASSUME NEW g \in Registers PROVE popped(g) = e.cpu.regs[g]
  <2>1. PICK k \in 1 .. 15 : g = PopOrder[k]
    BY <1>2
  <2> HIDE DEF popped
  <2> QED
    BY <1>1, <2>1
<1> HIDE DEF popped
<1>4. e.cpu.regs = [g \in Registers |-> e.cpu.regs[g]]
  BY DEF IsCpu
<1>5. [g \in Registers |-> popped(g)] = e.cpu.regs
  BY <1>3, <1>4
<1> QED
  BY <1>5 DEF popped

\* Between the registers and rip lie two words, of the timer none.
LEMMA ProgramSkip ==
  ASSUME NEW v \in ProgramTraps
  PROVE  Skip(v) = IF v = Timer THEN 0 ELSE 2
<1>1. v >= 32 /\ v \in Int
  BY VectorFacts DEF ProgramTraps
<1>2. v \notin ErrorCode
  BY <1>1 DEF ErrorCode
<1> QED
  BY <1>2 DEF Skip

LEMMA PopRegistersKeepsIInv ==
  ASSUME OnePushAssumption, IInv,
         NEW name \in {"isr_common_stub", "irq_common_stub", "irq128", "irq0"}, PopRegisters(name)
  PROVE  IInv'
<1> DEFINE q == context[current]
           e == q[Len(q)]
           s == cpu.rsp[3]
           over == IF name = "irq0" THEN 0 ELSE 2
           regs == [g \in Registers |-> Mem[rspIndex - 1 + CHOOSE k \in DOMAIN PopOrder : PopOrder[k] = g]]
           rsp == KStack(current, s + 15 + over)
<1>1. /\ cpu.rip = Return(name)
      /\ cpu' = [cpu EXCEPT !.regs = regs, !.rsp = KStack(rspOwner, rspIndex + Len(PopOrder) + over),
                            !.rip = At("iretq")]
      /\ UNCHANGED <<stack, timer_ticks, in_service, current, saved_rsp, tss_rsp0, context, faulted>>
  BY DEF PopRegisters, HandlerStays
<1>2. cpu.rip = At(IF name = "irq0" THEN "irq0+0x20" ELSE name)
  BY <1>1 DEF Return
<1>3. over \in Int
  OBVIOUS
<1>4. ASSUME InKernel(current, cpu)
      PROVE  /\ InKernel(current, cpu') /\ cpu'.rip = At("iretq") /\ cpu'.flags = cpu.flags
             /\ cpu'.regs = regs /\ cpu'.rsp[3] = s + 15 + over /\ s \in Int
             /\ cpu'.rsp = rsp
  <2>1. IsCpu(cpu) /\ cpu.cs = KernelCode /\ s \in Int /\ cpu.rsp[2] = current
    BY <1>4 DEF InKernel, KStack
  <2>2. cpu' = WithPopped(cpu, regs, rsp, At("iretq"))
    BY <1>1, <2>1, PopsAreThePushes DEF WithPopped, rspOwner, rspIndex
  <2>3. rsp[3] = s + 15 + over /\ s + 15 + over \in Int
    BY <1>3, <2>1 DEF KStack
  <2>4. regs = [g \in Registers |-> regs[g]]
    OBVIOUS
  <2>5. rsp = KStack(current, rsp[3])
    BY <2>3
  <2> HIDE DEF regs, rsp, over
  <2>6. /\ IsCpu(cpu') /\ cpu'.rip = At("iretq") /\ cpu'.rsp = rsp /\ cpu'.flags = cpu.flags
        /\ cpu'.cs = cpu.cs /\ cpu'.regs = regs
    <3>1. IsCpu(cpu)
      BY <2>1
    <3> QED
      BY <2>2, <2>4, <3>1, PoppedCpu
  <2> QED
    BY <2>1, <2>3, <2>5, <2>6 DEF InKernel
<1>5. CASE ~faulted
  <2>1. /\ Len(q) = 1 \/ Len(q) = 2
        /\ Handles(stack[current], current, cpu, e) /\ e.vector \in ProgramTraps
        /\ IsCpu(e.cpu)
        /\ Len(q) = 2 => cpu.flags = Flags(FALSE)
        /\ Len(q) >= 1
    BY <1>2, <1>5, AtFacts, TrappedFacts
  <2>2. /\ AtPops(stack[current], cpu, e) /\ InKernel(current, cpu)
        /\ e.vector = Timer <=> name = "irq0"
    <3>1. e.vector = Timer => e.vector # Syscall /\ e.vector \notin Irqs
      BY VectorsAssumption DEF Timer, Syscall
    <3> HIDE DEF e, q
    <3>2. CASE name = "isr_common_stub"
      BY <1>2, <2>1, <3>2, Phases
    <3>3. CASE name = "irq_common_stub"
      BY <1>2, <2>1, <3>1, <3>3, Phases
    <3>4. CASE name = "irq128"
      BY <1>2, <2>1, <3>1, <3>4, Phases
    <3>5. CASE name = "irq0"
      BY <1>2, <2>1, <3>5, Phases
    <3> QED
      BY <3>2, <3>3, <3>4, <3>5
  <2> HIDE DEF e, q
  <2>3. FrameAt(stack[current], s, e) /\ FlagsOnReturn(cpu, e) /\ s \in Int /\ cpu.rsp[2] = current
    BY <1>4, <2>2 DEF AtPops, InKernel, KStack
  <2>4. Skip(e.vector) = over
    BY <2>1, <2>2, ProgramSkip
  <2>5. regs = e.cpu.regs
    <3>1. IsCpu(e.cpu) /\ FrameAt(stack[current], s, e) /\ s \in Int
      BY <2>1, <2>3
    <3>2. regs = [g \in Registers |-> stack[current][s - 1 + CHOOSE k \in DOMAIN PopOrder : PopOrder[k] = g]]
      BY <2>3 DEF Mem, rspOwner, rspIndex
    <3> HIDE DEF regs
    <3> QED
      BY <3>1, <3>2, PopsTheRegisters
  <2>6. IretWords(stack[current], cpu'.rsp[3], e.cpu)
    BY <1>4, <2>2, <2>3, <2>4 DEF FrameAt
  <2>7. /\ InKernel(current, cpu') /\ cpu'.rip = At("iretq") /\ cpu'.flags = cpu.flags
        /\ cpu'.regs = e.cpu.regs
    BY <1>4, <2>2, <2>5
  <2>8. Handles(stack[current], current, cpu', e)
    <3>1. AtIretq(stack[current], cpu', e)
      BY <2>3, <2>6, <2>7 DEF AtIretq, FlagsOnReturn
    <3> QED
      BY <2>7, <3>1, Zenon DEF Handles
  <2>9. cpu'.rip # TheCall /\ cpu'.rip # handler(e.vector) /\ cpu.rip # handler(e.vector)
    <3>1. handler(e.vector) \in {At("generate_timer"), At("irq_handler"), At("syscall_handler")}
      BY <2>1, Places DEF ProgramTraps, HardwareVectors, Vectors
    <3>2. cpu.rip \in {At("irq0+0x20"), At("isr_common_stub"), At("irq_common_stub"), At("irq128")}
      BY <1>2
    <3> QED
      BY <2>7, <3>1, <3>2, AtFacts
  <2>11. Running(stack[current], q, cpu', current)
    BY <2>1, <2>7, <2>8, <2>9, Zenon DEF Running, e
  <2>12. ServiceFollows(q, cpu', in_service')
    <3>1. ServiceFollows(q, cpu, in_service)
      BY <1>5 DEF IInv, Sane, q
    <3> QED
      BY <1>1, <2>9, <3>1, Zenon DEF ServiceFollows, e
  <2>13. timer_ticks' \in 0 .. TicksPerSlice - 1
    BY <1>1 DEF IInv, TypesOK
  <2> QED
    BY <1>1, <1>5, <2>11, <2>12, <2>13, CpuStep DEF q
<1>6. CASE faulted
  <2>1. Stopping(stack[current], q, cpu, current) /\ TypesOK
    BY <1>6 DEF IInv
  <2>2. cpu.rip = At("isr_common_stub") /\ name = "isr_common_stub"
    BY <1>2, <1>6, StoppingPlaces, AtFacts
  <2> HIDE DEF q
  <2>3. /\ InKernel(current, cpu) /\ cpu.flags = Flags(FALSE) /\ IsTuple(q) /\ Len(q) \in 1 .. 3
        /\ Len(q) <= 2 /\ NoSelector(stack[current][s + 18])
    BY <2>1, <2>2, AtFacts, Zenon DEF Stopping
  <2>4. cpu'.rsp[3] + 1 = s + 18
    BY <1>4, <2>2, <2>3
  <2>5. Stopping(stack[current], q, cpu', current)
    <3>1. NoSelector(stack[current][cpu'.rsp[3] + 1])
      BY <2>3, <2>4
    <3>2. InKernel(current, cpu') /\ cpu'.rip = At("iretq") /\ cpu'.flags = Flags(FALSE)
      BY <1>4, <2>3
    <3> QED
      BY <2>3, <3>1, <3>2, Zenon DEF Stopping
  <2>6. TypesOK'
    BY <1>1, <2>1 DEF TypesOK
  <2> QED
    BY <1>1, <1>6, <2>5, <2>6 DEF IInv, q
<1> QED
  BY <1>5, <1>6

\* What iretq finds is what trapped.
LEMMA PopsWhatTrapped ==
  ASSUME cpu.rip = At("iretq"), NEW e, e.vector \in ProgramTraps, IsCpu(e.cpu),
         Handles(stack[current], current, cpu, e)
  PROVE  Popped = e.cpu
<1>1. /\ InKernel(current, cpu) /\ cpu.regs = e.cpu.regs
      /\ IretWords(stack[current], cpu.rsp[3], e.cpu)
  BY Phases DEF AtIretq
<1>2. Popped = [regs |-> cpu.regs, rip |-> e.cpu.rip, cs |-> e.cpu.cs, flags |-> e.cpu.flags,
                rsp |-> e.cpu.rsp, ss |-> e.cpu.ss]
  BY <1>1 DEF Popped, Mem, rspOwner, rspIndex, IretWords, Word, InKernel, KStack
<1>3. cpu.regs = [g \in Registers |-> e.cpu.regs[g]]
  BY <1>1 DEF IsCpu
<1> QED
  BY <1>2, <1>3, Zenon DEF IsCpu

LEMMA IretqKeepsIInv == ASSUME IInv, iretq PROVE IInv'
<1> DEFINE q == context[current]
           e == q[Len(q)]
           s == cpu.rsp[3]
<1>1. cpu.rip = At("iretq") /\ cpu.rip[1] = "at"
  BY AtFacts DEF iretq
<1>2. CASE ~faulted
  <2>1. /\ Len(q) = 1 \/ Len(q) = 2
        /\ Len(q) >= 1
        /\ Handles(stack[current], current, cpu, e) /\ e.vector \in ProgramTraps
        /\ IsCpu(e.cpu) /\ e.cpu.cs \in {KernelCode, UserCode}
    BY <1>1, <1>2, TrappedFacts
  <2>2. InKernel(current, cpu)
    BY <2>1 DEF Handles
  <2>3. TypesOK /\ Placed /\ ServiceFollows(q, cpu, in_service)
    BY <1>2 DEF IInv, Sane
  <2>4. Nested(stack[current], q, current) /\ IsTuple(q)
    BY <2>3 DEF Placed, Nested, TypesOK
  <2> HIDE DEF e
  <2>5. Popped = e.cpu
    BY <1>1, <2>1, PopsWhatTrapped
  <2>6. /\ cpu' = e.cpu
        /\ stack' = [stack EXCEPT ![current] = InUse(@, e.cpu.rsp)]
        /\ context' = [context EXCEPT ![current] = Front(@)]
        /\ UNCHANGED <<current, saved_rsp, tss_rsp0, timer_ticks, in_service, faulted>>
    <3>1. Popped.cs \in {KernelCode, UserCode}
      BY <2>1, <2>5
    <3>2. rspOwner = current
      BY <2>2 DEF rspOwner, InKernel, KStack
    <3> QED
      BY <2>5, <3>1, <3>2, Zenon DEF iretq
  <2>7. /\ stack'[current] = InUse(stack[current], e.cpu.rsp)
        /\ context'[current] = Front(q)
        /\ \A x \in (Procs \union {Boot}) \ {current} : stack'[x] = stack[x] /\ context'[x] = context[x]
        /\ DOMAIN stack' = Procs \union {Boot} /\ DOMAIN context' = Procs \union {Boot}
    BY <2>3, <2>6 DEF TypesOK
  <2>8. in_service = NoneInService
    <3>1. cpu.rip # handler(e.vector)
      <4>1. handler(e.vector) \in {At("generate_timer"), At("irq_handler"), At("syscall_handler")}
        BY <2>1, Places DEF ProgramTraps, HardwareVectors, Vectors
      <4> QED
        BY <1>1, <4>1, AtFacts
    <3> HIDE DEF q
    <3> QED
      BY <2>3, <3>1, Zenon DEF ServiceFollows, e
  <2>9. Nested(stack'[current], Front(q), current) /\ Running(stack'[current], Front(q), cpu', current)
    <3> DEFINE f == Front(q)
               n == Len(q)
               m == Len(f)
    <3>1. IsTuple(f) /\ m = n - 1 /\ \A i \in 1 .. n - 1 : f[i] = q[i]
      BY <2>1, <2>4, FrontFacts
    <3>2. n = 1 \/ n = 2
      BY <2>1
    <3>3. n >= 1 => Untrapped(current, q[1].cpu) /\ q[1].vector \in HardwareVectors \union {Syscall}
      BY <2>4, Zenon DEF Nested
    <3>4. n = 2 => Handles(stack[current], current, q[2].cpu, q[1])
      BY <2>4, Zenon DEF Nested
    <3>5. e = q[n]
      BY DEF e
    <3> HIDE DEF f, q, n
    <3>6. CASE n = 1
      <4> HIDE DEF m
      <4>1. m = 0 /\ Untrapped(current, cpu')
        BY <2>6, <3>1, <3>3, <3>5, <3>6
      <4>2. ~(m >= 1) /\ m # 2 /\ m <= 2
        BY <4>1
      <4> QED
        BY <3>1, <4>1, <4>2, Zenon DEF Nested, Running, m, f
    <3>7. CASE n = 2
      <4> HIDE DEF m
      <4>1. m = 1 /\ f[1] = q[1]
        BY <3>1, <3>7
      <4>2. m >= 1 /\ m # 2 /\ m <= 2 /\ n >= 1
        BY <3>7, <4>1
      <4>3. Handles(stack[current], current, e.cpu, q[1])
        BY <3>4, <3>5, <3>7
      <4>4. SameFrom(stack[current], stack'[current], e.cpu.rsp[3])
        <5>1. e.cpu.rsp[1] = "kstack"
          BY <4>3 DEF Handles, InKernel, KStack
        <5> QED
          BY <2>7, <5>1 DEF SameFrom, InUse, Word
      <4>5. e.cpu.rsp[3] \in Int /\ e.cpu.rsp[3] <= e.cpu.rsp[3]
        BY <4>3 DEF Handles, InKernel
      <4>6. Handles(stack'[current], current, cpu', f[1])
        BY <2>6, <4>1, <4>3, <4>4, <4>5, HandlesStays
      <4>7. Nested(stack'[current], f, current)
        BY <3>1, <3>3, <4>1, <4>2, Zenon DEF Nested, m
      <4>8. Running(stack'[current], f, cpu', current)
        BY <4>1, <4>2, <4>6, Zenon DEF Running, Below, m
      <4> QED
        BY <4>7, <4>8 DEF f
    <3> QED
      BY <3>2, <3>6, <3>7
  <2>10. TypesOK'
    BY <2>3, <2>6, <2>7 DEF TypesOK
  <2> HIDE DEF q
  <2>11. Placed'
    <3>1. ASSUME NEW x \in Procs \union {Boot} PROVE Nested(stack'[x], context'[x], x)
      BY <2>3, <2>6, <2>7, <2>9 DEF Placed
    <3>2. ASSUME NEW x \in Procs \ {current} PROVE Suspended(stack'[x], context'[x], saved_rsp'[x], x)
      BY <2>3, <2>6, <2>7 DEF Placed
    <3>3. Running(stack'[current], context'[current], cpu', current)
      BY <2>6, <2>7, <2>9
    <3>4. current \in Users => tss_rsp0 = KStack(current, Top)
      BY <2>3 DEF Placed
    <3> QED
      BY <2>6, <3>1, <3>2, <3>3, <3>4 DEF Placed
  <2> QED
    BY <1>2, <2>6, <2>8, <2>10, <2>11 DEF IInv, Sane, ServiceFollows
<1>3. CASE faulted
  <2>1. Stopping(stack[current], q, cpu, current) /\ TypesOK
    BY <1>3 DEF IInv
  <2> HIDE DEF q
  <2>2. /\ InKernel(current, cpu) /\ IsTuple(q) /\ Len(q) <= 2
        /\ NoSelector(stack[current][s + 1])
    BY <1>1, <2>1, AtFacts, Zenon DEF Stopping
  <2>3. Popped.cs \notin {KernelCode, UserCode}
    BY <2>2 DEF Popped, Mem, rspOwner, rspIndex, NoSelector, InKernel, KStack
  <2>4. Trap(cpu, 13) /\ faulted' = TRUE
    BY <2>3 DEF iretq
  <2>5. s \in Int /\ TrapBase(cpu, s)
    BY <2>2 DEF InKernel, TrapBase, KernelCode, UserCode, Num
  <2>6. 13 \in 0 .. 31 /\ 13 # 14
    OBVIOUS
  <2> QED
    BY <2>1, <2>2, <2>4, <2>5, <2>6, ExceptionStops DEF q
<1> QED
  BY <1>2, <1>3 DEF IInv, TypesOK

-----------------------------------------------------------------------------
(* The invariant holds *)

\* The words schedule.c puts on a new stack are the frame of a timer interrupt that
\* struck at the start of the process.
LEMMA CraftedFrames ==
  ASSUME NEW p \in Procs
  PROVE  LET mem == IF p \in Users THEN schedule_user_process(p) ELSE schedule_idle_process
             e == [cpu |-> StartOf(p), vector |-> Timer]
         IN  /\ p \in Users => Word(mem, 491, Return("irq0"))
             /\ p \notin Users => Word(mem, 491, TheCall)
             /\ FrameAt(mem, 492, e)
             /\ Untrapped(p, StartOf(p))
<1> DEFINE mem == IF p \in Users THEN schedule_user_process(p) ELSE schedule_idle_process
           c == StartOf(p)
           e == [cpu |-> c, vector |-> Timer]
<1>1. /\ c.regs = Fresh(p) /\ c.rip = Code(p) /\ c.flags = Flags(TRUE)
      /\ c.cs = (IF p = Idle THEN KernelCode ELSE UserCode)
      /\ c.rsp = (IF p = Idle THEN KStack(p, Top) ELSE <<"pstack", p>>)
      /\ c.ss = Num(IF p = Idle THEN 16 ELSE 35)
  BY DEF StartOf
<1>2. p \in Users <=> p # Idle
  BY PcbsAssumption DEF Procs
<1>3. Untrapped(p, c)
  <2>1. c.regs = [g \in Registers |-> c.regs[g]]
    BY <1>1 DEF Fresh
  <2>2. IsCpu(c)
    BY <2>1 DEF IsCpu, StartOf
  <2>3. p \in Users => c.cs = UserCode /\ c.rsp = <<"pstack", p>>
    BY <1>1, <1>2
  <2>4. p \notin Users => c.cs = KernelCode /\ c.rsp = KStack(p, Top) /\ c.rsp[3] = Top
    BY <1>1, <1>2 DEF KStack
  <2>5. Top \in Int
    BY DEF Top
  <2> HIDE DEF c
  <2> QED
    BY <1>1, <2>2, <2>3, <2>4, <2>5 DEF Untrapped
<1>4. DOMAIN mem = 490 .. 511
  BY DEF schedule_user_process, schedule_idle_process, Top
<1>5. ASSUME NEW k \in 492 .. 506 PROVE mem[k] = <<"page", p>>
  <2>1. /\ k # 511 /\ k # 510 /\ k # 509 /\ k # 508 /\ k # 507 /\ k # 507 - 16
        /\ k \in 490 .. Top
    BY DEF Top
  <2>2. schedule_user_process(p)[k] = <<"page", p>>
    BY SMTT(20), <2>1, Zenon DEF schedule_user_process
  <2>3. schedule_idle_process[k] = <<"page", Idle>>
    BY SMTT(20), <2>1, Zenon DEF schedule_idle_process
  <2> QED
    BY <1>2, <2>2, <2>3
<1>6. /\ mem[491] = (IF p \in Users THEN Return("irq0") ELSE TheCall)
      /\ mem[507] = c.rip
  BY <1>1, <1>2 DEF schedule_user_process, schedule_idle_process, Top
<1>7. mem[508] = c.cs /\ mem[509] = c.flags
  BY <1>1, <1>2 DEF schedule_user_process, schedule_idle_process, Top
<1>8. mem[510] = c.rsp /\ mem[511] = c.ss
  BY <1>1, <1>2 DEF schedule_user_process, schedule_idle_process, Top
<1> HIDE DEF mem, c
<1>9. \A k \in 1 .. 15 : Word(mem, 492 + k - 1, c.regs[PopOrder[k]])
  <2> TAKE k \in 1 .. 15
  <2>1. 492 + k - 1 \in 492 .. 506 /\ 492 + k - 1 \in 490 .. 511
    OBVIOUS
  <2>2. c.regs[PopOrder[k]] = <<"page", p>>
    BY <1>1, PopsAreThePushes DEF Fresh
  <2> QED
    BY <1>4, <1>5, <2>1, <2>2 DEF Word
<1>10. IretWords(mem, 492 + 15 + Skip(Timer), c)
  <2>1. Skip(Timer) = 0
    BY DEF Skip
  <2>2. 492 + 15 + Skip(Timer) = 507
    BY <2>1
  <2> QED
    BY <1>4, <1>6, <1>7, <1>8, <2>2 DEF IretWords, Word
<1>11. FrameAt(mem, 492, e)
  BY <1>9, <1>10 DEF FrameAt
<1>12. mem[491] = (IF p \in Users THEN Return("irq0") ELSE TheCall) /\ 491 \in DOMAIN mem
  BY <1>4, <1>6
<1>13. (p \in Users => Word(mem, 491, Return("irq0"))) /\ (p \notin Users => Word(mem, 491, TheCall))
  BY <1>12, Zenon DEF Word
<1> QED
  BY <1>3, <1>11, <1>13 DEF mem, c

LEMMA InitIInv == ASSUME OnePushAssumption, Init PROVE IInv
<1>1. /\ current = Boot /\ timer_ticks = 0 /\ faulted = FALSE /\ in_service = NoneInService
      /\ cpu = [regs |-> Fresh(Boot), rip |-> Code(Boot), cs |-> KernelCode, flags |-> Flags(TRUE),
                rsp |-> KStack(Boot, Top), ss |-> Num(16)]
      /\ saved_rsp = [p \in Procs |-> KStack(p, 490)]
      /\ DOMAIN stack = Procs \union {Boot} /\ DOMAIN context = Procs \union {Boot}
  BY DEF Init, NoneInService
<1>2. Boot \notin Procs /\ Boot \notin Users
  BY PcbsAssumption DEF Procs
<1>3. context[Boot] = <<>>
  BY <1>1 DEF Init
<1>4. ASSUME NEW p \in Procs
      PROVE  /\ stack[p] = IF p \in Users THEN schedule_user_process(p) ELSE schedule_idle_process
             /\ context[p] = <<[cpu |-> StartOf(p), vector |-> Timer]>>
  BY <1>2 DEF Init, Procs
<1>5. TypesOK
  <2>1. timer_ticks \in 0 .. TicksPerSlice - 1
    <3>1. TicksPerSlice \in Nat /\ TicksPerSlice # 0
      BY CountsAssumption
    <3>2. 0 \in 0 .. TicksPerSlice - 1
      BY <3>1
    <3> QED
      BY <1>1, <3>2
  <2>2. DOMAIN saved_rsp = Procs /\ current \in Procs \union {Boot} /\ faulted \in BOOLEAN
    BY <1>1
  <2> QED
    BY <1>1, <2>1, <2>2 DEF TypesOK
<1>6. Untrapped(Boot, cpu)
  <2>1. cpu.regs = [g \in Registers |-> cpu.regs[g]]
    BY <1>1 DEF Fresh
  <2>2. IsCpu(cpu)
    BY <1>1, <2>1 DEF IsCpu
  <2>3. /\ cpu.rip = Code(Boot) /\ cpu.flags = Flags(TRUE) /\ cpu.cs = KernelCode
        /\ cpu.rsp = KStack(Boot, Top)
    BY <1>1
  <2>4. cpu.rsp[3] = Top /\ Top \in Int
    BY <2>3 DEF KStack, Top
  <2> QED
    BY <1>2, <2>2, <2>3, <2>4 DEF Untrapped
<1>7. ASSUME NEW p \in Procs
      PROVE  Nested(stack[p], context[p], p) /\ Suspended(stack[p], context[p], saved_rsp[p], p)
  <2> DEFINE q == context[p]
             e == [cpu |-> StartOf(p), vector |-> Timer]
  <2>1. q = <<e>> /\ Len(q) = 1 /\ q[1] = e /\ IsTuple(q)
    <3>1. q = <<e>>
      BY <1>4
    <3> HIDE DEF e
    <3>2. <<e>> = [i \in 1 .. 1 |-> <<e>>[i]] /\ Len(<<e>>) = 1
      OBVIOUS
    <3> QED
      BY <3>1, <3>2 DEF IsTuple
  <2>2. /\ p \in Users => Word(stack[p], 491, Return("irq0"))
        /\ p \notin Users => Word(stack[p], 491, TheCall)
        /\ FrameAt(stack[p], 492, e)
        /\ Untrapped(p, e.cpu) /\ e.vector = Timer
    BY <1>4, CraftedFrames
  <2>3. p \notin Users => p = Idle
    BY DEF Procs
  <2>4. saved_rsp[p] = KStack(p, saved_rsp[p][3]) /\ saved_rsp[p][3] = 490
    BY <1>1 DEF KStack
  <2>5. saved_rsp[p][3] + TimerPushes = 491 /\ 491 + 1 = 492 /\ saved_rsp[p][3] \in Int
    BY <2>4 DEF OnePushAssumption
  <2>6. Len(q) >= 1 /\ Len(q) <= 2 /\ Len(q) # 2 /\ q[Len(q)] = e
    BY <2>1
  <2> HIDE DEF q, e
  <2>7. Nested(stack[p], q, p)
    BY <2>1, <2>2, <2>6, Zenon DEF Nested, HardwareVectors
  <2>8. Suspended(stack[p], q, saved_rsp[p], p)
    <3> DEFINE s == saved_rsp[p][3] + TimerPushes
    <3>1. \/ Word(stack[p], s, Return("irq0"))
          \/ p = Idle /\ Len(q) = 1 /\ Word(stack[p], s, TheCall)
      BY <2>1, <2>2, <2>3, <2>5
    <3>2. FrameAt(stack[p], s + 1, q[Len(q)]) /\ q[Len(q)].vector = Timer
      BY <2>2, <2>5, <2>6
    <3> QED
      BY <2>4, <2>5, <2>6, <3>1, <3>2, Zenon DEF Suspended
  <2> QED
    BY <2>7, <2>8 DEF q
<1>8. Nested(stack[Boot], context[Boot], Boot) /\ Running(stack[Boot], context[Boot], cpu, Boot)
  <2> DEFINE q == context[Boot]
  <2>1. Len(q) = 0 /\ IsTuple(q)
    BY <1>3 DEF IsTuple
  <2>2. ~(Len(q) >= 1) /\ Len(q) <= 2 /\ Len(q) # 2
    BY <2>1
  <2> HIDE DEF q
  <2>3. Nested(stack[Boot], q, Boot) /\ Running(stack[Boot], q, cpu, Boot)
    BY <1>6, <2>1, <2>2, Zenon DEF Nested, Running
  <2> QED
    BY <2>3 DEF q
<1>9. Placed
  BY <1>1, <1>2, <1>7, <1>8 DEF Placed
<1> QED
  BY <1>1, <1>5, <1>9 DEF IInv, Sane, ServiceFollows

LEMMA StutterKeepsIInv == ASSUME IInv, UNCHANGED vars PROVE IInv'
<1>1. UNCHANGED <<cpu, stack, current, saved_rsp, tss_rsp0, timer_ticks, in_service, context, faulted>>
  BY DEF vars
<1> QED
  BY <1>1, Zenon DEF IInv, TypesOK, Sane, Placed

LEMMA NextKeepsIInv == ASSUME OnePushAssumption, IInv, [Next]_vars PROVE IInv'
<1>1. CASE Run
  BY <1>1, RunKeepsIInv
<1>2. ASSUME NEW v \in Irqs \union {Timer}, Interrupt(v) PROVE IInv'
  BY <1>2, InterruptKeepsIInv
<1>3. ASSUME NEW v \in Exceptions, Exception(v) PROVE IInv'
  BY <1>3, ExceptionKeepsIInv
<1>4. ASSUME NEW number \in SyscallNumbers, SystemCall(number) PROVE IInv'
  BY <1>4, SystemCallKeepsIInv
<1>5. CASE fault_handler
  BY <1>5, FaultHandlerKeepsIInv
<1>6. CASE irq_handler
  BY <1>6, IrqHandlerKeepsIInv
<1>7. CASE syscall_handler
  BY <1>7, SyscallHandlerKeepsIInv
<1>8. CASE LeaveGetstring
  BY <1>8, LeaveGetstringKeepsIInv
<1>9. CASE generate_timer
  BY <1>9, GenerateTimerKeepsIInv
<1>10. CASE CallGenerateTimer
  BY <1>10, CallGenerateTimerKeepsIInv
<1>11. ASSUME NEW name \in {"isr_common_stub", "irq_common_stub", "irq128", "irq0"}, PopRegisters(name)
       PROVE  IInv'
  BY <1>11, PopRegistersKeepsIInv
<1>12. CASE iretq
  BY <1>12, IretqKeepsIInv
<1>13. CASE UNCHANGED vars
  BY <1>13, StutterKeepsIInv
<1> QED
  BY <1>1, <1>2, <1>3, <1>4, <1>5, <1>6, <1>7, <1>8, <1>9, <1>10, <1>11, <1>12, <1>13 DEF Next

\* Every frame is where it should be, and after an exception only the way to the halt
\* is open.
THEOREM TrapInvariant == ASSUME OnePushAssumption PROVE Spec => []IInv
<1>1. Init => IInv
  BY InitIInv
<1>2. IInv /\ [Next]_vars => IInv'
  BY NextKeepsIInv
<1> QED
  BY <1>1, <1>2, PTL DEF Spec

-----------------------------------------------------------------------------
(* The properties *)

LEMMA RunsInKernel ==
  ASSUME IInv
  PROVE  /\ InKernel(current, cpu) \/ (~faulted /\ Untrapped(current, cpu))
         /\ Len(context[current]) <= 3
<1> DEFINE q == context[current]
           n == Len(q)
<1>1. CASE faulted
  <2>1. Stopping(stack[current], q, cpu, current)
    BY <1>1 DEF IInv
  <2>2. InKernel(current, cpu) /\ n \in 1 .. 3
    BY <2>1, Zenon DEF Stopping
  <2> HIDE DEF n
  <2>3. n <= 3
    BY <2>2
  <2> QED
    BY <2>2, <2>3 DEF n
<1>2. CASE ~faulted
  <2>1. n = 0 \/ n = 1 \/ n = 2
    BY <1>2, RunningFacts, Zenon
  <2>2. InKernel(current, cpu) \/ Untrapped(current, cpu)
    BY <1>2, RunningFacts, Zenon DEF Handles
  <2> HIDE DEF n
  <2>3. n <= 3
    BY <2>1
  <2> QED
    BY <1>2, <2>2, <2>3 DEF n
<1> QED
  BY <1>1, <1>2 DEF IInv, TypesOK

\* Kernel code runs on the stack of the current process, programs in their own
\* segment, and what piles up on a stack is a system call and two exceptions at most.
THEOREM TrapsKeepTypes == ASSUME OnePushAssumption PROVE Spec => []TrapTypeOK
<1>1. ASSUME IInv PROVE TrapTypeOK
  <2>1. cpu.cs \in {KernelCode, UserCode}
    BY <1>1, RunsInKernel DEF InKernel, Untrapped
  <2>2. cpu.cs = KernelCode => cpu.rsp[1] = "kstack" /\ cpu.rsp[2] = current
    <3>1. CASE InKernel(current, cpu)
      BY <3>1 DEF InKernel, KStack
    <3>2. CASE Untrapped(current, cpu)
      BY <3>2 DEF Untrapped, KStack, KernelCode, UserCode, Num
    <3> QED
      BY <1>1, <3>1, <3>2, RunsInKernel
  <2>3. Len(context[current]) <= 3
    BY <1>1, RunsInKernel
  <2> QED
    BY <1>1, <2>1, <2>2, <2>3, Zenon DEF TrapTypeOK, IInv, TypesOK
<1> QED
  BY <1>1, TrapInvariant, PTL

\* Every iretq gives the interrupted code its registers, its stack and its interrupt
\* flag back, through whatever nesting of traps and switching of stacks; the first
\* one of a process gives it the start that schedule.c crafted.
THEOREM TrapsReturnToWhatTheyInterrupted ==
  ASSUME OnePushAssumption PROVE Spec => []ReturnsToWhatWasInterrupted
<1>1. ASSUME IInv PROVE ReturnsToWhatWasInterrupted
  <2> DEFINE q == context[current]
             e == q[Len(q)]
  <2>1. SUFFICES ASSUME cpu.rip = At("iretq"), ~faulted PROVE Popped = Interrupted
    BY DEF ReturnsToWhatWasInterrupted
  <2>2. Handles(stack[current], current, cpu, e) /\ e.vector \in ProgramTraps /\ IsCpu(e.cpu)
    <3>1. cpu.rip[1] = "at"
      BY <2>1, AtFacts
    <3> QED
      BY <1>1, <2>1, <3>1, TrappedFacts
  <2>3. Popped = e.cpu
    BY <2>1, <2>2, PopsWhatTrapped
  <2> QED
    BY <2>3, Zenon DEF Interrupted, Last
<1> QED
  BY <1>1, TrapInvariant, PTL

\* No program runs again once an exception has occurred: not even page_fault_handler,
\* which returns, gets back to the program.
THEOREM TrapsEndInExceptions == ASSUME OnePushAssumption PROVE Spec => []ExceptionsAreFinal
<1>1. IInv => ExceptionsAreFinal
  BY StoppingPlaces DEF ExceptionsAreFinal
<1> QED
  BY <1>1, TrapInvariant, PTL

\* When a program goes on the controllers know that every interrupt has ended.
THEOREM TrapsAcknowledgeInterrupts ==
  ASSUME OnePushAssumption PROVE Spec => []InterruptsAreAcknowledged
<1>1. ASSUME IInv PROVE InterruptsAreAcknowledged
  <2>1. SUFFICES ASSUME InCode PROVE in_service = NoneInService
    BY DEF InterruptsAreAcknowledged
  <2>2. ~faulted
    BY <1>1, <2>1, StoppingPlaces DEF IInv, TypesOK
  <2>3. Untrapped(current, cpu) \/ \E e : InGetstring(stack[current], current, cpu, e)
    BY <1>1, <2>1, <2>2, CodeFacts
  <2>4. cpu.flags = Flags(TRUE)
    BY <2>3 DEF Untrapped, InGetstring
  <2> QED
    BY <1>1, <2>2, <2>4, NoneInServiceWhenOn
<1> QED
  BY <1>1, TrapInvariant, PTL

\* Every handler but the timer's has the address of a frame in rdi.
LEMMA HandlersHaveTheFrame ==
  ASSUME IInv, Handling
  PROVE  LET e == context[current][Len(context[current])]
         IN  /\ InKernel(current, cpu)
             /\ CalledAt(stack[current], cpu.rsp[3], e)
             /\ cpu.regs["rdi"] = KStack(current, cpu.rsp[3] + 1)
             /\ e.vector \in Vectors \ {Timer}
<1> DEFINE q == context[current]
           e == q[Len(q)]
<1>1. /\ cpu.rip \in {At("fault_handler"), At("irq_handler"), At("syscall_handler")}
      /\ cpu.rip[1] = "at"
  BY AtFacts DEF Handling
<1>2. CASE faulted
  <2>1. cpu.rip = At("fault_handler")
    BY <1>1, <1>2, StoppingPlaces, AtFacts
  <2>2. Stopping(stack[current], q, cpu, current)
    BY <1>2 DEF IInv
  <2> HIDE DEF e, q
  <2>3. /\ InKernel(current, cpu)
        /\ CalledAt(stack[current], cpu.rsp[3], e)
        /\ cpu.regs["rdi"] = KStack(current, cpu.rsp[3] + 1)
        /\ e.vector \in 0 .. 31
    BY <2>1, <2>2, AtFacts, Zenon DEF Stopping, e
  <2>4. \A v \in 0 .. 31 : v \in Vectors \ {Timer}
    BY DEF Vectors, Timer
  <2> QED
    BY <2>3, <2>4 DEF e, q
<1>3. CASE ~faulted
  <2>1. Handles(stack[current], current, cpu, e) /\ e.vector \in ProgramTraps
    BY <1>1, <1>3, TrappedFacts
  <2> HIDE DEF e, q
  <2>2. /\ e.vector \in Irqs \/ e.vector = Syscall
        /\ InHandler(stack[current], current, cpu, e) /\ InKernel(current, cpu)
    BY <1>1, <2>1, Phases
  <2>3. e.vector \in Vectors \ {Timer}
    BY <2>2, VectorsAssumption DEF Vectors, HardwareVectors, Timer, Syscall
  <2> QED
    BY <2>2, <2>3 DEF InHandler, e, q
<1> QED
  BY <1>2, <1>3 DEF IInv, TypesOK

\* struct registers lies on the words the stubs push: a handler reads its vector and the
\* registers of the code that trapped and, unless two error codes lie there, what
\* the processor pushed.
THEOREM TrapHandlersReadTheFrame == ASSUME OnePushAssumption PROVE Spec => []HandlersReadTheFrame
<1>1. ASSUME IInv PROVE HandlersReadTheFrame
  <2> DEFINE q == context[current]
             e == q[Len(q)]
             s == cpu.rsp[3] + 1
  <2>1. SUFFICES ASSUME Handling
                 PROVE  /\ r("int_no") = Num(vector)
                        /\ \A g \in Registers : r(g) = Interrupted.regs[g]
                        /\ vector \notin {13, 14, 17} => ProcessorPartIsRight
    BY DEF HandlersReadTheFrame
  <2>2. /\ cpu.regs["rdi"] = KStack(current, s) /\ s \in Int
        /\ FrameAt(stack[current], s, e)
        /\ e.vector \in Vectors \ {Timer}
    <3>1. /\ InKernel(current, cpu)
          /\ CalledAt(stack[current], cpu.rsp[3], e)
          /\ cpu.regs["rdi"] = KStack(current, s)
          /\ e.vector \in Vectors \ {Timer}
      BY <1>1, <2>1, HandlersHaveTheFrame
    <3> QED
      BY <3>1 DEF InKernel, CalledAt
  <2>3. Interrupted = e.cpu /\ vector = e.vector
    BY DEF Interrupted, vector, Last
  <2> HIDE DEF e, s
  <2>4. r("int_no") = Num(vector)
    BY <2>2, <2>3, IntNo
  <2>5. ASSUME NEW g \in Registers PROVE r(g) = Interrupted.regs[g]
    <3>1. PICK k \in 1 .. 15 : g = PopOrder[k]
      BY RegistersArePopped
    <3>2. k \in 1 .. 22 /\ registers[k] = g
      BY <3>1, PopsAreThePushes
    <3>3. r(registers[k]) = stack[current][s + k - 1]
      BY <2>2, <3>2, FieldFacts
    <3>4. stack[current][s + k - 1] = e.cpu.regs[PopOrder[k]]
      BY <2>2, Zenon DEF FrameAt, Word
    <3> QED
      BY <2>3, <3>1, <3>2, <3>3, <3>4
  <2>6. ASSUME vector \notin {13, 14, 17} PROVE ProcessorPartIsRight
    <3>1. Skip(e.vector) = 2
      BY <2>2, <2>3, <2>6 DEF Skip, ErrorCode, PushesDummy
    <3>2. /\ registers[18] = "rip" /\ registers[19] = "cs" /\ registers[20] = "rflags"
          /\ registers[21] = "useresp" /\ registers[22] = "ss"
      BY DEF registers
    <3>3. \A k \in 18 .. 22 : r(registers[k]) = stack[current][s + k - 1]
      BY <2>2, FieldFacts
    <3>4. s + 15 + 2 = s + 18 - 1 /\ s + 15 + 2 + 1 = s + 19 - 1 /\ s + 15 + 2 + 2 = s + 20 - 1
          /\ s + 15 + 2 + 3 = s + 21 - 1 /\ s + 15 + 2 + 4 = s + 22 - 1
      BY <2>2
    <3>5. IretWords(stack[current], s + 15 + 2, e.cpu)
      BY <2>2, <3>1 DEF FrameAt
    <3>6. /\ stack[current][s + 18 - 1] = e.cpu.rip /\ stack[current][s + 19 - 1] = e.cpu.cs
          /\ stack[current][s + 20 - 1] = e.cpu.flags /\ stack[current][s + 21 - 1] = e.cpu.rsp
          /\ stack[current][s + 22 - 1] = e.cpu.ss
      BY <3>4, <3>5 DEF IretWords, Word
    <3>7. /\ r("rip") = e.cpu.rip /\ r("cs") = e.cpu.cs /\ r("rflags") = e.cpu.flags
          /\ r("useresp") = e.cpu.rsp /\ r("ss") = e.cpu.ss
      BY <3>2, <3>3, <3>6
    <3> QED
      BY <2>3, <3>7 DEF ProcessorPartIsRight, ProcessorWords
  <2> QED
    BY <2>4, <2>5, <2>6
<1> QED
  BY <1>1, TrapInvariant, PTL
=============================================================================
