--------------------------- MODULE SchedulerProofs ---------------------------
(***************************************************************************)
(* The safety invariants of Scheduler, for every set of users, every slice *)
(* length and every quantum.                                               *)
(***************************************************************************)
EXTENDS SchedulerFairness, SequenceTheorems, TLAPS

-----------------------------------------------------------------------------
(* Lists without repetitions, as the kernel keeps them in linked lists, and *)
(* stacks of frames.                                                        *)

Elems(s) == {s[i] : i \in DOMAIN s}
Distinct(s) == \A i, j \in DOMAIN s : s[i] = s[j] => i = j

\* A list to whose end a new element is added, as schedule_user_process and an
\* expired quantum do, stays without repetitions.
LEMMA AppendDistinct ==
  ASSUME NEW S, NEW s \in Seq(S), NEW e \in S, Distinct(s), e \notin Elems(s)
  PROVE  /\ Distinct(Append(s, e))
         /\ Elems(Append(s, e)) = Elems(s) \union {e}
<1>1. /\ Len(s) \in Nat
      /\ DOMAIN s = 1 .. Len(s)
      /\ DOMAIN Append(s, e) = 1 .. Len(s) + 1
      /\ \A i \in 1 .. Len(s) : Append(s, e)[i] = s[i]
      /\ Append(s, e)[Len(s) + 1] = e
  BY LenProperties, AppendProperties
<1>2. Distinct(Append(s, e))
  BY <1>1 DEF Distinct, Elems
<1>3. Elems(Append(s, e)) = Elems(s) \union {e}
  BY <1>1 DEF Elems
<1> QED BY <1>2, <1>3

\* The same for the front of the list, where a process with time left goes.
LEMMA PrependDistinct ==
  ASSUME NEW S, NEW s \in Seq(S), NEW e \in S, Distinct(s), e \notin Elems(s)
  PROVE  /\ <<e>> \o s \in Seq(S)
         /\ <<e>> \o s # <<>>
         /\ Distinct(<<e>> \o s)
         /\ Elems(<<e>> \o s) = Elems(s) \union {e}
<1>1. <<e>> \in Seq(S) /\ Len(<<e>>) = 1 /\ <<e>>[1] = e
  OBVIOUS
<1>2. /\ <<e>> \o s \in Seq(S)
      /\ Len(<<e>> \o s) = 1 + Len(s)
      /\ \A i \in 1 .. 1 + Len(s) :
           (<<e>> \o s)[i] = IF i <= 1 THEN <<e>>[i] ELSE s[i - 1]
  BY <1>1, ConcatProperties
<1>3. /\ Len(s) \in Nat
      /\ DOMAIN s = 1 .. Len(s)
      /\ DOMAIN (<<e>> \o s) = 1 .. 1 + Len(s)
  BY <1>2, LenProperties
<1>4. (<<e>> \o s)[1] = e
  BY <1>1, <1>2, <1>3
<1>5. \A i \in 2 .. 1 + Len(s) : (<<e>> \o s)[i] = s[i - 1] /\ i - 1 \in DOMAIN s
  BY <1>2, <1>3
<1>6. Distinct(<<e>> \o s)
  BY <1>3, <1>4, <1>5 DEF Distinct, Elems
<1>7. Elems(<<e>> \o s) \subseteq Elems(s) \union {e}
  BY <1>3, <1>4, <1>5 DEF Elems
<1>8. Elems(s) \union {e} \subseteq Elems(<<e>> \o s)
  <2>1. \A i \in DOMAIN s : i + 1 \in DOMAIN (<<e>> \o s) /\ (<<e>> \o s)[i + 1] = s[i]
    BY <1>3, <1>5
  <2>2. 1 \in DOMAIN (<<e>> \o s)
    BY <1>3
  <2>3. e \in Elems(<<e>> \o s)
    BY <2>2, <1>4 DEF Elems
  <2>4. \A x \in Elems(s) : x \in Elems(<<e>> \o s)
    BY <2>1 DEF Elems
  <2> QED BY <2>3, <2>4
<1>9. <<e>> \o s # <<>>
  BY <1>2, <1>3, EmptySeq
<1> QED BY <1>2, <1>6, <1>7, <1>8, <1>9

\* get_next_ready_process takes exactly the head off the list.
LEMMA TailDistinct ==
  ASSUME NEW S, NEW s \in Seq(S), s # <<>>, Distinct(s)
  PROVE  /\ Head(s) \in Elems(s)
         /\ Tail(s) \in Seq(S)
         /\ Distinct(Tail(s))
         /\ Elems(Tail(s)) = Elems(s) \ {Head(s)}
<1>1. /\ Len(s) \in Nat \ {0}
      /\ DOMAIN s = 1 .. Len(s)
      /\ Head(s) = s[1]
  BY LenProperties, EmptySeq
<1>2. /\ Tail(s) \in Seq(S)
      /\ DOMAIN Tail(s) = 1 .. Len(s) - 1
      /\ \A i \in 1 .. Len(s) - 1 : Tail(s)[i] = s[i + 1]
  BY <1>1, HeadTailProperties, LenProperties
<1>3. Head(s) \in Elems(s)
  BY <1>1 DEF Elems
<1>4. Distinct(Tail(s))
  BY <1>1, <1>2 DEF Distinct
<1>5. Elems(Tail(s)) \subseteq Elems(s) \ {Head(s)}
  BY <1>1, <1>2 DEF Elems, Distinct
<1>6. Elems(s) \ {Head(s)} \subseteq Elems(Tail(s))
  <2> SUFFICES ASSUME NEW i \in DOMAIN s, s[i] # Head(s)
               PROVE  s[i] \in Elems(Tail(s))
    BY DEF Elems
  <2>1. i - 1 \in DOMAIN Tail(s) /\ Tail(s)[i - 1] = s[i]
    BY <1>1, <1>2
  <2> QED BY <2>1 DEF Elems
<1> QED BY <1>2, <1>3, <1>4, <1>5, <1>6

\* A stack that loses its top frame.
LEMMA PopProperties ==
  ASSUME NEW S, NEW s \in Seq(S), Len(s) # 0
  PROVE  /\ SubSeq(s, 1, Len(s) - 1) \in Seq(S)
         /\ Len(SubSeq(s, 1, Len(s) - 1)) = Len(s) - 1
<1> DEFINE n == Len(s) - 1
<1>1. n \in Int /\ n >= 0 /\ 1 \in Int
  BY LenProperties
<1>2. \A i \in 1 .. n : s[i] \in S
  BY LenProperties, ElementOfSeq
<1> HIDE DEF n
<1>3. /\ SubSeq(s, 1, n) \in Seq(S)
      /\ Len(SubSeq(s, 1, n)) = IF 1 <= n THEN n - 1 + 1 ELSE 0
  BY <1>1, <1>2, SubSeqProperties
<1>4. Len(SubSeq(s, 1, n)) = n
  BY <1>1, <1>3
<1> QED BY <1>3, <1>4 DEF n

-----------------------------------------------------------------------------
(* The invariant *)

\* What the order of the calls in start() settles for the rest of the run.
BootOrder ==
  /\ first_schedule <=> current = NULL
  /\ ~first_schedule => boot_step = "done"
  /\ idle_process = IF boot_step \in {"scheduler_init", "schedule_idle_process"}
                    THEN NULL ELSE Idle
  /\ IF boot_step \in {"sti", "done"} THEN created # {} ELSE created = {}

\* The CPU is on top of the kernel stack of the current process (of the boot
\* stack before the first decision), and a user process that traps goes there.
CpuOnTop ==
  /\ rsp = [stack |-> current, depth |-> Len(kstack[current])]
  /\ current # NULL => cr3 = current
  /\ current \in Users => tss_rsp0 = current

FrameOnTop(p) ==
  /\ saved_rsp[p] = [stack |-> p, depth |-> Len(kstack[p])]
  /\ kstack[p] # <<>>
  /\ kstack[p][Len(kstack[p])] = "irq0"

\* The processes a decision can pick: the list, and the idle process at first.
Suspended ==
  ReadySet \union (IF first_schedule /\ idle_process # NULL THEN {Idle} ELSE {})

IInv ==
  /\ TypeOK
  /\ BootOrder
  /\ EachProcessInOnePlace
  /\ CpuOnTop
  /\ \A p \in Suspended : FrameOnTop(p)

USE UsersAssumption, SliceAssumption, QuantumAssumption DEF Procs, Stacks

-----------------------------------------------------------------------------
(* Traps *)

\* Under the invariant a trap lands on top of the stack of the current process,
\* whether it comes out of user mode or out of the kernel.
LEMMA TrapLandsOnCurrentStack ==
  ASSUME IInv
  PROVE  /\ kstack[current] \in Seq(Frames)
         /\ ReturnedKstack = kstack
         /\ \A f \in Frames : TrapKstack(f) = [kstack EXCEPT ![current] = Append(@, f)]
         /\ TrapRsp = [stack |-> current, depth |-> Len(kstack[current]) + 1]
<1> USE DEF IInv
<1>1. current \in Stacks /\ kstack[current] \in Seq(Frames)
  BY DEF TypeOK
<1>2. rsp = [stack |-> current, depth |-> Len(kstack[current])]
  BY DEF CpuOnTop
<1>3. TrapStack = rsp
  <2>1. CASE UserMode
    <3>1. tss_rsp0 = current
      BY <2>1, <1>2 DEF UserMode, CpuOnTop
    <3>2. Len(kstack[current]) = 0
      BY <2>1, <1>2 DEF UserMode
    <3> QED BY <2>1, <3>1, <3>2, <1>2 DEF TrapStack
  <2>2. CASE ~UserMode
    BY <2>2 DEF TrapStack
  <2> QED BY <2>1, <2>2
<1>4. SubSeq(kstack[current], 1, Len(kstack[current])) = kstack[current]
  BY <1>1, SubSeqFull
<1>5. ReturnedKstack = kstack
  BY <1>1, <1>2, <1>3, <1>4 DEF ReturnedKstack, TypeOK
<1>6. ASSUME NEW f \in Frames
      PROVE  TrapKstack(f) = [kstack EXCEPT ![current] = Append(@, f)]
  BY <1>2, <1>3, <1>4 DEF TrapKstack
<1>7. TrapRsp = [stack |-> current, depth |-> Len(kstack[current]) + 1]
  BY <1>2, <1>3 DEF TrapRsp
<1> QED BY <1>1, <1>5, <1>6, <1>7

\* A step that changes nothing but the stack of the process that runs (and
\* counts a tick, or halts) disturbs no suspended process.
LEMMA OnlyCurrentStackChanges ==
  ASSUME IInv, NEW s \in Seq(Frames),
         kstack' = [kstack EXCEPT ![current] = s],
         rsp' = [stack |-> current, depth |-> Len(s)],
         halted' \in BOOLEAN, timer_ticks' \in 0 .. TicksPerSlice - 1,
         UNCHANGED <<boot_step, created, sched, cr3, tss_rsp0, saved_rsp>>
  PROVE  IInv'
<1> USE DEF sched
<1>1. /\ current \in Stacks
      /\ kstack \in [Stacks -> Seq(Frames)]
      /\ Len(s) \in Nat
  BY LenProperties DEF IInv, TypeOK
<1>2. TypeOK'
  <2>1. kstack' \in [Stacks -> Seq(Frames)]
    BY <1>1
  <2>2. rsp' \in StackPointers
    BY <1>1 DEF StackPointers
  <2> QED BY <2>1, <2>2 DEF IInv, TypeOK
<1>3. BootOrder'
  BY DEF IInv, BootOrder
<1>4. EachProcessInOnePlace'
  BY DEF IInv, EachProcessInOnePlace, ReadySet, Scheduled
<1>5. CpuOnTop'
  BY <1>1 DEF IInv, CpuOnTop
<1>6. Suspended' = Suspended /\ current \notin Suspended
  BY DEF IInv, Suspended, ReadySet, EachProcessInOnePlace, BootOrder
<1>7. \A p \in Suspended' : FrameOnTop(p)'
  <2> SUFFICES ASSUME NEW p \in Suspended PROVE FrameOnTop(p)'
    BY <1>6
  <2>1. FrameOnTop(p)
    BY DEF IInv
  <2>2. kstack'[p] = kstack[p]
    BY <1>1, <1>6
  <2> QED BY <2>1, <2>2 DEF FrameOnTop
<1> QED BY <1>2, <1>3, <1>4, <1>5, <1>7 DEF IInv

\* gets pushes a frame and goes on in the kernel.
LEMMA TrapKeepsInvariant ==
  ASSUME IInv, NEW f \in Frames, kstack' = TrapKstack(f), rsp' = TrapRsp,
         halted' \in BOOLEAN,
         UNCHANGED <<boot_step, timer_ticks, created, sched, cr3, tss_rsp0, saved_rsp>>
  PROVE  IInv'
<1>1. /\ kstack[current] \in Seq(Frames)
      /\ kstack' = [kstack EXCEPT ![current] = Append(kstack[current], f)]
      /\ rsp' = [stack |-> current, depth |-> Len(kstack[current]) + 1]
  BY TrapLandsOnCurrentStack
<1>2. /\ Append(kstack[current], f) \in Seq(Frames)
      /\ Len(Append(kstack[current], f)) = Len(kstack[current]) + 1
  BY <1>1, AppendProperties
<1>3. timer_ticks' \in 0 .. TicksPerSlice - 1
  BY DEF IInv, TypeOK
<1> QED BY <1>1, <1>2, <1>3, OnlyCurrentStackChanges

\* gets pops its frame and the stack is as it was before the call.
LEMMA LeaveGetsKeepsInvariant ==
  ASSUME IInv, LeaveGets
  PROVE  IInv'
<1> DEFINE old == kstack[current]
           new == SubSeq(old, 1, Len(old) - 1)
<1>1. old \in Seq(Frames) /\ rsp = [stack |-> current, depth |-> Len(old)]
  BY DEF IInv, TypeOK, CpuOnTop
<1>2. Len(old) \in Nat \ {0}
  BY <1>1, LenProperties DEF LeaveGets
<1>3. new \in Seq(Frames) /\ Len(new) = Len(old) - 1
  BY <1>1, <1>2, PopProperties
<1>4. /\ kstack' = [kstack EXCEPT ![current] = new]
      /\ rsp' = [stack |-> current, depth |-> Len(old) - 1]
  BY <1>1 DEF LeaveGets, PopFrame, PopRsp
<1>5. timer_ticks' \in 0 .. TicksPerSlice - 1 /\ halted' \in BOOLEAN
  BY DEF LeaveGets, IInv, TypeOK
<1> HIDE DEF old, new
<1> QED BY <1>3, <1>4, <1>5, OnlyCurrentStackChanges DEF LeaveGets

\* A tick between two decisions leaves the stack as it found it.
LEMMA TimerTickKeepsInvariant ==
  ASSUME IInv, TimerTick
  PROVE  IInv'
<1>1. kstack \in [Stacks -> Seq(Frames)] /\ current \in Stacks
  BY DEF IInv, TypeOK
<1>2. /\ kstack' = [kstack EXCEPT ![current] = kstack[current]]
      /\ rsp' = [stack |-> current, depth |-> Len(kstack[current])]
  BY <1>1, TrapLandsOnCurrentStack DEF TimerTick, IInv, CpuOnTop
<1>3. timer_ticks' \in 0 .. TicksPerSlice - 1 /\ halted' \in BOOLEAN
  BY DEF TimerTick, IInv, TypeOK
<1> QED BY <1>1, <1>2, <1>3, OnlyCurrentStackChanges DEF TimerTick

-----------------------------------------------------------------------------
(* Boot and new processes *)

\* Before scheduler_init nothing runs, nothing is listed, and every stack is empty.
LEMMA InitEstablishesInvariant == Init => IInv
<1> SUFFICES ASSUME Init PROVE IInv
  OBVIOUS
<1>1. TypeOK
  <2>1. ready_processes \in Seq(Procs) /\ kstack \in [Stacks -> Seq(Frames)]
    BY EmptySeq DEF Init
  <2>2. saved_rsp \in [Procs -> StackPointers] /\ rsp \in StackPointers
    BY DEF Init, StackPointers
  <2>3. time_remaining \in [Procs -> 0 .. Quantum] /\ timer_ticks \in 0 .. TicksPerSlice - 1
    BY DEF Init
  <2> QED BY <2>1, <2>2, <2>3 DEF Init, TypeOK, BootSteps
<1>2. BootOrder
  BY DEF Init, BootOrder
<1>3. ReadySet = {} /\ Scheduled = {}
  BY DEF Init, ReadySet, Scheduled
<1>4. EachProcessInOnePlace
  BY <1>3 DEF Init, EachProcessInOnePlace
<1>5. CpuOnTop
  BY EmptySeq DEF Init, CpuOnTop
<1>6. Suspended = {}
  BY <1>3 DEF Init, Suspended
<1> QED BY <1>1, <1>2, <1>4, <1>5, <1>6 DEF IInv

\* scheduler_init empties what is empty.
LEMMA SchedulerInitKeepsInvariant ==
  ASSUME IInv, scheduler_init
  PROVE  IInv'
<1> USE DEF scheduler_init, context
<1>1. first_schedule /\ current = NULL /\ created = {} /\ idle_process = NULL
  BY DEF IInv, BootOrder
<1>2. TypeOK'
  BY EmptySeq DEF IInv, TypeOK, BootSteps
<1>3. BootOrder'
  BY <1>1 DEF BootOrder
<1>4. ReadySet' = {} /\ Scheduled' = {}
  BY <1>1 DEF ReadySet, Scheduled
<1>5. EachProcessInOnePlace'
  BY <1>4 DEF EachProcessInOnePlace
<1>6. CpuOnTop'
  BY <1>1 DEF IInv, CpuOnTop
<1>7. Suspended' = {}
  BY <1>4 DEF Suspended
<1> QED BY <1>2, <1>3, <1>5, <1>6, <1>7 DEF IInv

\* The crafted frame is the top of the stack, and saved_rsp points to it.
LEMMA PreparedFrameOnTop ==
  ASSUME IInv, NEW p \in Procs,
         kstack' = Prepared(kstack, p), saved_rsp' = PreparedRsp(p)
  PROVE  /\ kstack' \in [Stacks -> Seq(Frames)]
         /\ saved_rsp' \in [Procs -> StackPointers]
         /\ FrameOnTop(p)'
         /\ \A q \in Procs : q # p /\ FrameOnTop(q) => FrameOnTop(q)'
         /\ \A s \in Stacks : s # p => kstack'[s] = kstack[s]
<1>1. /\ kstack \in [Stacks -> Seq(Frames)]
      /\ saved_rsp \in [Procs -> StackPointers]
  BY DEF IInv, TypeOK
<1>2. <<"irq0">> \in Seq(Frames) /\ Len(<<"irq0">>) = 1 /\ <<"irq0">>[1] = "irq0"
  BY DEF Frames
<1>3. [stack |-> p, depth |-> 1] \in StackPointers
  BY DEF StackPointers
<1>4. kstack'[p] = <<"irq0">> /\ saved_rsp'[p] = [stack |-> p, depth |-> 1]
  BY <1>1 DEF Prepared, PreparedRsp
<1>5. FrameOnTop(p)'
  BY <1>2, <1>4, EmptySeq DEF FrameOnTop
<1>6. \A s \in Stacks : s # p => kstack'[s] = kstack[s]
  BY <1>1 DEF Prepared
<1>7. \A q \in Procs : q # p => saved_rsp'[q] = saved_rsp[q]
  BY <1>1 DEF PreparedRsp
<1>8. \A q \in Procs : q # p /\ FrameOnTop(q) => FrameOnTop(q)'
  BY <1>6, <1>7 DEF FrameOnTop
<1>9. /\ kstack' \in [Stacks -> Seq(Frames)]
      /\ saved_rsp' \in [Procs -> StackPointers]
  BY <1>1, <1>2, <1>3 DEF Prepared, PreparedRsp
<1> QED BY <1>5, <1>6, <1>8, <1>9

\* The idle process gets its crafted frame and waits outside the list.
LEMMA ScheduleIdleKeepsInvariant ==
  ASSUME IInv, schedule_idle_process
  PROVE  IInv'
<1>1. first_schedule /\ current = NULL /\ created = {} /\ idle_process = NULL
  BY DEF IInv, BootOrder, schedule_idle_process
<1>2. /\ kstack' \in [Stacks -> Seq(Frames)]
      /\ saved_rsp' \in [Procs -> StackPointers]
      /\ FrameOnTop(Idle)'
      /\ kstack'[NULL] = kstack[NULL]
  BY PreparedFrameOnTop DEF schedule_idle_process
<1>3. ReadySet = {} /\ ReadySet' = ReadySet
  BY <1>1 DEF IInv, EachProcessInOnePlace, Scheduled, schedule_idle_process, ReadySet
<1>4. TypeOK'
  BY <1>2 DEF IInv, TypeOK, schedule_idle_process, BootSteps
<1>5. BootOrder'
  BY <1>1 DEF BootOrder, schedule_idle_process
<1>6. EachProcessInOnePlace'
  BY <1>1, <1>3 DEF IInv, EachProcessInOnePlace, Scheduled, schedule_idle_process
<1>7. CpuOnTop'
  BY <1>1, <1>2 DEF IInv, CpuOnTop, schedule_idle_process
<1>8. Suspended' \subseteq {Idle}
  BY <1>3 DEF Suspended
<1> QED BY <1>2, <1>4, <1>5, <1>6, <1>7, <1>8 DEF IInv

\* A pcb that is nowhere yet joins the end of the list: the boot does it with
\* the first process, execvpe with a new one.
LEMMA NewProcessKeepsInvariant ==
  ASSUME IInv, NEW p \in Users \ created, schedule_user_process(p, kstack),
         boot_step' \in {"sti", "done"},
         boot_step # "done" => boot_step = "schedule_user_process" /\ boot_step' = "sti",
         boot_step = "done" => boot_step' = "done"
  PROVE  IInv'
<1> USE DEF schedule_user_process
<1>1. p \in Procs /\ p # current /\ p \notin ReadySet /\ p # Idle
  BY DEF IInv, EachProcessInOnePlace, Scheduled
<1>2. /\ kstack' \in [Stacks -> Seq(Frames)]
      /\ saved_rsp' \in [Procs -> StackPointers]
      /\ FrameOnTop(p)'
      /\ \A q \in Procs : q # p /\ FrameOnTop(q) => FrameOnTop(q)'
      /\ kstack'[current] = kstack[current]
  BY <1>1, PreparedFrameOnTop DEF IInv, TypeOK
<1>3. /\ ready_processes \in Seq(Procs)
      /\ Distinct(ready_processes)
      /\ Elems(ready_processes) = ReadySet
  BY DEF IInv, TypeOK, EachProcessInOnePlace, Distinct, Elems, ReadySet
<1>4. /\ ready_processes' \in Seq(Procs)
      /\ Distinct(ready_processes')
      /\ Elems(ready_processes') = ReadySet \union {p}
  BY <1>1, <1>3, AppendDistinct, AppendProperties
<1>5. ReadySet' = ReadySet \union {p}
  BY <1>4 DEF ReadySet, Elems
<1>6. TypeOK'
  BY <1>1, <1>2, <1>4 DEF IInv, TypeOK, BootSteps
<1>7. BootOrder'
  BY DEF IInv, BootOrder
<1>8. EachProcessInOnePlace'
  <2>1. Scheduled' = Scheduled \union {p}
    BY DEF Scheduled
  <2>2. \A i, j \in DOMAIN ready_processes' :
          ready_processes'[i] = ready_processes'[j] => i = j
    BY <1>4 DEF Distinct
  <2>3. current' \notin ReadySet'
    BY <1>1, <1>5 DEF IInv, EachProcessInOnePlace
  <2>4. ReadySet' \union ({current'} \ {NULL}) = Scheduled'
    BY <1>5, <2>1 DEF IInv, EachProcessInOnePlace
  <2> QED BY <2>2, <2>3, <2>4 DEF EachProcessInOnePlace
<1>9. CpuOnTop'
  BY <1>2 DEF IInv, CpuOnTop
<1>10. Suspended' = Suspended \union {p} /\ Suspended \subseteq Procs /\ p \notin Suspended
  <2>1. ReadySet \subseteq Procs
    BY <1>3, ElementOfSeq, LenProperties DEF ReadySet
  <2> QED BY <1>1, <1>5, <2>1 DEF Suspended
<1>11. \A q \in Suspended' : FrameOnTop(q)'
  BY <1>2, <1>10 DEF IInv
<1> QED BY <1>6, <1>7, <1>8, <1>9, <1>11 DEF IInv

\* The first user process joins the list before interrupts are on.
LEMMA BootUserKeepsInvariant ==
  ASSUME IInv, BootUserProcess
  PROVE  IInv'
<1>1. PICK p \in Users : schedule_user_process(p, kstack)
  BY DEF BootUserProcess
<1>2. created = {} /\ boot_step = "schedule_user_process" /\ boot_step' = "sti"
  BY DEF BootUserProcess, IInv, BootOrder
<1> QED BY <1>1, <1>2, NewProcessKeepsInvariant

\* execvpe adds a process behind the caller's back: the caller's stack is as before.
LEMMA ExecKeepsInvariant ==
  ASSUME IInv, ExecNewBinary
  PROVE  IInv'
<1>1. PICK p \in Users \ created : schedule_user_process(p, ReturnedKstack)
  BY DEF ExecNewBinary
<1>2. schedule_user_process(p, kstack)
  BY <1>1, TrapLandsOnCurrentStack
<1>3. boot_step = "done" /\ boot_step' = "done"
  BY DEF ExecNewBinary, InterruptsOn
<1> QED BY <1>2, <1>3, NewProcessKeepsInvariant

\* The sti at the end of start() changes nothing but what may happen next.
LEMMA EnableInterruptsKeepsInvariant ==
  ASSUME IInv, EnableInterrupts
  PROVE  IInv'
<1> USE DEF EnableInterrupts, sched, context
<1>1. TypeOK'
  BY DEF IInv, TypeOK, BootSteps
<1>2. BootOrder'
  BY DEF IInv, BootOrder
<1>3. EachProcessInOnePlace'
  BY DEF IInv, EachProcessInOnePlace, ReadySet, Scheduled
<1>4. CpuOnTop'
  BY DEF IInv, CpuOnTop
<1>5. \A p \in Suspended' : FrameOnTop(p)'
  BY DEF IInv, Suspended, ReadySet, FrameOnTop
<1> QED BY <1>1, <1>2, <1>3, <1>4, <1>5 DEF IInv

-----------------------------------------------------------------------------
(* Decisions *)

\* The process that is stopped keeps its frame on top of its stack, the one
\* that is resumed has its frame popped, the other stacks stay as they are.
LEMMA DispatchStacks ==
  ASSUME IInv, NEW p \in Suspended,
         kstack' = PopFrame(TrapKstack("irq0"), saved_rsp[p]),
         rsp' = PopRsp(saved_rsp[p])
  PROVE  /\ p \in Procs /\ p # current
         /\ kstack' \in [Stacks -> Seq(Frames)]
         /\ rsp' \in StackPointers
         /\ rsp' = [stack |-> p, depth |-> Len(kstack'[p])]
         /\ \A q \in Stacks : q \notin {p, current} => kstack'[q] = kstack[q]
         /\ TrapRsp = [stack |-> current, depth |-> Len(kstack'[current])]
         /\ TrapRsp \in StackPointers
         /\ kstack'[current] # <<>>
         /\ kstack'[current][Len(kstack'[current])] = "irq0"
<1> DEFINE old == kstack[p]
           new == SubSeq(old, 1, Len(old) - 1)
           stopped == Append(kstack[current], "irq0")
<1>1. /\ kstack \in [Stacks -> Seq(Frames)]
      /\ ready_processes \in Seq(Procs)
      /\ current \in Stacks
      /\ "irq0" \in Frames
  BY DEF IInv, TypeOK, Frames
<1>2. p \in Procs /\ p # current
  <2>1. ReadySet \subseteq Procs
    BY <1>1, ElementOfSeq, LenProperties DEF ReadySet
  <2>2. current \notin Suspended
    BY DEF IInv, EachProcessInOnePlace, BootOrder, Suspended
  <2> QED BY <2>1, <2>2 DEF Suspended
<1>3. /\ saved_rsp[p] = [stack |-> p, depth |-> Len(old)]
      /\ old \in Seq(Frames)
      /\ old # <<>>
  BY <1>1, <1>2 DEF IInv, FrameOnTop
<1>4. Len(old) \in Nat \ {0}
  BY <1>3, EmptySeq
<1>5. new \in Seq(Frames) /\ Len(new) = Len(old) - 1
  BY <1>3, <1>4, PopProperties
<1>6. /\ kstack[current] \in Seq(Frames)
      /\ TrapKstack("irq0") = [kstack EXCEPT ![current] = stopped]
      /\ TrapRsp = [stack |-> current, depth |-> Len(kstack[current]) + 1]
  BY <1>1, TrapLandsOnCurrentStack
<1>7. /\ stopped \in Seq(Frames)
      /\ stopped # <<>>
      /\ Len(stopped) = Len(kstack[current]) + 1
      /\ Len(stopped) \in Nat
      /\ stopped[Len(stopped)] = "irq0"
  BY <1>1, <1>6, AppendProperties, LenProperties
<1> HIDE DEF stopped
<1>8. kstack' = [[kstack EXCEPT ![current] = stopped] EXCEPT ![p] = new]
  <2>1. [kstack EXCEPT ![current] = stopped][p] = old
    BY <1>1, <1>2
  <2>2. saved_rsp[p].stack = p /\ saved_rsp[p].depth = Len(old)
    BY <1>3
  <2> QED BY <1>6, <2>1, <2>2 DEF PopFrame
<1>9. rsp' = [stack |-> p, depth |-> Len(old) - 1]
  BY <1>3 DEF PopRsp
<1> HIDE DEF old, new
<1>10. /\ kstack' \in [Stacks -> Seq(Frames)]
       /\ kstack'[p] = new
       /\ kstack'[current] = stopped
       /\ \A q \in Stacks : q \notin {p, current} => kstack'[q] = kstack[q]
  BY <1>1, <1>2, <1>5, <1>7, <1>8
<1>11. rsp' \in StackPointers /\ TrapRsp \in StackPointers
  BY <1>1, <1>2, <1>4, <1>6, <1>7, <1>9 DEF StackPointers
<1> QED BY <1>2, <1>5, <1>6, <1>7, <1>9, <1>10, <1>11

\* The first decision resumes the idle process from outside the list.
LEMMA FirstScheduleKeepsInvariant ==
  ASSUME IInv, FirstSchedule
  PROVE  IInv'
<1>1. /\ first_schedule /\ boot_step = "done" /\ idle_process = Idle
      /\ current = NULL /\ current' = Idle /\ ~first_schedule'
  BY DEF FirstSchedule, InterruptsOn, IInv, BootOrder
<1>2. Idle \in Suspended
  BY <1>1 DEF Suspended
<1>3. /\ kstack' \in [Stacks -> Seq(Frames)]
      /\ rsp' \in StackPointers
      /\ rsp' = [stack |-> Idle, depth |-> Len(kstack'[Idle])]
      /\ \A q \in Procs : q # Idle => kstack'[q] = kstack[q]
  BY <1>1, <1>2, DispatchStacks DEF FirstSchedule
<1>4. TypeOK'
  <2>1. timer_ticks' \in 0 .. TicksPerSlice - 1 /\ cr3' \in Stacks /\ current' \in Stacks
    BY <1>1 DEF FirstSchedule
  <2>2. first_schedule' \in BOOLEAN
    BY DEF FirstSchedule
  <2> QED BY <1>3, <2>1, <2>2 DEF FirstSchedule, IInv, TypeOK
<1>5. BootOrder'
  BY <1>1 DEF FirstSchedule, IInv, BootOrder
<1>6. ReadySet' = ReadySet /\ ReadySet = created /\ ReadySet \subseteq Users
  BY <1>1 DEF FirstSchedule, IInv, TypeOK, EachProcessInOnePlace, ReadySet, Scheduled
<1>7. EachProcessInOnePlace'
  <2>1. Scheduled' = Scheduled \union {Idle}
    BY <1>1 DEF Scheduled, FirstSchedule
  <2> QED BY <1>1, <1>6, <2>1 DEF FirstSchedule, IInv, EachProcessInOnePlace
<1>8. CpuOnTop'
  BY <1>1, <1>3 DEF CpuOnTop, FirstSchedule
<1>9. \A q \in Suspended' : FrameOnTop(q)'
  <2> SUFFICES ASSUME NEW q \in ReadySet PROVE FrameOnTop(q)'
    BY <1>1, <1>6 DEF Suspended
  <2>1. FrameOnTop(q) /\ q \in Procs /\ q # Idle
    BY <1>6 DEF IInv, Suspended
  <2> QED BY <1>3, <2>1 DEF FrameOnTop, FirstSchedule
<1> QED BY <1>4, <1>5, <1>7, <1>8, <1>9 DEF IInv

\* With the boot over there is a user process, and it is in the list unless it
\* runs, when the idle process is.
LEMMA ListIsNotEmpty ==
  ASSUME IInv, boot_step = "done"
  PROVE  ready_processes # <<>>
<1>1. PICK p \in created : p # NULL /\ p # Idle
  BY DEF IInv, TypeOK, BootOrder
<1>2. CASE first_schedule
  BY <1>1, <1>2 DEF IInv, BootOrder, EachProcessInOnePlace, Scheduled, ReadySet
<1>3. CASE ~first_schedule
  BY <1>1, <1>3 DEF IInv, EachProcessInOnePlace, Scheduled, ReadySet
<1> QED BY <1>2, <1>3

\* Requeueing a process that is not in the list puts it there once.
LEMMA RequeuedOnce ==
  ASSUME NEW list \in Seq(Procs), NEW p \in Procs,
         Distinct(list), p \notin Elems(list),
         time_remaining \in [Procs -> 0 .. Quantum]
  PROVE  /\ RequeuedList(list, p) \in Seq(Procs)
         /\ Distinct(RequeuedList(list, p))
         /\ Elems(RequeuedList(list, p)) = Elems(list) \union {p}
         /\ RequeuedTime(p) \in [Procs -> 0 .. Quantum]
<1>1. /\ RequeuedList(list, p) \in Seq(Procs)
      /\ Distinct(RequeuedList(list, p))
      /\ Elems(RequeuedList(list, p)) = Elems(list) \union {p}
  <2>1. CASE TimeLeft(p) = 0
    BY <2>1, AppendDistinct, AppendProperties DEF RequeuedList
  <2>2. CASE TimeLeft(p) # 0
    BY <2>2, PrependDistinct DEF RequeuedList
  <2> QED BY <2>1, <2>2
<1>2. TimeLeft(p) \in 0 .. Quantum
  BY DEF TimeLeft
<1>3. RequeuedTime(p) \in [Procs -> 0 .. Quantum]
  BY <1>2 DEF RequeuedTime
<1> QED BY <1>1, <1>3

\* A later decision puts the process that ran back and resumes the head of the list.
LEMMA SwitchKeepsInvariant ==
  ASSUME IInv, SwitchProcess
  PROVE  IInv'
<1> DEFINE next == Head(ready_processes)
           rest == Tail(ready_processes)
<1>1. /\ ready_processes \in Seq(Procs)
      /\ time_remaining \in [Procs -> 0 .. Quantum]
      /\ saved_rsp \in [Procs -> StackPointers]
      /\ boot_step = "done" /\ ~first_schedule /\ current \in Procs
  BY DEF SwitchProcess, InterruptsOn, IInv, TypeOK, BootOrder
<1>2. ready_processes # <<>> /\ Distinct(ready_processes) /\ Elems(ready_processes) = ReadySet
  BY <1>1, ListIsNotEmpty DEF IInv, EachProcessInOnePlace, Distinct, Elems, ReadySet
<1>3. /\ next \in ReadySet /\ next \in Procs
      /\ rest \in Seq(Procs) /\ Distinct(rest) /\ Elems(rest) = ReadySet \ {next}
  BY <1>1, <1>2, TailDistinct, HeadTailProperties
<1>4. current \notin ReadySet /\ next \in Suspended /\ next # NULL /\ next # current
  BY <1>3 DEF IInv, EachProcessInOnePlace, Suspended
<1>5. get_next_ready_process = next
  BY <1>2 DEF get_next_ready_process
<1>6. [saved_rsp EXCEPT ![current] = TrapRsp][next] = saved_rsp[next]
  BY <1>1, <1>3, <1>4
<1>7. /\ ready_processes' = RequeuedList(rest, current)
      /\ time_remaining' = RequeuedTime(current)
      /\ saved_rsp' = [saved_rsp EXCEPT ![current] = TrapRsp]
      /\ current' = next /\ cr3' = next
      /\ next \in Users => tss_rsp0' = next
      /\ tss_rsp0' \in {next, tss_rsp0}
      /\ kstack' = PopFrame(TrapKstack("irq0"), saved_rsp[next])
      /\ rsp' = PopRsp(saved_rsp[next])
      /\ timer_ticks' = 0
      /\ UNCHANGED <<boot_step, first_schedule, idle_process, created, halted>>
  BY <1>3, <1>4, <1>5, <1>6 DEF SwitchProcess, process_type
<1> HIDE DEF next, rest
<1>8. /\ kstack' \in [Stacks -> Seq(Frames)]
      /\ rsp' \in StackPointers
      /\ rsp' = [stack |-> next, depth |-> Len(kstack'[next])]
      /\ \A q \in Stacks : q \notin {next, current} => kstack'[q] = kstack[q]
      /\ TrapRsp = [stack |-> current, depth |-> Len(kstack'[current])]
      /\ TrapRsp \in StackPointers
      /\ kstack'[current] # <<>>
      /\ kstack'[current][Len(kstack'[current])] = "irq0"
  BY <1>4, <1>7, DispatchStacks
<1>9. /\ ready_processes' \in Seq(Procs)
      /\ Distinct(ready_processes')
      /\ ReadySet' = (ReadySet \ {next}) \union {current}
      /\ time_remaining' \in [Procs -> 0 .. Quantum]
  <2>1. current \notin Elems(rest)
    BY <1>3, <1>4
  <2>2. /\ RequeuedList(rest, current) \in Seq(Procs)
        /\ Distinct(RequeuedList(rest, current))
        /\ Elems(RequeuedList(rest, current)) = Elems(rest) \union {current}
        /\ RequeuedTime(current) \in [Procs -> 0 .. Quantum]
    BY <1>1, <1>3, <2>1, RequeuedOnce
  <2>3. ReadySet' = Elems(ready_processes')
    BY DEF ReadySet, Elems
  <2> QED BY <1>3, <1>7, <2>2, <2>3
<1>10. TypeOK'
  <2>1. saved_rsp' \in [Procs -> StackPointers]
    BY <1>1, <1>7, <1>8
  <2>2. timer_ticks' \in 0 .. TicksPerSlice - 1
    BY <1>7
  <2>3. current' \in Stacks /\ cr3' \in Stacks /\ tss_rsp0' \in Stacks
    BY <1>3, <1>7 DEF IInv, TypeOK
  <2> QED BY <1>7, <1>8, <1>9, <2>1, <2>2, <2>3 DEF IInv, TypeOK
<1>11. BootOrder'
  BY <1>1, <1>4, <1>7 DEF IInv, BootOrder
<1>12. EachProcessInOnePlace'
  <2>1. Scheduled' = Scheduled
    BY <1>7 DEF Scheduled
  <2>2. current' \notin ReadySet'
    BY <1>4, <1>7, <1>9
  <2>3. ReadySet' \union ({current'} \ {NULL}) = Scheduled'
    BY <1>1, <1>3, <1>4, <1>7, <1>9, <2>1 DEF IInv, EachProcessInOnePlace
  <2> QED BY <1>9, <2>2, <2>3 DEF EachProcessInOnePlace, Distinct
<1>13. CpuOnTop'
  BY <1>7, <1>8 DEF CpuOnTop
<1>14. \A q \in Suspended' : FrameOnTop(q)'
  <2> SUFFICES ASSUME NEW q \in ReadySet' PROVE FrameOnTop(q)'
    BY <1>1, <1>7 DEF Suspended
  <2>1. CASE q = current
    BY <1>1, <1>7, <1>8, <2>1 DEF FrameOnTop
  <2>2. CASE q # current
    <3>1. q \in Suspended /\ q \in Procs /\ q # next
      <4>1. q \in ReadySet /\ q # next
        BY <1>9, <2>2
      <4>2. ReadySet \subseteq Procs
        BY <1>1, ElementOfSeq, LenProperties DEF ReadySet
      <4> QED BY <4>1, <4>2 DEF Suspended
    <3>2. saved_rsp'[q] = saved_rsp[q] /\ kstack'[q] = kstack[q]
      BY <1>1, <1>7, <1>8, <2>2, <3>1
    <3> QED BY <3>1, <3>2 DEF IInv, FrameOnTop
  <2> QED BY <2>1, <2>2
<1> QED BY <1>10, <1>11, <1>12, <1>13, <1>14 DEF IInv

-----------------------------------------------------------------------------
(* The theorems *)

\* Every step of the scheduler, one lemma an action, and every stutter.
LEMMA NextKeepsInvariant ==
  ASSUME IInv, [Next]_vars
  PROVE  IInv'
<1>1. CASE Boot
  BY <1>1, SchedulerInitKeepsInvariant, ScheduleIdleKeepsInvariant,
     BootUserKeepsInvariant, EnableInterruptsKeepsInvariant DEF Boot
<1>2. CASE generate_timer
  BY <1>2, TimerTickKeepsInvariant, FirstScheduleKeepsInvariant, SwitchKeepsInvariant
     DEF generate_timer
<1>3. CASE ExecNewBinary
  BY <1>3, ExecKeepsInvariant
<1>4. CASE EnterGets
  <2>1. halted' \in BOOLEAN /\ "int80" \in Frames
    BY <1>4 DEF EnterGets, IInv, TypeOK, Frames
  <2> QED BY <1>4, <2>1, TrapKeepsInvariant DEF EnterGets
<1>5. CASE LeaveGets
  BY <1>5, LeaveGetsKeepsInvariant
<1>6. CASE HaltOnException
  <2>1. halted' \in BOOLEAN /\ "fault" \in Frames
    BY <1>6 DEF HaltOnException, Frames
  <2> QED BY <1>6, <2>1, TrapKeepsInvariant DEF HaltOnException
<1>7. CASE UNCHANGED vars
  <2> USE <1>7 DEF vars, sched, context
  <2>1. TypeOK'
    BY DEF IInv, TypeOK
  <2>2. BootOrder' /\ CpuOnTop'
    BY DEF IInv, BootOrder, CpuOnTop
  <2>3. EachProcessInOnePlace'
    BY DEF IInv, EachProcessInOnePlace, ReadySet, Scheduled
  <2>4. \A p \in Suspended' : FrameOnTop(p)'
    BY DEF IInv, Suspended, ReadySet, FrameOnTop
  <2> QED BY <2>1, <2>2, <2>3, <2>4 DEF IInv
<1> QED BY <1>1, <1>2, <1>3, <1>4, <1>5, <1>6, <1>7 DEF Next, Process

\* The scheduler's state is the one the five invariants below describe, whatever
\* the boot, the timer and the system calls do.
THEOREM SchedulerInvariant == Spec => []IInv
<1>1. Init => IInv
  BY InitEstablishesInvariant
<1>2. IInv /\ [Next]_vars => IInv'
  BY NextKeepsInvariant
<1> QED BY <1>1, <1>2, PTL DEF Spec

\* Type correctness of the scheduler's globals, pcbs and stacks.
THEOREM SchedulerTypeOK == Spec => []TypeOK
<1>1. IInv => TypeOK
  BY DEF IInv
<1> QED BY <1>1, SchedulerInvariant, PTL

\* No process is lost by a decision, none is in the list twice, none is both in
\* the list and on the CPU.
THEOREM SchedulerKeepsEveryProcess == Spec => []EachProcessInOnePlace
<1>1. IInv => EachProcessInOnePlace
  BY DEF IInv
<1> QED BY <1>1, SchedulerInvariant, PTL

\* The branch of generate_timer for an empty list is dead code.
THEOREM SchedulerListNeverRunsDry == Spec => []ReadyListNeverRunsDry
<1>1. IInv => ReadyListNeverRunsDry
  BY ListIsNotEmpty DEF ReadyListNeverRunsDry
<1> QED BY <1>1, SchedulerInvariant, PTL

\* Page tables, kernel stack and TSS are those of the process that runs.
THEOREM SchedulerCurrentOwnsTheCPU == Spec => []CurrentOwnsTheCPU
<1>1. IInv => CurrentOwnsTheCPU
  BY DEF IInv, CpuOnTop, CurrentOwnsTheCPU
<1> QED BY <1>1, SchedulerInvariant, PTL

\* Every process in the list can be resumed where it was stopped.
THEOREM SchedulerSuspendedFrameIsOnTop == Spec => []SuspendedFrameIsOnTop
<1>1. IInv => SuspendedFrameIsOnTop
  BY DEF IInv, SuspendedFrameIsOnTop, Suspended, FrameOnTop
<1> QED BY <1>1, SchedulerInvariant, PTL

-----------------------------------------------------------------------------
(* Steps *)

StacksUntouched ==
  \A p \in ReadySet : p \in ReadySet' => kstack'[p] = kstack[p] /\ saved_rsp'[p] = saved_rsp[p]

\* A step that writes one stack writes that of a process outside the list.
LEMMA StepLeavesSuspendedStacks ==
  ASSUME IInv, [Next]_vars
  PROVE  StacksUntouched
<1> SUFFICES ASSUME NEW p \in ReadySet, p \in ReadySet'
             PROVE  kstack'[p] = kstack[p] /\ saved_rsp'[p] = saved_rsp[p]
  BY DEF StacksUntouched
<1>1. /\ kstack \in [Stacks -> Seq(Frames)] /\ saved_rsp \in [Procs -> StackPointers]
      /\ ready_processes \in Seq(Procs)
  BY DEF IInv, TypeOK
<1>2. p \in Procs /\ p # current /\ p \in Scheduled /\ p # NULL
  <2>1. ReadySet \subseteq Procs
    BY <1>1, ElementOfSeq, LenProperties DEF ReadySet
  <2> QED BY <2>1 DEF IInv, EachProcessInOnePlace
<1>3. ReturnedKstack = kstack /\ \A f \in Frames : TrapKstack(f)[p] = kstack[p]
  BY <1>1, <1>2, TrapLandsOnCurrentStack
<1>4. CASE scheduler_init \/ EnableInterrupts \/ UNCHANGED vars
  BY <1>4 DEF scheduler_init, EnableInterrupts, vars, context
<1>5. CASE schedule_idle_process
  <2>1. p # Idle
    BY <1>2, <1>5 DEF IInv, BootOrder, Scheduled, schedule_idle_process
  <2> QED BY <1>1, <1>2, <1>5, <2>1 DEF schedule_idle_process, Prepared, PreparedRsp
<1>6. CASE BootUserProcess \/ ExecNewBinary
  <2>1. PICK q \in Users \ created : schedule_user_process(q, kstack)
    BY <1>3, <1>6 DEF BootUserProcess, ExecNewBinary, IInv, BootOrder
  <2>2. p # q
    BY <1>2, <2>1 DEF Scheduled
  <2> QED BY <1>1, <1>2, <2>1, <2>2 DEF schedule_user_process, Prepared, PreparedRsp
<1>7. CASE TimerTick
  BY <1>3, <1>7 DEF TimerTick
<1>8. CASE FirstSchedule
  <2>1. idle_process = Idle /\ current = NULL /\ p # Idle
    BY <1>2, <1>8 DEF FirstSchedule, InterruptsOn, IInv, BootOrder, TypeOK, Scheduled
  <2>2. Idle \in Suspended
    BY <1>8, <2>1 DEF FirstSchedule, Suspended
  <2> QED BY <1>2, <1>8, <2>1, <2>2, DispatchStacks DEF FirstSchedule
<1>9. CASE SwitchProcess
  <2> DEFINE next == Head(ready_processes)
  <2>1. ready_processes # <<>> /\ current \in Procs
    BY <1>9, ListIsNotEmpty DEF SwitchProcess, InterruptsOn, IInv, BootOrder, TypeOK
  <2>2. next \in ReadySet /\ next # NULL /\ next # current
    BY <1>1, <2>1, HeadTailProperties, EmptySeq, LenProperties
       DEF ReadySet, IInv, EachProcessInOnePlace
  <2>3. get_next_ready_process = next
    BY <2>1 DEF get_next_ready_process
  <2> HIDE DEF next
  <2>4. [saved_rsp EXCEPT ![current] = TrapRsp][next] = saved_rsp[next]
    BY <1>1, <2>1, <2>2
  <2>5. /\ saved_rsp' = [saved_rsp EXCEPT ![current] = TrapRsp]
        /\ kstack' = PopFrame(TrapKstack("irq0"), saved_rsp[next])
        /\ rsp' = PopRsp(saved_rsp[next])
        /\ current' = next
    BY <1>9, <2>2, <2>3, <2>4 DEF SwitchProcess
  <2>6. p # next
    BY <1>9, <2>5, SwitchKeepsInvariant DEF IInv, EachProcessInOnePlace
  <2> QED BY <1>1, <1>2, <2>2, <2>5, <2>6, DispatchStacks DEF Suspended
<1>10. CASE EnterGets \/ HaltOnException
  BY <1>3, <1>10 DEF EnterGets, HaltOnException, Frames
<1>11. CASE LeaveGets
  BY <1>1, <1>2, <1>11 DEF LeaveGets, PopFrame, IInv, CpuOnTop
<1> QED BY <1>4, <1>5, <1>6, <1>7, <1>8, <1>9, <1>10, <1>11
        DEF Next, Boot, generate_timer, Process

\* Nothing a running process or the kernel does on its behalf reaches the stack
\* of a process that waits in the list.
THEOREM SchedulerSuspendedStacksAreUntouched == Spec => SuspendedStacksAreUntouched
<1>1. IInv /\ [Next]_vars => [StacksUntouched]_vars
  BY StepLeavesSuspendedStacks
<1>2. [StacksUntouched]_vars <=>
        [\A p \in ReadySet : p \in ReadySet' =>
           kstack'[p] = kstack[p] /\ saved_rsp'[p] = saved_rsp[p]]_vars
  BY DEF StacksUntouched
<1> QED BY <1>1, <1>2, SchedulerInvariant, PTL DEF Spec, SuspendedStacksAreUntouched

-----------------------------------------------------------------------------
(* Scheduler implements FairDispatcher: the steps.  (That every process is *)
(* dispatched again is a matter of fairness.)                              *)

\* Only a process that runs can halt the machine, so it is halted late.
HaltedLate == halted => current # NULL

\* Where Dispatcher finds the processes that wait.
Waiting ==
  ReadySet \union
    (IF first_schedule /\ idle_process # NULL THEN {idle_process} ELSE {})

LEMMA NextKeepsHaltedLate ==
  ASSUME IInv, HaltedLate, [Next]_vars
  PROVE  HaltedLate'
<1> USE DEF HaltedLate
<1>1. CASE Boot
  <2>1. ~halted
    BY <1>1 DEF Boot, scheduler_init, schedule_idle_process, BootUserProcess, EnableInterrupts,
                IInv, BootOrder
  <2> QED BY <1>1, <2>1 DEF Boot, scheduler_init, schedule_idle_process, BootUserProcess,
                            schedule_user_process, EnableInterrupts
<1>2. CASE generate_timer
  <2>1. ~halted /\ ~halted'
    BY <1>2 DEF generate_timer, TimerTick, FirstSchedule, SwitchProcess, InterruptsOn
  <2> QED BY <2>1
<1>3. CASE ExecNewBinary \/ EnterGets \/ LeaveGets
  BY <1>3 DEF ExecNewBinary, EnterGets, LeaveGets, InterruptsOn, schedule_user_process
<1>4. CASE HaltOnException
  <2>1. current \in Users
    BY <1>4 DEF HaltOnException, UserMode, IInv, CpuOnTop
  <2> QED BY <1>4, <2>1 DEF HaltOnException, sched
<1>5. CASE UNCHANGED vars
  BY <1>5 DEF vars, sched
<1> QED BY <1>1, <1>2, <1>3, <1>4, <1>5 DEF Next, Process

\* The list and the idle process that is not in it are the processes that wait.
LEMMA WaitingFacts ==
  ASSUME IInv
  PROVE  /\ Waiting = Suspended
         /\ Waiting \union ({current} \ {NULL})
              = created \union (IF idle_process # NULL THEN {Idle} ELSE {})
         /\ current \notin Waiting
<1>1. idle_process \in {Idle, NULL} /\ created \subseteq Users
  BY DEF IInv, TypeOK
<1>2. Waiting = Suspended
  BY <1>1 DEF Waiting, Suspended
<1>3. CASE first_schedule
  <2>1. current = NULL
    BY <1>3 DEF IInv, BootOrder
  <2>2. NULL \notin ReadySet
    BY <1>3, <2>1 DEF IInv, EachProcessInOnePlace
  <2> QED BY <1>1, <1>2, <1>3, <2>1, <2>2 DEF Waiting, IInv, EachProcessInOnePlace, Scheduled
<1>4. CASE ~first_schedule
  <2>1. idle_process = Idle
    BY <1>4 DEF IInv, BootOrder
  <2> QED BY <1>1, <1>2, <1>4, <2>1 DEF Waiting, IInv, EachProcessInOnePlace, Scheduled
<1> QED BY <1>2, <1>3, <1>4

\* A process that schedule_user_process or schedule_idle_process adds was nowhere.
LEMMA AddedProcessIsAdmitted ==
  ASSUME IInv, HaltedLate, NEW p \in Procs, IInv',
         ~halted, UNCHANGED <<current, halted>>,
         p \notin Waiting, p # current,
         Waiting' = Waiting \union {p}
  PROVE  Dispatcher!Next
<1>1. Dispatcher!Admit(p)
  BY DEF Dispatcher!Admit, Waiting
<1> QED BY <1>1 DEF Dispatcher!Next

\* Every step of Scheduler is a step of FairDispatcher or leaves it where it is: a
\* decision dispatches, execvpe and the boot admit, an exception stops.
LEMMA StepsAreDispatcherSteps ==
  ASSUME IInv, HaltedLate, [Next]_vars
  PROVE  [Dispatcher!Next]_(Dispatcher!vars)
<1> DEFINE Stutter == UNCHANGED <<current, Waiting, halted>>
<1>1. Stutter => UNCHANGED Dispatcher!vars
  BY DEF Dispatcher!vars, Waiting
<1>2. IInv'
  BY NextKeepsInvariant
<1>3. CASE scheduler_init
  <2>1. current = NULL /\ idle_process = NULL /\ ReadySet = {}
    BY <1>3 DEF scheduler_init, IInv, BootOrder, EachProcessInOnePlace, Scheduled
  <2>2. ReadySet' = {} /\ current' = NULL /\ idle_process' = NULL /\ halted' = halted
    BY <1>3, EmptySeq DEF scheduler_init, ReadySet
  <2> QED BY <1>1, <2>1, <2>2 DEF Waiting
<1>4. CASE schedule_idle_process
  <2>1. /\ current = NULL /\ idle_process = NULL /\ idle_process' = Idle
        /\ first_schedule /\ first_schedule' /\ ReadySet = {} /\ ReadySet' = {}
        /\ UNCHANGED <<current, halted>>
    BY <1>4 DEF schedule_idle_process, IInv, BootOrder, EachProcessInOnePlace, Scheduled, ReadySet
  <2>2. ~halted
    BY <2>1 DEF HaltedLate
  <2>3. Idle \notin Waiting /\ Waiting' = Waiting \union {Idle}
    BY <2>1 DEF Waiting
  <2> QED BY <1>2, <2>1, <2>2, <2>3, AddedProcessIsAdmitted
<1>5. CASE BootUserProcess \/ ExecNewBinary
  <2>1. ReturnedKstack = kstack
    BY TrapLandsOnCurrentStack
  <2>2. PICK p \in Users \ created : schedule_user_process(p, kstack)
    BY <1>5, <2>1 DEF BootUserProcess, ExecNewBinary, IInv, BootOrder
  <2>3. UNCHANGED <<current, halted, first_schedule, idle_process>>
    BY <2>2 DEF schedule_user_process
  <2>4. ~halted
    BY <1>5 DEF BootUserProcess, ExecNewBinary, InterruptsOn, HaltedLate, IInv, BootOrder
  <2>5. p \notin Waiting /\ p # current /\ p \in Procs
    BY <2>2, WaitingFacts
  <2>6. ReadySet' = ReadySet \union {p}
    <3>1. ready_processes \in Seq(Procs) /\ ready_processes' = Append(ready_processes, p)
      BY <2>2 DEF schedule_user_process, IInv, TypeOK
    <3>2. Distinct(ready_processes) /\ Elems(ready_processes) = ReadySet
      BY DEF IInv, EachProcessInOnePlace, Distinct, Elems, ReadySet
    <3>3. p \notin ReadySet
      BY <2>5 DEF Waiting
    <3> QED BY <2>5, <3>1, <3>2, <3>3, AppendDistinct DEF ReadySet, Elems
  <2>7. Waiting' = Waiting \union {p}
    BY <2>3, <2>6 DEF Waiting
  <2> QED BY <1>2, <2>3, <2>4, <2>5, <2>7, AddedProcessIsAdmitted
<1>6. CASE EnableInterrupts \/ TimerTick \/ EnterGets \/ LeaveGets \/ UNCHANGED vars
  <2>1. UNCHANGED <<current, halted, first_schedule, idle_process, ready_processes>>
    BY <1>6 DEF EnableInterrupts, TimerTick, EnterGets, LeaveGets, vars, sched
  <2>2. Stutter
    BY <2>1 DEF Waiting, ReadySet
  <2> QED BY <1>1, <2>2
<1>7. CASE FirstSchedule
  <2>1. /\ first_schedule /\ ~first_schedule' /\ idle_process = Idle /\ current = NULL
        /\ current' = Idle /\ ~halted /\ halted' = halted /\ ReadySet' = ReadySet
    BY <1>7 DEF FirstSchedule, InterruptsOn, IInv, BootOrder, ReadySet
  <2>2. Idle \notin ReadySet
    BY <2>1 DEF IInv, TypeOK, EachProcessInOnePlace, Scheduled
  <2>3. Idle \in Waiting /\ Waiting' = (Waiting \ {Idle}) \union ({current} \ {NULL})
    BY <2>1, <2>2 DEF Waiting
  <2>4. Dispatcher!Dispatch(Idle)
    BY <2>1, <2>3 DEF Dispatcher!Dispatch, Waiting
  <2> QED BY <2>4 DEF Dispatcher!Next
<1>8. CASE SwitchProcess
  <2> DEFINE next == Head(ready_processes)
  <2>1. /\ boot_step = "done" /\ ~first_schedule /\ ~first_schedule'
        /\ ready_processes # <<>> /\ ready_processes \in Seq(Procs) /\ ~halted /\ halted' = halted
    BY <1>8, ListIsNotEmpty DEF SwitchProcess, InterruptsOn, IInv, TypeOK
  <2>2. next \in ReadySet /\ next # NULL /\ next \in Procs
    BY <2>1, HeadTailProperties, EmptySeq, LenProperties DEF ReadySet, IInv, EachProcessInOnePlace
  <2>3. current' = next
    BY <1>8, <2>1, <2>2 DEF SwitchProcess, get_next_ready_process
  <2> HIDE DEF next
  <2>4. current # NULL /\ current # next
    BY <2>1, <2>2 DEF IInv, BootOrder, EachProcessInOnePlace
  <2>5. ReadySet' = (ReadySet \ {next}) \union {current}
    <3>1. /\ current \notin ReadySet /\ ReadySet \union {current} = Scheduled
      BY <2>4 DEF IInv, EachProcessInOnePlace
    <3>2. /\ next \notin ReadySet' /\ ReadySet' \union {next} = Scheduled'
      BY <1>2, <2>2, <2>3 DEF IInv, EachProcessInOnePlace
    <3>3. Scheduled' = Scheduled
      BY <1>8 DEF SwitchProcess, Scheduled
    <3> QED BY <2>2, <2>4, <3>1, <3>2, <3>3
  <2>6. next \in Waiting /\ Waiting' = (Waiting \ {next}) \union ({current} \ {NULL})
    BY <2>1, <2>2, <2>4, <2>5 DEF Waiting
  <2>7. Dispatcher!Dispatch(next)
    BY <2>1, <2>3, <2>6 DEF Dispatcher!Dispatch, Waiting
  <2> QED BY <2>2, <2>7 DEF Dispatcher!Next
<1>9. CASE HaltOnException
  <2>1. /\ UNCHANGED <<current, first_schedule, idle_process, ready_processes>>
        /\ ~halted /\ halted' = TRUE
    BY <1>9 DEF HaltOnException, InterruptsOn, sched
  <2>2. current # NULL
    BY <1>9 DEF HaltOnException, UserMode, IInv, CpuOnTop
  <2>3. Waiting' = Waiting
    BY <2>1 DEF Waiting, ReadySet
  <2>4. Dispatcher!Stop
    BY <2>1, <2>2, <2>3 DEF Dispatcher!Stop, Waiting
  <2> QED BY <2>4 DEF Dispatcher!Next
<1> QED BY <1>3, <1>4, <1>5, <1>6, <1>7, <1>8, <1>9
        DEF Next, Boot, generate_timer, Process

\* The scheduler starts where FairDispatcher does, and each of its steps is one of
\* FairDispatcher's or changes nothing that it speaks of.
THEOREM SchedulerStepsAreDispatcherSteps ==
  Spec => Dispatcher!Init /\ [][Dispatcher!Next]_(Dispatcher!vars)
<1>1. Init => Dispatcher!Init
  <2> SUFFICES ASSUME Init PROVE Dispatcher!Init
    OBVIOUS
  <2>1. ReadySet = {} /\ idle_process = NULL
    BY DEF Init, ReadySet
  <2> QED BY <2>1 DEF Init, Dispatcher!Init
<1>2. Init => HaltedLate
  BY DEF Init, HaltedLate
<1>3. IInv /\ HaltedLate /\ [Next]_vars => HaltedLate'
  BY NextKeepsHaltedLate
<1>4. IInv /\ HaltedLate /\ [Next]_vars => [Dispatcher!Next]_(Dispatcher!vars)
  BY StepsAreDispatcherSteps
<1> QED BY <1>1, <1>2, <1>3, <1>4, SchedulerInvariant, PTL DEF Spec
=============================================================================
