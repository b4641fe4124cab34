------------------------------ MODULE Scheduler ------------------------------
(***************************************************************************)
(* The round-robin scheduler of SBUnix: the boot sequence that fills it    *)
(* (sys/main.c, sys/schedule.c), the timer interrupt that switches         *)
(* processes (irq0 in sys/isr.s, generate_timer in sys/isr.c), and the     *)
(* system calls that matter to it (execvpe, which adds a process, and      *)
(* gets, which lets itself be preempted inside the kernel).                *)
(*                                                                         *)
(* A kernel stack is the sequence of the trap frames on it, each named for *)
(* its entry point; a stack pointer names a stack and a depth.  A frame    *)
(* stands for the registers it saves, a page table root for the process    *)
(* that owns it.  NULL is the null pcb pointer, and also the boot stack    *)
(* and the page tables of the kernel, which belong to no pcb.  pid, state  *)
(* and exit_status are written and never read: they are left out.          *)
(***************************************************************************)
EXTENDS Integers, Sequences

CONSTANTS
  Users,         \* the pcbs create_process can return
  Idle,          \* the pcb create_dummy_process returns at boot
  NULL,
  TicksPerSlice, \* timer interrupts per scheduling decision: 180
  Quantum        \* time_remaining given by the kernel: 3

ASSUME UsersAssumption == NULL \notin Users /\ Idle \notin Users /\ Idle # NULL
ASSUME SliceAssumption == TicksPerSlice \in Nat /\ TicksPerSlice >= 2
ASSUME QuantumAssumption == Quantum \in Nat \ {0}

Procs == Users \union {Idle}
Stacks == Procs \union {NULL}
Frames == {"irq0", "int80", "fault"}
StackPointers == [stack : Stacks, depth : Nat]

BootSteps == {"scheduler_init", "schedule_idle_process",
              "schedule_user_process", "sti", "done"}

VARIABLES
  boot_step,       \* the call start() in main.c makes next
  first_schedule,  \* no process has been dispatched yet
  timer_ticks,
  ready_processes, \* the list linked through pcb.next
  idle_process,
  current,         \* currently_running_process
  created,         \* the user pcbs create_process has returned
  time_remaining,
  cr3,             \* the owner of the page tables in use
  tss_rsp0,        \* the owner of the stack a trap from user mode uses
  kstack,          \* the frames on each kernel stack
  saved_rsp,       \* pcb.rsp
  rsp,             \* where the CPU is: at depth 0 of a USER, in user mode
  halted           \* fault_handler's for (;;)

sched == <<first_schedule, ready_processes, idle_process, current, time_remaining>>
context == <<cr3, tss_rsp0, kstack, saved_rsp, rsp>>
vars == <<boot_step, timer_ticks, created, halted, sched, context>>

-----------------------------------------------------------------------------
(* Stacks *)

\* Mutant: schedule_user_process forgets to set the type.
Mutant_process_type(p) == "KERNEL"
\* Mutant: the TSS is written by the first dispatch of a user process only.
Mutant_process_type_TssOnce(p) ==
  IF p = Idle \/ tss_rsp0 # NULL THEN "KERNEL" ELSE "USER"
process_type(p) == IF p = Idle THEN "KERNEL" ELSE "USER"

UserMode == rsp.stack \in Users /\ rsp.depth = 0

\* The CPU takes the stack of the TSS when it traps out of user mode, and
\* stays on the stack it is on otherwise.
TrapStack == IF UserMode THEN [stack |-> tss_rsp0, depth |-> 0] ELSE rsp

\* Mutant: rsp is read before the frame is pushed.
Mutant_TrapRsp == TrapStack
\* The stacks and the stack pointer once a trap has pushed its frame.
TrapRsp == [TrapStack EXCEPT !.depth = @ + 1]
TrapKstack(frame) ==
  [kstack EXCEPT ![TrapStack.stack] = Append(SubSeq(@, 1, TrapStack.depth), frame)]

\* What is left of the stack of sp when the frame at sp has been popped.
PopFrame(stacks, sp) == [stacks EXCEPT ![sp.stack] = SubSeq(@, 1, sp.depth - 1)]
PopRsp(sp) == [sp EXCEPT !.depth = @ - 1]

\* The stacks after a handler that returns to the code it interrupted.
ReturnedKstack == [kstack EXCEPT ![TrapStack.stack] = SubSeq(@, 1, TrapStack.depth)]

-----------------------------------------------------------------------------
Init ==
  /\ boot_step = "scheduler_init"
  /\ first_schedule = TRUE
  /\ timer_ticks = 0
  /\ ready_processes = <<>>
  /\ idle_process = NULL
  /\ current = NULL
  /\ created = {}
  /\ time_remaining = [p \in Procs |-> IF p = Idle THEN Quantum ELSE 0]
  /\ cr3 = NULL
  /\ tss_rsp0 = NULL
  /\ kstack = [s \in Stacks |-> <<>>]
  /\ saved_rsp = [p \in Procs |-> [stack |-> NULL, depth |-> 0]]
  /\ rsp = [stack |-> NULL, depth |-> 0]
  /\ halted = FALSE

-----------------------------------------------------------------------------
(* Boot.  Interrupts are off until the sti at the end of start(). *)

scheduler_init ==
  /\ boot_step = "scheduler_init"
  /\ boot_step' = "schedule_idle_process"
  /\ ready_processes' = <<>>
  /\ idle_process' = NULL
  /\ current' = NULL
  /\ UNCHANGED <<first_schedule, timer_ticks, created, time_remaining, halted, context>>

\* The pcb's kernel stack is filled with a frame that looks as if the
\* timer interrupt had pushed it, and its rsp points to that frame.
Prepared(stacks, p) == [stacks EXCEPT ![p] = <<"irq0">>]
PreparedRsp(p) == [saved_rsp EXCEPT ![p] = [stack |-> p, depth |-> 1]]

schedule_idle_process ==
  /\ boot_step = "schedule_idle_process"
  /\ boot_step' = "schedule_user_process"
  /\ kstack' = Prepared(kstack, Idle)
  /\ saved_rsp' = PreparedRsp(Idle)
  /\ idle_process' = Idle
  /\ UNCHANGED <<first_schedule, timer_ticks, ready_processes, current, created,
                 time_remaining, cr3, tss_rsp0, rsp, halted>>

\* A new pcb joins the end of the list, on top of the given stacks.  Its
\* time_remaining keeps the 0 of the fresh page it lies on.
schedule_user_process(p, stacks) ==
  /\ created' = created \union {p}
  /\ ready_processes' = Append(ready_processes, p)
  /\ kstack' = Prepared(stacks, p)
  /\ saved_rsp' = PreparedRsp(p)
  /\ UNCHANGED <<first_schedule, timer_ticks, idle_process, current, time_remaining,
                 cr3, tss_rsp0, rsp, halted>>

BootUserProcess ==
  /\ boot_step = "schedule_user_process"
  /\ boot_step' = "sti"
  /\ \E p \in Users : schedule_user_process(p, kstack)

EnableInterrupts ==
  /\ boot_step = "sti"
  /\ boot_step' = "done"
  /\ UNCHANGED <<timer_ticks, created, halted, sched, context>>

-----------------------------------------------------------------------------
(* The timer interrupt *)

InterruptsOn == boot_step = "done" /\ ~halted

TimerTick ==
  /\ InterruptsOn
  /\ timer_ticks + 1 # TicksPerSlice
  /\ timer_ticks' = timer_ticks + 1
  /\ kstack' = ReturnedKstack
  /\ UNCHANGED <<boot_step, created, halted, sched, cr3, tss_rsp0, saved_rsp, rsp>>

\* The frame the idle process starts from returns to the call instruction in
\* irq0 and not behind it, so generate_timer runs once more and counts a tick.
FirstSchedule ==
  /\ InterruptsOn
  /\ timer_ticks + 1 = TicksPerSlice
  /\ first_schedule
  /\ first_schedule' = FALSE
  /\ timer_ticks' = 1
  /\ current' = idle_process
  /\ cr3' = idle_process
  /\ kstack' = PopFrame(TrapKstack("irq0"), saved_rsp[idle_process])
  /\ rsp' = PopRsp(saved_rsp[idle_process])
  /\ UNCHANGED <<boot_step, ready_processes, idle_process, created, time_remaining,
                 tss_rsp0, saved_rsp, halted>>

get_next_ready_process ==
  IF ready_processes = <<>> THEN NULL ELSE Head(ready_processes)

\* Mutant: the test for 0 before the decrement is missing.
Mutant_TimeLeft(p) == time_remaining[p] - 1
\* Mutants of the requeueing: a process whose quantum is used up is dropped; one
\* that finds the list empty is dropped; the decrement is not stored.
Mutant_RequeuedList_Drops(list, p) == IF time_remaining[p] <= 1 THEN list ELSE <<p>> \o list
Mutant_RequeuedList_EmptyList(list, p) ==
  IF time_remaining[p] > 1 THEN <<p>> \o list
  ELSE IF list = <<>> THEN <<>> ELSE Append(list, p)
Mutant_RequeuedTime(p) ==
  [time_remaining EXCEPT ![p] = IF time_remaining[p] <= 1 THEN Quantum ELSE @]

\* The list and the times after the process that ran is put back: at the end
\* with a new quantum when its own is used up, at the front otherwise.
TimeLeft(p) == IF time_remaining[p] = 0 THEN 0 ELSE time_remaining[p] - 1
RequeuedList(list, p) ==
  IF TimeLeft(p) = 0 THEN Append(list, p) ELSE <<p>> \o list
RequeuedTime(p) ==
  [time_remaining EXCEPT ![p] = IF TimeLeft(p) = 0 THEN Quantum ELSE TimeLeft(p)]

\* Every later decision.  One that finds the list empty falls back on the idle
\* process; ReadyListNeverRunsDry says that none does.  currently_running_process
\* is set from the first decision on, so the test for NULL is not repeated here.
SwitchProcess ==
  /\ InterruptsOn
  /\ timer_ticks + 1 = TicksPerSlice
  /\ ~first_schedule
  /\ timer_ticks' = 0
  /\ LET process  == get_next_ready_process
         rest     == IF process = NULL THEN <<>> ELSE Tail(ready_processes)
         incoming == IF process = NULL THEN idle_process ELSE process
         saved    == [saved_rsp EXCEPT ![current] = TrapRsp]
     IN  /\ ready_processes' = RequeuedList(rest, current)
         /\ time_remaining' = IF process = NULL
                              THEN [RequeuedTime(current) EXCEPT ![idle_process] = Quantum]
                              ELSE RequeuedTime(current)
         /\ saved_rsp' = saved
         /\ current' = incoming
         /\ cr3' = incoming
         /\ tss_rsp0' = IF process # NULL /\ process_type(process) = "USER"
                        THEN process ELSE tss_rsp0
         /\ kstack' = PopFrame(TrapKstack("irq0"), saved[incoming])
         /\ rsp' = PopRsp(saved[incoming])
  /\ UNCHANGED <<boot_step, first_schedule, idle_process, created, halted>>

-----------------------------------------------------------------------------
(* System calls and faults of the process that runs.  The gate of int 0x80 *)
(* clears the interrupt flag, so a call that does not set it is one step.  *)

\* execvpe("ls"): a new process, scheduled behind the others; the caller goes on.
ExecNewBinary ==
  /\ InterruptsOn
  /\ UserMode
  /\ \E p \in Users \ created : schedule_user_process(p, ReturnedKstack)
  /\ UNCHANGED boot_step

\* gets: getstring executes sti and waits in the kernel for a line.
EnterGets ==
  /\ InterruptsOn
  /\ UserMode
  /\ kstack' = TrapKstack("int80")
  /\ rsp' = TrapRsp
  /\ UNCHANGED <<boot_step, timer_ticks, created, halted, sched, cr3, tss_rsp0, saved_rsp>>

LeaveGets ==
  /\ InterruptsOn
  /\ rsp.depth > 0
  /\ kstack[rsp.stack][rsp.depth] = "int80"
  /\ kstack' = PopFrame(kstack, rsp)
  /\ rsp' = PopRsp(rsp)
  /\ UNCHANGED <<boot_step, timer_ticks, created, halted, sched, cr3, tss_rsp0, saved_rsp>>

\* Every exception stops the machine with interrupts off.  page_fault_handler does
\* return, and the frame it returns into stops the machine (TrapFrames).
HaltOnException ==
  /\ InterruptsOn
  /\ UserMode
  /\ kstack' = TrapKstack("fault")
  /\ rsp' = TrapRsp
  /\ halted' = TRUE
  /\ UNCHANGED <<boot_step, timer_ticks, created, sched, cr3, tss_rsp0, saved_rsp>>

-----------------------------------------------------------------------------
Boot == scheduler_init \/ schedule_idle_process \/ BootUserProcess \/ EnableInterrupts
generate_timer == TimerTick \/ FirstSchedule \/ SwitchProcess
Process == ExecNewBinary \/ EnterGets \/ LeaveGets \/ HaltOnException

Next == Boot \/ generate_timer \/ Process

Spec == Init /\ [][Next]_vars

\* Boot runs to its end, and the timer chip keeps interrupting.
FairSpec == Spec /\ WF_vars(Boot) /\ WF_vars(generate_timer)

-----------------------------------------------------------------------------
(* Properties *)

\* Every variable stays in the set its C type and its use in the code give it.
TypeOK ==
  /\ boot_step \in BootSteps
  /\ first_schedule \in BOOLEAN
  /\ timer_ticks \in 0 .. TicksPerSlice - 1
  /\ ready_processes \in Seq(Procs)
  /\ idle_process \in {Idle, NULL}
  /\ current \in Stacks
  /\ created \subseteq Users
  /\ time_remaining \in [Procs -> 0 .. Quantum]
  /\ cr3 \in Stacks
  /\ tss_rsp0 \in Stacks
  /\ kstack \in [Stacks -> Seq(Frames)]
  /\ saved_rsp \in [Procs -> StackPointers]
  /\ rsp \in StackPointers
  /\ halted \in BOOLEAN

ReadySet == {ready_processes[i] : i \in DOMAIN ready_processes}

\* The processes the scheduler has to account for.
Scheduled == created \union (IF first_schedule THEN {} ELSE {Idle})

\* Each scheduled process is in exactly one place: it runs, or it has exactly
\* one place in the ready list (get_next_ready_process takes the head off,
\* schedule_old_process puts the old process back at one of two ends, and
\* schedule_user_process adds a pcb that was nowhere).
EachProcessInOnePlace ==
  /\ \A i, j \in DOMAIN ready_processes :
       ready_processes[i] = ready_processes[j] => i = j
  /\ current \notin ReadySet
  /\ ReadySet \union ({current} \ {NULL}) = Scheduled

\* generate_timer never meets an empty ready list, so its last branch, which
\* would put the idle process both into the list and on the CPU, never runs.
ReadyListNeverRunsDry ==
  boot_step = "done" => ready_processes # <<>>

\* The process generate_timer has chosen runs on its own page tables and its
\* own kernel stack, and a user process that traps lands on its own stack:
\* the TSS is stale only while the idle process runs.
CurrentOwnsTheCPU ==
  current # NULL =>
    /\ cr3 = current
    /\ rsp.stack = current
    /\ current \in Users => tss_rsp0 = current

\* The rsp kept in the pcb of a process that does not run is the top of its
\* own kernel stack, where the frame of the timer interrupt that stopped it
\* (or the frame it is to start from) waits: irq0 pops that frame and no other.
SuspendedFrameIsOnTop ==
  \A p \in ReadySet :
    /\ saved_rsp[p] = [stack |-> p, depth |-> Len(kstack[p])]
    /\ kstack[p] # <<>>
    /\ kstack[p][Len(kstack[p])] = "irq0"

\* No step writes the kernel stack of a process that is not running, whatever
\* traps, calls and switches the others make: what the process had on it
\* (a getstring it waits in, for one) is there when it is resumed.
SuspendedStacksAreUntouched ==
  [][\A p \in ReadySet : p \in ReadySet' =>
        kstack'[p] = kstack[p] /\ saved_rsp'[p] = saved_rsp[p]]_vars

\* A process that was scheduled runs sooner or later, again and again, unless
\* an exception has halted the machine.
EveryProcessKeepsRunning ==
  \A p \in Procs : (p \in Scheduled) ~> (current = p \/ halted)

=============================================================================
