------------------------------ MODULE Keyboard ------------------------------
(***************************************************************************)
(* The keyboard driver of SBUnix (sys/keyboard.c): keyboard_interrupt puts *)
(* what is typed into one global buffer, and getstring, the body of the    *)
(* gets system call, empties that buffer, enables interrupts, spins until  *)
(* keyboard_interrupt sets a flag, and copies the line out.  Interrupts    *)
(* and other processes step in at every point of getstring after its sti;  *)
(* before it, and in keyboard_interrupt, interrupts are off.               *)
(*                                                                         *)
(* keyboard_flag is not volatile: a build may load it once before the loop *)
(* instead of in every iteration.  FlagLoads lists the builds considered.  *)
(* Reading or writing past the end of the buffer has no defined outcome,   *)
(* and a page fault in the kernel stops the machine: no behaviour is       *)
(* followed beyond either (stopped).                                       *)
(***************************************************************************)
EXTENDS Integers, Sequences

CONSTANTS
  Readers,   \* the processes that call gets
  Chars,     \* the characters hex_to_char yields, KB_ENTER apart
  NUL, ENTER, UNMAPPED, \* the string terminator, KB_ENTER, a key without character
  BufSize,   \* 256
  FlagLoads, \* how the loop of getstring loads keyboard_flag
  MaxKeys    \* bound on the keys pressed

ASSUME BufSizeAssumption == BufSize \in Nat \ {0}
ASSUME CharsAssumption ==
  {NUL, ENTER, UNMAPPED} \intersect Chars = {} /\ ENTER \notin {NUL, UNMAPPED}
ASSUME KeysAssumption == MaxKeys \in Nat
ASSUME LoadsAssumption == FlagLoads \subseteq {"every_iteration", "once"}

Keys == Chars \union {ENTER, UNMAPPED}

VARIABLES
  load,          \* the build: one of FlagLoads
  buffer, key_count, keyboard_flag,
  pc,            \* where each reader is in gets
  i, len,        \* the locals of strcpy and the strlen it calls
  s,             \* the string each reader has copied so far
  typed,         \* history: what was typed since a reader called gets
  pressed,       \* history: the number of keys pressed
  stopped

driver == <<buffer, key_count, keyboard_flag>>
reader == <<pc, i, len, s>>
vars == <<load, driver, reader, typed, pressed, stopped>>

Init ==
  /\ load \in FlagLoads
  /\ buffer = [k \in 0 .. BufSize - 1 |-> NUL]
  /\ key_count = 0
  /\ keyboard_flag = 0
  /\ pc = [r \in Readers |-> "user"]
  /\ i = [r \in Readers |-> 0]
  /\ len = [r \in Readers |-> 0]
  /\ s = [r \in Readers |-> <<>>]
  /\ typed = [r \in Readers |-> <<>>]
  /\ pressed = 0
  /\ stopped = FALSE

-----------------------------------------------------------------------------
(* keyboard_interrupt *)

\* Mutant: the bound is off by one.
Mutant_Stores(key) == key = ENTER \/ (key \in Chars /\ key_count <= BufSize)
\* Mutant: the terminator is not put in the place of KB_ENTER.
Mutant_CharStored(key) == key

\* Only the test for characters is bounded, not the one for KB_ENTER.
Stores(key) == key = ENTER \/ (key \in Chars /\ key_count < BufSize)
CharStored(key) == IF key = ENTER THEN NUL ELSE key

keyboard_interrupt(key) ==
  /\ ~stopped
  /\ pressed < MaxKeys
  /\ pressed' = pressed + 1
  /\ typed' = [r \in Readers |-> IF key = UNMAPPED THEN typed[r] ELSE Append(typed[r], key)]
  /\ IF Stores(key)
     THEN /\ buffer' = [k \in DOMAIN buffer |->
                          IF k = key_count THEN CharStored(key) ELSE buffer[k]]
          /\ stopped' = (key_count >= BufSize)
          /\ key_count' = key_count + 1
     ELSE UNCHANGED <<buffer, key_count, stopped>>
  /\ keyboard_flag' = IF key = ENTER THEN 1 ELSE keyboard_flag
  /\ UNCHANGED <<load, reader>>

-----------------------------------------------------------------------------
(* getstring *)

\* Mutants: the flag, or the count, is left from before.
Mutant_init_keyboard_Flag ==
  /\ buffer' = [buffer EXCEPT ![0] = NUL]
  /\ key_count' = 0
  /\ UNCHANGED keyboard_flag
Mutant_init_keyboard_Count ==
  /\ keyboard_flag' = 0
  /\ buffer' = [buffer EXCEPT ![0] = NUL]
  /\ UNCHANGED key_count

\* init_keyboard empties the buffer by its first byte.
init_keyboard ==
  /\ keyboard_flag' = 0
  /\ buffer' = [buffer EXCEPT ![0] = NUL]
  /\ key_count' = 0

CallGets(r) ==
  /\ ~stopped
  /\ pc[r] = "user"
  /\ init_keyboard
  /\ pc' = [pc EXCEPT ![r] = "load_flag"]
  /\ s' = [s EXCEPT ![r] = <<>>]
  /\ typed' = [typed EXCEPT ![r] = <<>>]
  /\ UNCHANGED <<load, i, len, pressed, stopped>>

\* Mutant: every build loads the flag once.
Mutant_Spins(r) == pc' = [pc EXCEPT ![r] = "spin_for_ever"]

\* A flag that is not set is loaded again, or the loop never ends.
Spins(r) == pc' = [pc EXCEPT ![r] = IF load = "once" THEN "spin_for_ever" ELSE "load_flag"]

LoadFlag(r) ==
  /\ ~stopped
  /\ pc[r] = "load_flag"
  /\ IF keyboard_flag = 1 THEN pc' = [pc EXCEPT ![r] = "strlen"] ELSE Spins(r)
  /\ i' = [i EXCEPT ![r] = 0]
  /\ UNCHANGED <<load, driver, len, s, typed, pressed, stopped>>

\* One character of strlen(buffer).
Strlen(r) ==
  /\ ~stopped
  /\ pc[r] = "strlen"
  /\ IF i[r] >= BufSize
     THEN stopped' = TRUE /\ UNCHANGED reader
     ELSE /\ IF buffer[i[r]] = NUL
             THEN /\ len' = [len EXCEPT ![r] = i[r]]
                  /\ i' = [i EXCEPT ![r] = 0]
                  /\ pc' = [pc EXCEPT ![r] = "strcpy"]
             ELSE /\ i' = [i EXCEPT ![r] = @ + 1]
                  /\ UNCHANGED <<len, pc>>
          /\ UNCHANGED <<stopped, s>>
  /\ UNCHANGED <<load, driver, typed, pressed>>

\* One character of strcpy(s, buffer), which copies the length found before.
Strcpy(r) ==
  /\ ~stopped
  /\ pc[r] = "strcpy"
  /\ IF i[r] < len[r]
     THEN /\ s' = [s EXCEPT ![r] = Append(@, buffer[i[r]])]
          /\ i' = [i EXCEPT ![r] = @ + 1]
          /\ UNCHANGED pc
     ELSE /\ pc' = [pc EXCEPT ![r] = "return"]
          /\ UNCHANGED <<s, i>>
  /\ UNCHANGED <<load, driver, len, typed, pressed, stopped>>

\* The same, where the address the program has passed is not mapped: sbush passes
\* NULL.  Even an empty line is written to.
StrcpyFaults(r) ==
  /\ ~stopped
  /\ pc[r] = "strcpy"
  /\ i[r] = 0
  /\ stopped' = TRUE
  /\ UNCHANGED <<load, driver, reader, typed, pressed>>

ReturnFromGets(r) ==
  /\ ~stopped
  /\ pc[r] = "return"
  /\ pc' = [pc EXCEPT ![r] = "user"]
  /\ UNCHANGED <<load, driver, i, len, s, typed, pressed, stopped>>

getstring(r) ==
  LoadFlag(r) \/ Strlen(r) \/ Strcpy(r) \/ StrcpyFaults(r) \/ ReturnFromGets(r)

-----------------------------------------------------------------------------
Next ==
  \/ \E key \in Keys : keyboard_interrupt(key)
  \/ \E r \in Readers : CallGets(r) \/ getstring(r)

Spec == Init /\ [][Next]_vars

\* The scheduler lets a reader that waits in getstring run again and again.
FairSpec == Spec /\ \A r \in Readers : WF_vars(getstring(r))

-----------------------------------------------------------------------------
(* Properties *)

PCs == {"user", "load_flag", "spin_for_ever", "strlen", "strcpy", "return"}

\* The globals and locals stay in the sets their declarations give them.
TypeOK ==
  /\ load \in FlagLoads
  /\ buffer \in [0 .. BufSize - 1 -> Chars \union {NUL}]
  /\ key_count \in 0 .. MaxKeys
  /\ keyboard_flag \in {0, 1}
  /\ pc \in [Readers -> PCs]
  /\ i \in [Readers -> 0 .. BufSize]
  /\ len \in [Readers -> 0 .. BufSize]
  /\ s \in [Readers -> Seq(Chars \union {NUL})]
  /\ typed \in [Readers -> Seq(Chars \union {ENTER})]
  /\ pressed \in 0 .. MaxKeys
  /\ stopped \in BOOLEAN

HasLine(r) == \E k \in DOMAIN typed[r] : typed[r][k] = ENTER
\* What was typed from the call of gets up to the first KB_ENTER.
LineTyped(r) ==
  LET end == CHOOSE k \in DOMAIN typed[r] :
               typed[r][k] = ENTER /\ \A j \in 1 .. k - 1 : typed[r][j] # ENTER
  IN  SubSeq(typed[r], 1, end - 1)

\* Whoever else calls gets, and whatever was typed ahead of the call, a reader
\* leaves the loop of getstring only after KB_ENTER was pressed during its own
\* call: init_keyboard clears a flag left from before.
NoLineBeforeEnter ==
  \A r \in Readers : pc[r] \in {"strlen", "strcpy", "return"} => HasLine(r)

\* No other reader has emptied the buffer since the first key of r's call: what
\* was typed since its own last call would be shorter.
Undisturbed(r) == \A q \in Readers : Len(typed[q]) >= Len(typed[r])

\* A reader gets what was typed since it asked, up to the first KB_ENTER, neither
\* more nor less, although the interrupt goes on storing characters while strcpy
\* runs, unless another process has emptied the buffer in the meantime.
LineIsWhatWasTyped ==
  \A r \in Readers : pc[r] = "return" /\ Undisturbed(r) => s[r] = LineTyped(r)

\* What can go wrong in the driver is one of three things: a KB_ENTER finds the
\* buffer full and is stored past its end, which characters never are; strlen reads
\* past the end, but only if another process has emptied the buffer under it; or the
\* program passed a bad address.
OnlyEnterOverruns ==
  [][stopped' # stopped =>
       \/ key_count = BufSize /\ key_count' = BufSize + 1 /\ keyboard_flag' = 1
       \/ \E r \in Readers : pc[r] = "strlen" /\ ~Undisturbed(r)
       \/ \E r \in Readers : StrcpyFaults(r)]_vars

\* A reader whose line has been ended by KB_ENTER gets it, in a build that loads
\* the flag in every iteration, unless another process calls gets and clears the
\* flag first.
EveryLineIsDelivered ==
  \A r \in Readers :
    (load = "every_iteration" /\ pc[r] \in {"load_flag", "spin_for_ever"} /\ keyboard_flag = 1)
      ~> (pc[r] = "return" \/ keyboard_flag = 0 \/ stopped)
=============================================================================
