--------------------------- MODULE KeyboardProofs ---------------------------
(***************************************************************************)
(* Keyboard, for every number of readers, every buffer size and every      *)
(* build: its types, that no line comes before enter (FlagMeansEnter), and *)
(* that a line is what was typed since its reader asked for it and only    *)
(* KB_ENTER writes past the buffer (LineInv).                              *)
(***************************************************************************)
EXTENDS Keyboard, SequenceTheorems, TLAPS

\* keyboard_interrupt sets the flag and notes KB_ENTER for every reader in gets
\* at once; init_keyboard clears the flag when a reader joins them.
FlagMeansEnter ==
  keyboard_flag = 1 => \A r \in Readers : pc[r] # "user" => HasLine(r)

IInv ==
  /\ TypeOK
  /\ key_count <= pressed
  /\ FlagMeansEnter
  /\ NoLineBeforeEnter

USE BufSizeAssumption, CharsAssumption, KeysAssumption, LoadsAssumption DEF Keys

-----------------------------------------------------------------------------
\* What has been typed during a call stays typed.
LEMMA EnterIsKept ==
  ASSUME NEW S, NEW t \in Seq(S), NEW key \in S
  PROVE  /\ (\E k \in DOMAIN t : t[k] = ENTER)
              => \E k \in DOMAIN Append(t, key) : Append(t, key)[k] = ENTER
         /\ key = ENTER => \E k \in DOMAIN Append(t, key) : Append(t, key)[k] = ENTER
<1>1. /\ Len(t) \in Nat
      /\ DOMAIN t = 1 .. Len(t)
      /\ DOMAIN Append(t, key) = 1 .. Len(t) + 1
      /\ \A k \in 1 .. Len(t) : Append(t, key)[k] = t[k]
      /\ Append(t, key)[Len(t) + 1] = key
  BY LenProperties, AppendProperties
<1> QED BY <1>1

\* At first nobody reads and the buffer is empty.
LEMMA InitEstablishesInvariant == Init => IInv
<1> SUFFICES ASSUME Init PROVE IInv
  OBVIOUS
<1>1. TypeOK
  <2>1. s \in [Readers -> Seq(Chars \union {NUL})] /\ typed \in [Readers -> Seq(Chars \union {ENTER})]
    <3>1. <<>> \in Seq(Chars \union {NUL}) /\ <<>> \in Seq(Chars \union {ENTER})
      BY EmptySeq
    <3> QED BY <3>1 DEF Init
  <2>2. buffer \in [0 .. BufSize - 1 -> Chars \union {NUL}]
    BY DEF Init
  <2>3. i \in [Readers -> 0 .. BufSize] /\ len \in [Readers -> 0 .. BufSize]
    BY DEF Init
  <2>4. pc \in [Readers -> PCs]
    BY DEF Init, PCs
  <2>5. key_count \in 0 .. MaxKeys /\ pressed \in 0 .. MaxKeys /\ keyboard_flag \in {0, 1}
    BY DEF Init
  <2>6. load \in FlagLoads /\ stopped \in BOOLEAN
    BY DEF Init
  <2> QED BY <2>1, <2>2, <2>3, <2>4, <2>5, <2>6 DEF TypeOK
<1>2. key_count <= pressed /\ FlagMeansEnter /\ NoLineBeforeEnter
  BY DEF Init, FlagMeansEnter, NoLineBeforeEnter
<1> QED BY <1>1, <1>2 DEF IInv

\* A key: KB_ENTER is noted for every reader when it sets the flag.
LEMMA KeyKeepsInvariant ==
  ASSUME IInv, NEW key \in Keys, keyboard_interrupt(key)
  PROVE  IInv'
<1> USE DEF IInv
<1>1. TypeOK'
  <2>1. buffer' \in [0 .. BufSize - 1 -> Chars \union {NUL}]
    <3>1. buffer \in [0 .. BufSize - 1 -> Chars \union {NUL}]
      BY DEF TypeOK
    <3>2. Stores(key) => CharStored(key) \in Chars \union {NUL}
      BY DEF Stores, CharStored
    <3>3. CASE Stores(key)
      <4>1. buffer' = [k \in DOMAIN buffer |->
                         IF k = key_count THEN CharStored(key) ELSE buffer[k]]
        BY <3>3 DEF keyboard_interrupt
      <4> QED BY <3>1, <3>2, <3>3, <4>1
    <3>4. CASE ~Stores(key)
      BY <3>1, <3>4 DEF keyboard_interrupt
    <3> QED BY <3>3, <3>4
  <2>2. key_count' \in 0 .. MaxKeys /\ pressed' \in 0 .. MaxKeys /\ key_count' <= pressed'
    BY DEF TypeOK, keyboard_interrupt
  <2>3. typed' \in [Readers -> Seq(Chars \union {ENTER})]
    <3>1. \A r \in Readers : typed[r] \in Seq(Chars \union {ENTER})
      BY DEF TypeOK
    <3>2. key # UNMAPPED => \A r \in Readers : Append(typed[r], key) \in Seq(Chars \union {ENTER})
      BY <3>1, AppendProperties
    <3>3. typed' = [r \in Readers |-> IF key = UNMAPPED THEN typed[r] ELSE Append(typed[r], key)]
      BY DEF keyboard_interrupt
    <3>4. \A r \in Readers : (IF key = UNMAPPED THEN typed[r] ELSE Append(typed[r], key))
                               \in Seq(Chars \union {ENTER})
      BY <3>1, <3>2
    <3> QED BY <3>3, <3>4
  <2>4. keyboard_flag' \in {0, 1} /\ stopped' \in BOOLEAN
    <3>1. keyboard_flag' \in {0, 1}
      BY DEF TypeOK, keyboard_interrupt
    <3>2. stopped' = (key_count >= BufSize) \/ stopped' = stopped
      BY DEF keyboard_interrupt
    <3>3. stopped \in BOOLEAN /\ (key_count >= BufSize) \in BOOLEAN
      BY DEF TypeOK
    <3> QED BY <3>1, <3>2, <3>3
  <2>5. UNCHANGED <<load, pc, i, len, s>>
    BY DEF keyboard_interrupt, reader
  <2> QED BY <2>1, <2>2, <2>3, <2>4, <2>5 DEF TypeOK
<1>2. key_count' <= pressed'
  BY DEF TypeOK, keyboard_interrupt
<1>3. \A r \in Readers : HasLine(r) => HasLine(r)'
  <2> SUFFICES ASSUME NEW r \in Readers, HasLine(r) PROVE HasLine(r)'
    OBVIOUS
  <2>1. CASE key = UNMAPPED
    BY <2>1 DEF TypeOK, HasLine, keyboard_interrupt
  <2>2. CASE key # UNMAPPED
    <3>1. typed'[r] = Append(typed[r], key) /\ typed[r] \in Seq(Chars \union {ENTER})
      BY <2>2 DEF TypeOK, keyboard_interrupt
    <3> QED BY <2>2, <3>1, EnterIsKept DEF HasLine
  <2> QED BY <2>1, <2>2
<1>4. key = ENTER => \A r \in Readers : HasLine(r)'
  <2> SUFFICES ASSUME key = ENTER, NEW r \in Readers PROVE HasLine(r)'
    OBVIOUS
  <2>1. typed'[r] = Append(typed[r], key) /\ typed[r] \in Seq(Chars \union {ENTER})
    BY DEF TypeOK, keyboard_interrupt
  <2> QED BY <2>1, EnterIsKept DEF HasLine
<1>5. pc' = pc
  BY DEF keyboard_interrupt, reader
<1>6. FlagMeansEnter'
  BY <1>3, <1>4, <1>5 DEF FlagMeansEnter, keyboard_interrupt
<1>7. NoLineBeforeEnter'
  BY <1>3, <1>5 DEF NoLineBeforeEnter
<1> QED BY <1>1, <1>2, <1>6, <1>7

\* A reader enters gets: the flag is cleared with it.
LEMMA CallKeepsInvariant ==
  ASSUME IInv, NEW r \in Readers, CallGets(r)
  PROVE  IInv'
<1> USE DEF IInv
<1>1. TypeOK'
  BY SMTT(20) DEF TypeOK, CallGets, init_keyboard, PCs
<1>2. key_count' <= pressed' /\ FlagMeansEnter'
  BY DEF TypeOK, CallGets, init_keyboard, FlagMeansEnter
<1>3. NoLineBeforeEnter'
  BY DEF TypeOK, CallGets, NoLineBeforeEnter, HasLine
<1> QED BY <1>1, <1>2, <1>3

\* The steps of getstring leave the buffer and what was typed alone, and only
\* a set flag lets a reader out of the loop.
LEMMA GetstringKeepsInvariant ==
  ASSUME IInv, NEW r \in Readers, getstring(r)
  PROVE  IInv'
<1> USE DEF IInv
<1>1. UNCHANGED <<load, driver, typed, pressed>>
  BY DEF getstring, LoadFlag, Strlen, Strcpy, StrcpyFaults, ReturnFromGets
<1>2. /\ \A q \in Readers \ {r} : pc'[q] = pc[q]
      /\ pc[r] # "user"
      /\ pc'[r] \in {"strlen", "strcpy", "return"} =>
            pc[r] \in {"strlen", "strcpy", "return"} \/ keyboard_flag = 1
  BY DEF getstring, LoadFlag, Spins, Strlen, Strcpy, StrcpyFaults, ReturnFromGets, TypeOK, reader, PCs
<1>3. TypeOK'
  <2>1. i' \in [Readers -> 0 .. BufSize] /\ len' \in [Readers -> 0 .. BufSize]
    <3>1. i \in [Readers -> 0 .. BufSize] /\ len \in [Readers -> 0 .. BufSize]
      BY DEF TypeOK
    <3>2. i[r] \in 0 .. BufSize /\ len[r] \in 0 .. BufSize
      BY <3>1
    <3>3. i' = i \/ i' = [i EXCEPT ![r] = 0]
            \/ (i[r] < BufSize /\ i' = [i EXCEPT ![r] = @ + 1])
      BY <3>2 DEF getstring, LoadFlag, Strlen, Strcpy, StrcpyFaults, ReturnFromGets, reader
    <3>4. len' = len \/ len' = [len EXCEPT ![r] = i[r]]
      BY DEF getstring, LoadFlag, Strlen, Strcpy, StrcpyFaults, ReturnFromGets, reader
    <3>5. i' \in [Readers -> 0 .. BufSize]
      BY <3>1, <3>2, <3>3
    <3> QED BY <3>1, <3>2, <3>4, <3>5
  <2>2. s' \in [Readers -> Seq(Chars \union {NUL})]
    <3>1. CASE s' = s
      BY <3>1 DEF TypeOK
    <3>2. CASE s' # s
      <4>1. /\ i[r] < len[r]
            /\ s' = [s EXCEPT ![r] = Append(@, buffer[i[r]])]
        BY <3>2 DEF getstring, LoadFlag, Strlen, Strcpy, StrcpyFaults, ReturnFromGets, reader
      <4>2. i[r] \in 0 .. BufSize - 1
        BY <4>1 DEF TypeOK
      <4>3. buffer[i[r]] \in Chars \union {NUL} /\ s[r] \in Seq(Chars \union {NUL})
        BY <4>2 DEF TypeOK
      <4>4. Append(s[r], buffer[i[r]]) \in Seq(Chars \union {NUL})
        BY <4>3, AppendProperties
      <4> QED BY <4>1, <4>4 DEF TypeOK
    <3> QED BY <3>1, <3>2
  <2>3. pc' \in [Readers -> PCs] /\ stopped' \in BOOLEAN
    <3>1. pc \in [Readers -> PCs] /\ stopped \in BOOLEAN
      BY DEF TypeOK
    <3>2. \E to \in PCs : pc' = [pc EXCEPT ![r] = to]
      BY <3>1 DEF getstring, LoadFlag, Spins, Strlen, Strcpy, StrcpyFaults, ReturnFromGets, PCs, reader
    <3>3. stopped' = stopped \/ stopped' = TRUE
      BY DEF getstring, LoadFlag, Strlen, Strcpy, StrcpyFaults, ReturnFromGets
    <3> QED BY <3>1, <3>2, <3>3
  <2> QED BY <1>1, <2>1, <2>2, <2>3 DEF TypeOK, driver
<1>4. FlagMeansEnter'
  BY <1>1, <1>2 DEF FlagMeansEnter, HasLine, driver
<1>5. NoLineBeforeEnter'
  BY <1>1, <1>2 DEF FlagMeansEnter, NoLineBeforeEnter, HasLine
<1>6. key_count' <= pressed'
  BY <1>1 DEF driver
<1> QED BY <1>3, <1>4, <1>5, <1>6

-----------------------------------------------------------------------------
\* The flag, the readers and what was typed fit together in every state.
THEOREM KeyboardInvariant == Spec => []IInv
<1>1. ASSUME IInv, [Next]_vars PROVE IInv'
  <2>1. CASE Next
    BY <1>1, <2>1, KeyKeepsInvariant, CallKeepsInvariant, GetstringKeepsInvariant DEF Next
  <2>2. CASE UNCHANGED vars
    BY <1>1, <2>2 DEF IInv, TypeOK, FlagMeansEnter, NoLineBeforeEnter, HasLine,
                      vars, driver, reader
  <2> QED BY <1>1, <2>1, <2>2
<1> QED BY <1>1, InitEstablishesInvariant, PTL DEF Spec

\* The globals of the driver and the locals of getstring keep to their types.
THEOREM KeyboardTypeOK == Spec => []TypeOK
<1>1. IInv => TypeOK
  BY DEF IInv
<1> QED BY <1>1, KeyboardInvariant, PTL

\* However many processes read and however their calls overlap with the keys, a
\* reader leaves its loop only after KB_ENTER was pressed during its own call.
THEOREM KeyboardNoLineBeforeEnter == Spec => []NoLineBeforeEnter
<1>1. IInv => NoLineBeforeEnter
  BY DEF IInv
<1> QED BY <1>1, KeyboardInvariant, PTL
-----------------------------------------------------------------------------
\* While nobody else empties the buffer, it holds what was typed since r called,
\* KB_ENTER as the terminator, as far as it reaches; beyond its end no KB_ENTER
\* is typed, for that one stops the machine.
StoredIsTyped(r) ==
  /\ key_count <= Len(typed[r])
  /\ key_count < BufSize => key_count = Len(typed[r])
  /\ \A k \in 1 .. key_count : buffer[k - 1] = CharStored(typed[r][k])
  /\ \A k \in DOMAIN typed[r] : typed[r][k] = ENTER => k <= BufSize

\* The first n characters typed since r called are of its line.
InLine(r, n) == \A k \in DOMAIN typed[r] : typed[r][k] = ENTER => n < k

\* KB_ENTER follows the first n characters.
EndsAfter(r, n) == n + 1 \in DOMAIN typed[r] /\ typed[r][n + 1] = ENTER /\ InLine(r, n)

\* What r has copied is the first n characters.
HasCopied(r, n) == Len(s[r]) = n /\ \A k \in 1 .. n : s[r][k] = typed[r][k]

\* How far r has come with its line, wherever it is in gets.
ReaderIsOnItsLine(r) ==
  /\ pc[r] \in {"load_flag", "spin_for_ever", "strlen"} => s[r] = <<>>
  /\ pc[r] = "strlen" => InLine(r, i[r])
  /\ pc[r] = "strcpy" => i[r] <= len[r] /\ EndsAfter(r, len[r]) /\ HasCopied(r, i[r])
  /\ pc[r] = "return" => EndsAfter(r, Len(s[r])) /\ HasCopied(r, Len(s[r]))

\* The buffer and every reader whose line nobody has emptied fit what was typed.
LineInv ==
  /\ ~stopped => key_count <= BufSize
  /\ \A r \in Readers :
       pc[r] # "user" /\ Undisturbed(r) =>
         /\ ~stopped => StoredIsTyped(r)
         /\ ReaderIsOnItsLine(r)

\* No member of a line is typed later: the line a reader is on, and how far it has
\* come, stay while more is typed.
LEMMA LineIsKept ==
  ASSUME IInv, NEW key \in Chars \union {ENTER}, NEW r \in Readers, NEW n \in Nat,
         typed'[r] = Append(typed[r], key), s' = s
  PROVE  /\ InLine(r, n) /\ n <= Len(typed[r]) => InLine(r, n)'
         /\ EndsAfter(r, n) => EndsAfter(r, n)' /\ n < Len(typed[r])
         /\ HasCopied(r, n) /\ n <= Len(typed[r]) => HasCopied(r, n)'
<1> DEFINE t == typed[r]
<1>1. t \in Seq(Chars \union {ENTER})
  BY DEF IInv, TypeOK
<1>2. /\ Len(t) \in Nat
      /\ DOMAIN t = 1 .. Len(t)
      /\ DOMAIN typed'[r] = 1 .. Len(t) + 1
      /\ \A k \in 1 .. Len(t) : typed'[r][k] = t[k]
  BY <1>1, LenProperties, AppendProperties
<1>3. ASSUME InLine(r, n), n <= Len(t) PROVE InLine(r, n)'
  BY <1>2, <1>3 DEF InLine
<1>4. ASSUME EndsAfter(r, n) PROVE EndsAfter(r, n)' /\ n < Len(t)
  <2>1. n + 1 \in 1 .. Len(t) /\ InLine(r, n)
    BY <1>2, <1>4 DEF EndsAfter
  <2>2. n < Len(t)
    BY <1>2, <2>1
  <2> QED BY <1>2, <1>3, <1>4, <2>1, <2>2 DEF EndsAfter
<1>5. ASSUME HasCopied(r, n), n <= Len(t) PROVE HasCopied(r, n)'
  BY <1>2, <1>5 DEF HasCopied
<1> QED BY <1>3, <1>4, <1>5

\* A key is stored where it belongs, or there is no room and it is not KB_ENTER.
LEMMA KeyIsStored ==
  ASSUME IInv, NEW key \in Keys, keyboard_interrupt(key), NEW r \in Readers, StoredIsTyped(r)
  PROVE  stopped' \/ StoredIsTyped(r)'
<1> DEFINE t == typed[r]
<1>1. /\ t \in Seq(Chars \union {ENTER})
      /\ buffer \in [0 .. BufSize - 1 -> Chars \union {NUL}]
      /\ key_count \in Nat
  BY DEF IInv, TypeOK
<1>2. Len(t) \in Nat /\ DOMAIN t = 1 .. Len(t)
  BY <1>1, LenProperties
<1>3. CASE key = UNMAPPED
  <2>1. ~Stores(key) /\ typed'[r] = t
    BY <1>1, <1>3 DEF Stores, keyboard_interrupt, IInv, TypeOK
  <2>2. UNCHANGED <<buffer, key_count>>
    BY <2>1 DEF keyboard_interrupt
  <2> QED BY <2>1, <2>2 DEF StoredIsTyped
<1>4. CASE key # UNMAPPED
  <2>1. typed'[r] = Append(t, key) /\ key \in Chars \union {ENTER}
    BY <1>4 DEF keyboard_interrupt, IInv, TypeOK
  <2>2. /\ Len(typed'[r]) = Len(t) + 1
        /\ DOMAIN typed'[r] = 1 .. Len(t) + 1
        /\ \A k \in 1 .. Len(t) : typed'[r][k] = t[k]
        /\ typed'[r][Len(t) + 1] = key
    BY <1>1, <2>1, AppendProperties
  <2>3. CASE key_count < BufSize
    <3>1. key_count = Len(t) /\ Stores(key)
      BY <2>1, <2>3 DEF StoredIsTyped, Stores
    <3>2. /\ key_count' = Len(t) + 1
          /\ buffer' = [k \in DOMAIN buffer |->
                          IF k = key_count THEN CharStored(key) ELSE buffer[k]]
      BY <3>1 DEF keyboard_interrupt
    <3>3. \A k \in 1 .. key_count' : buffer'[k - 1] = CharStored(typed'[r][k])
      <4> SUFFICES ASSUME NEW k \in 1 .. Len(t) + 1
                   PROVE  buffer'[k - 1] = CharStored(typed'[r][k])
        BY <3>2
      <4>1. k - 1 \in DOMAIN buffer
        BY <1>1, <1>2, <2>3, <3>1
      <4>2. CASE k = Len(t) + 1
        <5>1. k - 1 = key_count
          BY <1>2, <3>1, <4>2
        <5> QED BY <2>2, <3>2, <4>1, <4>2, <5>1
      <4>3. CASE k # Len(t) + 1
        <5>1. k \in 1 .. key_count /\ k - 1 # key_count
          BY <1>2, <3>1, <4>3
        <5>2. buffer[k - 1] = CharStored(t[k])
          BY <5>1 DEF StoredIsTyped
        <5> QED BY <2>2, <3>1, <3>2, <4>1, <5>1, <5>2
      <4> QED BY <4>2, <4>3
    <3>4. \A k \in DOMAIN typed'[r] : typed'[r][k] = ENTER => k <= BufSize
      BY <1>2, <2>2, <2>3, <3>1
    <3>5. key_count' = Len(typed'[r]) /\ key_count' <= Len(typed'[r])
      BY <1>2, <2>2, <3>2
    <3> QED BY <3>3, <3>4, <3>5, Zenon DEF StoredIsTyped
  <2>4. CASE ~(key_count < BufSize)
    <3>1. CASE key = ENTER
      <4>1. stopped' = (key_count >= BufSize)
        BY <3>1 DEF Stores, keyboard_interrupt
      <4>2. key_count >= BufSize
        BY <1>1, <2>4
      <4>3. stopped'
        BY <4>1, <4>2
      <4> QED BY <4>3
    <3>2. CASE key # ENTER
      <4>1. UNCHANGED <<buffer, key_count>>
        BY <2>4, <3>2 DEF Stores, keyboard_interrupt
      <4>2. key_count <= Len(t) /\ \A k \in 1 .. key_count : buffer[k - 1] = CharStored(t[k])
        BY DEF StoredIsTyped
      <4>3. \A k \in DOMAIN typed'[r] : typed'[r][k] = ENTER => k <= BufSize
        BY <1>2, <2>2, <3>2 DEF StoredIsTyped
      <4>4. /\ key_count' <= Len(typed'[r])
            /\ ~(key_count' < BufSize)
            /\ \A k \in 1 .. key_count' : buffer'[k - 1] = CharStored(typed'[r][k])
        BY <1>1, <1>2, <2>2, <2>4, <4>1, <4>2
      <4> QED BY <4>3, <4>4 DEF StoredIsTyped
    <3> QED BY <3>1, <3>2
  <2> QED BY <2>3, <2>4
<1> QED BY <1>3, <1>4

\* A key is typed for every reader at once.
LEMMA KeyKeepsLines ==
  ASSUME IInv, LineInv, NEW key \in Keys, keyboard_interrupt(key)
  PROVE  LineInv'
<1>1. ~stopped /\ pc' = pc /\ UNCHANGED <<i, len, s>>
  BY DEF keyboard_interrupt, reader
<1>2. ~stopped' => key_count' <= BufSize
  <2>1. key_count \in Nat /\ key_count <= BufSize
    BY <1>1 DEF LineInv, IInv, TypeOK
  <2>2. CASE Stores(key)
    <3>1. stopped' = (key_count >= BufSize) /\ key_count' = key_count + 1
      BY <2>2 DEF keyboard_interrupt
    <3>2. CASE key_count >= BufSize
      BY <3>1, <3>2
    <3>3. CASE ~(key_count >= BufSize)
      BY <2>1, <3>1, <3>3
    <3> QED BY <3>2, <3>3
  <2>3. CASE ~Stores(key)
    BY <2>1, <2>3 DEF keyboard_interrupt
  <2> QED BY <2>2, <2>3
<1>3. ASSUME NEW r \in Readers, pc'[r] # "user", Undisturbed(r)'
      PROVE  (~stopped' => StoredIsTyped(r)') /\ ReaderIsOnItsLine(r)'
  <2>1. \A q \in Readers : typed[q] \in Seq(Chars \union {ENTER}) /\ Len(typed[q]) \in Nat
    BY LenProperties DEF IInv, TypeOK
  <2>2. Undisturbed(r)
    <3>1. CASE key = UNMAPPED
      BY <1>3, <2>1, <3>1 DEF Undisturbed, keyboard_interrupt, IInv, TypeOK
    <3>2. CASE key # UNMAPPED
      <4>1. \A q \in Readers : typed'[q] = Append(typed[q], key) /\ key \in Chars \union {ENTER}
        BY <3>2 DEF keyboard_interrupt, IInv, TypeOK
      <4>2. \A q \in Readers : Len(typed'[q]) = Len(typed[q]) + 1
        BY <2>1, <4>1, AppendProperties
      <4> QED BY <1>3, <2>1, <4>2 DEF Undisturbed
    <3> QED BY <3>1, <3>2
  <2>3. StoredIsTyped(r) /\ ReaderIsOnItsLine(r)
    BY <1>1, <1>3, <2>2 DEF LineInv
  <2>4. ReaderIsOnItsLine(r)'
    <3>1. CASE key = UNMAPPED
      <4>1. typed'[r] = typed[r]
        BY <3>1 DEF keyboard_interrupt, IInv, TypeOK
      <4> QED BY <1>1, <2>3, <4>1 DEF ReaderIsOnItsLine, InLine, EndsAfter, HasCopied
    <3>2. CASE key # UNMAPPED
      <4>1. typed'[r] = Append(typed[r], key) /\ key \in Chars \union {ENTER}
        BY <3>2 DEF keyboard_interrupt, IInv, TypeOK
      <4>2. /\ i[r] \in Nat /\ len[r] \in Nat
            /\ s[r] \in Seq(Chars \union {NUL})
        BY DEF IInv, TypeOK
      <4>3. Len(s[r]) \in Nat
        BY <4>2, LenProperties
      <4>4. pc[r] = "strlen" => i[r] <= Len(typed[r])
        BY <2>1, <2>3, <4>2 DEF IInv, NoLineBeforeEnter, HasLine, ReaderIsOnItsLine, InLine
      <4>5. pc[r] = "strlen" => InLine(r, i[r])'
        BY <1>1, <2>3, <4>1, <4>2, <4>4, LineIsKept DEF ReaderIsOnItsLine, InLine
      <4>6. pc[r] = "strcpy" => EndsAfter(r, len[r])' /\ HasCopied(r, i[r])'
        <5>1. SUFFICES ASSUME pc[r] = "strcpy"
                       PROVE  EndsAfter(r, len[r])' /\ HasCopied(r, i[r])'
          OBVIOUS
        <5>2. i[r] <= len[r] /\ EndsAfter(r, len[r]) /\ HasCopied(r, i[r])
          BY <2>3, <5>1 DEF ReaderIsOnItsLine
        <5>3. i[r] <= Len(typed[r])
          BY <2>1, <4>2, <5>2 DEF EndsAfter
        <5> QED BY SMTT(20), <1>1, <4>1, <4>2, <5>2, <5>3, LineIsKept DEF EndsAfter, HasCopied, InLine
      <4>7. pc[r] = "return" => EndsAfter(r, Len(s[r]))' /\ HasCopied(r, Len(s[r]))'
        <5>1. SUFFICES ASSUME pc[r] = "return"
                       PROVE  EndsAfter(r, Len(s[r]))' /\ HasCopied(r, Len(s[r]))'
          OBVIOUS
        <5>2. EndsAfter(r, Len(s[r])) /\ HasCopied(r, Len(s[r]))
          BY <2>3, <5>1 DEF ReaderIsOnItsLine
        <5>3. Len(s[r]) <= Len(typed[r])
          BY <2>1, <4>3, <5>2 DEF EndsAfter
        <5> QED BY <1>1, <4>1, <4>3, <5>2, <5>3, LineIsKept DEF EndsAfter, HasCopied, InLine
      <4> QED BY <1>1, <2>3, <4>5, <4>6, <4>7 DEF ReaderIsOnItsLine
    <3> QED BY <3>1, <3>2
  <2> QED BY <2>3, <2>4, KeyIsStored
<1> QED BY <1>2, <1>3 DEF LineInv

\* A call empties the buffer: it starts a line of its own and, if anything has been
\* typed since, disturbs every other reader.
LEMMA CallKeepsLines ==
  ASSUME IInv, LineInv, NEW q \in Readers, CallGets(q)
  PROVE  LineInv'
<1>1. /\ key_count' = 0 /\ ~stopped /\ stopped' = stopped
      /\ UNCHANGED <<i, len>>
      /\ \A r \in Readers : r # q => pc'[r] = pc[r] /\ s'[r] = s[r] /\ typed'[r] = typed[r]
      /\ pc'[q] = "load_flag" /\ s'[q] = <<>> /\ typed'[q] = <<>>
  BY DEF CallGets, init_keyboard, IInv, TypeOK
<1>2. ASSUME NEW r \in Readers, pc'[r] # "user", Undisturbed(r)'
      PROVE  StoredIsTyped(r)' /\ ReaderIsOnItsLine(r)'
  <2>1. Len(typed'[q]) = 0
    BY <1>1
  <2>2. typed'[r] \in Seq(Chars \union {ENTER}) /\ Len(typed'[r]) \in Nat
    <3>1. IInv'
      BY CallKeepsInvariant
    <3> QED BY <3>1, LenProperties DEF IInv, TypeOK
  <2>3. Len(typed'[r]) = 0 /\ DOMAIN typed'[r] = 1 .. 0
    BY <1>2, <2>1, <2>2, LenProperties DEF Undisturbed
  <2>4. StoredIsTyped(r)'
    BY <1>1, <2>3 DEF StoredIsTyped
  <2>5. pc'[r] \in {"load_flag", "spin_for_ever"} /\ s'[r] = <<>>
    <3>1. CASE r = q
      BY <1>1, <3>1
    <3>2. CASE r # q
      <4>1. UNCHANGED <<pc[r], s[r], typed[r]>> /\ pc[r] # "user" /\ Undisturbed(r)
        <5>1. UNCHANGED <<pc[r], s[r], typed[r]>>
          BY <1>1, <3>2
        <5>2. \A p \in Readers : Len(typed[p]) \in Nat
          BY LenProperties DEF IInv, TypeOK
        <5>3. Undisturbed(r)
          BY <2>3, <5>1, <5>2 DEF Undisturbed
        <5> QED BY <1>2, <5>1, <5>3
      <4>2. ~HasLine(r)
        BY <2>3, <4>1 DEF HasLine
      <4>3. pc[r] \in PCs /\ pc[r] \notin {"strlen", "strcpy", "return"}
        BY <4>2 DEF IInv, NoLineBeforeEnter, TypeOK
      <4>4. pc[r] \in {"load_flag", "spin_for_ever"}
        BY <4>1, <4>3 DEF PCs
      <4>5. ReaderIsOnItsLine(r)
        BY <4>1 DEF LineInv
      <4> QED BY <4>1, <4>4, <4>5 DEF ReaderIsOnItsLine
    <3> QED BY <3>1, <3>2
  <2>6. ReaderIsOnItsLine(r)'
    BY <2>5 DEF ReaderIsOnItsLine
  <2> QED BY <2>4, <2>6
<1> QED BY <1>1, <1>2 DEF LineInv

\* A reader out of its loop has its KB_ENTER in the buffer: it finds it before the end.
LEMMA EnterIsInTheBuffer ==
  ASSUME IInv, LineInv, NEW r \in Readers, ~stopped, Undisturbed(r), pc[r] = "strlen"
  PROVE  /\ i[r] < BufSize
         /\ i[r] + 1 \in DOMAIN typed[r]
         /\ buffer[i[r]] = NUL <=> typed[r][i[r] + 1] = ENTER
<1>1. StoredIsTyped(r) /\ InLine(r, i[r])
  BY DEF LineInv, ReaderIsOnItsLine
<1>2. /\ typed[r] \in Seq(Chars \union {ENTER})
      /\ i[r] \in Nat /\ key_count \in Nat
  BY DEF IInv, TypeOK
<1>3. Len(typed[r]) \in Nat /\ DOMAIN typed[r] = 1 .. Len(typed[r])
  BY <1>2, LenProperties
<1>4. PICK e \in DOMAIN typed[r] : typed[r][e] = ENTER
  BY DEF IInv, NoLineBeforeEnter, HasLine
<1>5. i[r] < e /\ e <= BufSize /\ e \in 1 .. Len(typed[r])
  BY <1>1, <1>3, <1>4 DEF InLine, StoredIsTyped
<1>6. i[r] < BufSize /\ i[r] + 1 \in 1 .. Len(typed[r])
  BY <1>2, <1>3, <1>5
<1>7. i[r] + 1 \in 1 .. key_count
  BY <1>1, <1>2, <1>3, <1>5 DEF StoredIsTyped
<1>8. buffer[i[r]] = CharStored(typed[r][i[r] + 1])
  <2>1. buffer[(i[r] + 1) - 1] = CharStored(typed[r][i[r] + 1])
    BY <1>1, <1>7 DEF StoredIsTyped
  <2>2. (i[r] + 1) - 1 = i[r]
    BY <1>2
  <2> QED BY <2>1, <2>2
<1>9. typed[r][i[r] + 1] \in Chars \union {ENTER}
  BY <1>2, <1>3, <1>6, ElementOfSeq
<1> QED BY <1>3, <1>6, <1>8, <1>9 DEF CharStored

\* A character of strcpy is of the line.
LEMMA CharIsOfTheLine ==
  ASSUME IInv, LineInv, NEW r \in Readers, ~stopped, Undisturbed(r), pc[r] = "strcpy",
         i[r] < len[r]
  PROVE  buffer[i[r]] = typed[r][i[r] + 1]
<1>1. StoredIsTyped(r) /\ EndsAfter(r, len[r])
  BY DEF LineInv, ReaderIsOnItsLine
<1>2. /\ typed[r] \in Seq(Chars \union {ENTER})
      /\ i[r] \in Nat /\ len[r] \in Nat /\ key_count \in Nat
  BY DEF IInv, TypeOK
<1>3. Len(typed[r]) \in Nat /\ DOMAIN typed[r] = 1 .. Len(typed[r])
  BY <1>2, LenProperties
<1>4. len[r] + 1 <= BufSize /\ len[r] + 1 <= Len(typed[r])
  BY <1>1, <1>3 DEF StoredIsTyped, EndsAfter
<1>5. i[r] + 1 \in 1 .. key_count /\ i[r] + 1 \in DOMAIN typed[r]
  <2>1. key_count < BufSize => key_count = Len(typed[r])
    BY <1>1 DEF StoredIsTyped
  <2>2. i[r] + 1 <= len[r]
    BY <1>2
  <2> QED BY <1>2, <1>3, <1>4, <2>1, <2>2
<1>6. buffer[i[r]] = CharStored(typed[r][i[r] + 1])
  <2>1. buffer[(i[r] + 1) - 1] = CharStored(typed[r][i[r] + 1])
    BY <1>1, <1>5 DEF StoredIsTyped
  <2>2. (i[r] + 1) - 1 = i[r]
    BY <1>2
  <2> QED BY <2>1, <2>2
<1>7. typed[r][i[r] + 1] # ENTER
  BY <1>1, <1>2, <1>5 DEF EndsAfter, InLine
<1> QED BY <1>6, <1>7 DEF CharStored

\* A step of strlen or strcpy goes on along the line; what is typed meanwhile lies
\* behind it.
LEMMA GetstringKeepsLines ==
  ASSUME IInv, LineInv, NEW r \in Readers, getstring(r)
  PROVE  LineInv'
<1>1. ~stopped /\ UNCHANGED <<load, driver, typed, pressed>>
  BY DEF getstring, LoadFlag, Strlen, Strcpy, StrcpyFaults, ReturnFromGets
<1>2. ASSUME NEW q \in Readers, q # r
      PROVE  UNCHANGED <<pc[q], i[q], len[q], s[q]>>
  BY <1>2 DEF getstring, LoadFlag, Spins, Strlen, Strcpy, StrcpyFaults, ReturnFromGets,
              IInv, TypeOK, reader
<1>3. pc[r] # "user"
  BY DEF getstring, LoadFlag, Spins, Strlen, Strcpy, StrcpyFaults, ReturnFromGets
<1>4. \A q \in Readers : Undisturbed(q)' <=> Undisturbed(q)
  BY <1>1 DEF Undisturbed
<1>5. ~stopped' => key_count' <= BufSize
  BY <1>1 DEF LineInv, driver
<1>6. ASSUME NEW q \in Readers, StoredIsTyped(q) PROVE StoredIsTyped(q)'
  BY <1>1, <1>6 DEF StoredIsTyped, driver
<1>7. ASSUME NEW q \in Readers, q # r, pc'[q] # "user", Undisturbed(q)'
      PROVE  StoredIsTyped(q)' /\ ReaderIsOnItsLine(q)'
  <2>1. StoredIsTyped(q) /\ ReaderIsOnItsLine(q)
    BY <1>1, <1>2, <1>4, <1>7 DEF LineInv
  <2>2. ReaderIsOnItsLine(q)'
    BY <1>1, <1>2, <1>7, <2>1 DEF ReaderIsOnItsLine, InLine, EndsAfter, HasCopied
  <2> QED BY <1>6, <2>1, <2>2
<1>8. ASSUME pc'[r] # "user", Undisturbed(r)'
      PROVE  StoredIsTyped(r)' /\ ReaderIsOnItsLine(r)'
  <2>1. StoredIsTyped(r) /\ ReaderIsOnItsLine(r)
    BY <1>1, <1>3, <1>4, <1>8 DEF LineInv
  <2>2. /\ pc \in [Readers -> PCs] /\ i \in [Readers -> 0 .. BufSize]
        /\ len \in [Readers -> 0 .. BufSize] /\ s \in [Readers -> Seq(Chars \union {NUL})]
    BY DEF IInv, TypeOK
  <2>3. ReaderIsOnItsLine(r)'
    <3>1. CASE LoadFlag(r)
      <4>1. s[r] = <<>> /\ s' = s /\ i'[r] = 0
        BY <2>1, <2>2, <3>1 DEF LoadFlag, ReaderIsOnItsLine
      <4>2. pc'[r] \in {"load_flag", "spin_for_ever", "strlen"}
        BY <2>2, <3>1 DEF LoadFlag, Spins
      <4>3. \A k \in DOMAIN typed'[r] : 0 < k
        <5>1. typed[r] \in Seq(Chars \union {ENTER})
          BY DEF IInv, TypeOK
        <5> QED BY <1>1, <5>1, LenProperties
      <4> QED BY <4>1, <4>2, <4>3 DEF ReaderIsOnItsLine, InLine
    <3>2. CASE Strlen(r)
      <4>1. /\ i[r] < BufSize
            /\ i[r] + 1 \in DOMAIN typed[r]
            /\ buffer[i[r]] = NUL <=> typed[r][i[r] + 1] = ENTER
        BY <1>1, <1>4, <1>8, <3>2, EnterIsInTheBuffer DEF Strlen
      <4>2. s[r] = <<>> /\ InLine(r, i[r])
        BY <2>1, <3>2 DEF Strlen, ReaderIsOnItsLine
      <4>3. s' = s /\ i[r] \in Nat
        BY <2>2, <3>2, <4>1 DEF Strlen
      <4>4. CASE buffer[i[r]] = NUL
        <5>1. len'[r] = i[r] /\ i'[r] = 0 /\ pc'[r] = "strcpy"
          BY <2>2, <3>2, <4>1, <4>3, <4>4 DEF Strlen
        <5>2. EndsAfter(r, i[r])
          BY <4>1, <4>2, <4>4 DEF EndsAfter
        <5>3. EndsAfter(r, len[r])'
          BY <1>1, <5>1, <5>2 DEF EndsAfter, InLine
        <5>4. HasCopied(r, i[r])'
          BY <4>2, <4>3, <5>1 DEF HasCopied
        <5>5. i'[r] <= len'[r]
          BY <4>3, <5>1
        <5> QED BY <5>1, <5>3, <5>4, <5>5 DEF ReaderIsOnItsLine
      <4>5. CASE buffer[i[r]] # NUL
        <5>1. i'[r] = i[r] + 1 /\ pc'[r] = "strlen"
          BY <2>2, <3>2, <4>1, <4>3, <4>5 DEF Strlen
        <5>2. \A k \in DOMAIN typed[r] : typed[r][k] = ENTER => i[r] + 1 < k
          <6>1. typed[r] \in Seq(Chars \union {ENTER})
            BY DEF IInv, TypeOK
          <6>2. DOMAIN typed[r] \subseteq Nat
            BY <6>1, LenProperties
          <6> QED BY <4>1, <4>2, <4>3, <4>5, <6>2 DEF InLine
        <5> QED BY <1>1, <4>2, <4>3, <5>1, <5>2 DEF ReaderIsOnItsLine, InLine
      <4> QED BY <4>4, <4>5
    <3>3. CASE Strcpy(r)
      <4>1. i[r] <= len[r] /\ EndsAfter(r, len[r]) /\ HasCopied(r, i[r])
        BY <2>1, <3>3 DEF Strcpy, ReaderIsOnItsLine
      <4>2. len' = len /\ i[r] \in Nat /\ len[r] \in Nat
        BY <2>2, <3>3 DEF Strcpy
      <4>3. EndsAfter(r, len[r])'
        BY <1>1, <4>1, <4>2 DEF EndsAfter, InLine
      <4>4. CASE i[r] < len[r]
        <5>1. /\ i'[r] = i[r] + 1 /\ pc'[r] = "strcpy"
              /\ s'[r] = Append(s[r], typed[r][i[r] + 1])
          <6>1. buffer[i[r]] = typed[r][i[r] + 1]
            BY <1>1, <1>4, <1>8, <3>3, <4>4, CharIsOfTheLine DEF Strcpy
          <6> QED BY <2>2, <3>3, <4>2, <4>4, <6>1 DEF Strcpy
        <5>2. s[r] \in Seq(Chars \union {NUL} \union {typed[r][i[r] + 1]})
          BY <2>2, SeqMonotonic
        <5>3. /\ Len(s'[r]) = Len(s[r]) + 1
              /\ \A k \in 1 .. Len(s[r]) : s'[r][k] = s[r][k]
              /\ s'[r][Len(s[r]) + 1] = typed[r][i[r] + 1]
          BY <5>1, <5>2, AppendProperties
        <5>4. HasCopied(r, i[r])'
          BY <1>1, <4>1, <4>2, <5>1, <5>3 DEF HasCopied
        <5>5. i'[r] <= len'[r]
          BY <4>2, <4>4, <5>1
        <5> QED BY <4>3, <5>1, <5>4, <5>5 DEF ReaderIsOnItsLine
      <4>5. CASE ~(i[r] < len[r])
        <5>1. pc'[r] = "return" /\ s' = s /\ i[r] = len[r]
          BY <2>2, <3>3, <4>1, <4>2, <4>5 DEF Strcpy
        <5>2. Len(s'[r]) = len[r]
          BY <4>1, <5>1 DEF HasCopied
        <5>3. EndsAfter(r, Len(s[r]))' /\ HasCopied(r, Len(s[r]))'
          BY <1>1, <4>1, <5>1, <5>2 DEF EndsAfter, InLine, HasCopied
        <5> QED BY <5>1, <5>3 DEF ReaderIsOnItsLine
      <4> QED BY <4>4, <4>5
    <3>4. CASE StrcpyFaults(r)
      BY <1>1, <2>1, <3>4 DEF StrcpyFaults, reader, ReaderIsOnItsLine, InLine, EndsAfter, HasCopied
    <3>5. CASE ReturnFromGets(r)
      BY <1>8, <2>2, <3>5 DEF ReturnFromGets
    <3> QED BY <3>1, <3>2, <3>3, <3>4, <3>5 DEF getstring
  <2> QED BY <1>6, <2>1, <2>3
<1> QED BY <1>5, <1>7, <1>8 DEF LineInv

\* What is in the buffer and in the readers' strings is what was typed.
THEOREM KeyboardLineInvariant == Spec => []LineInv
<1>1. Init => LineInv
  BY DEF Init, LineInv
<1>2. ASSUME IInv, LineInv, [Next]_vars PROVE LineInv'
  <2>1. CASE Next
    BY <1>2, <2>1, KeyKeepsLines, CallKeepsLines, GetstringKeepsLines DEF Next
  <2>2. CASE UNCHANGED vars
    BY <1>2, <2>2 DEF LineInv, StoredIsTyped, ReaderIsOnItsLine, InLine, EndsAfter, HasCopied,
                      Undisturbed, vars, driver, reader
  <2> QED BY <1>2, <2>1, <2>2
<1> QED BY <1>1, <1>2, KeyboardInvariant, PTL DEF Spec

\* A reader gets what was typed since it asked, up to the first KB_ENTER, unless
\* another process has emptied the buffer in the meantime: for every number of
\* readers, every buffer, and however many keys are pressed while strcpy runs.
THEOREM KeyboardLineIsWhatWasTyped == Spec => []LineIsWhatWasTyped
<1>1. ASSUME IInv, LineInv, NEW r \in Readers, pc[r] = "return", Undisturbed(r)
      PROVE  s[r] = LineTyped(r)
  <2> DEFINE n == Len(s[r])
             First(k) == typed[r][k] = ENTER /\ \A j \in 1 .. k - 1 : typed[r][j] # ENTER
  <2>1. EndsAfter(r, n) /\ HasCopied(r, n)
    BY <1>1 DEF LineInv, ReaderIsOnItsLine
  <2>2. s[r] \in Seq(Chars \union {NUL}) /\ typed[r] \in Seq(Chars \union {ENTER})
    BY <1>1 DEF IInv, TypeOK
  <2>3. n \in Nat /\ Len(typed[r]) \in Nat /\ DOMAIN typed[r] = 1 .. Len(typed[r])
    BY <2>2, LenProperties
  <2>4. n + 1 \in DOMAIN typed[r] /\ First(n + 1)
    BY <2>1, <2>3 DEF EndsAfter, InLine
  <2>5. \A k \in DOMAIN typed[r] : First(k) => k = n + 1
    BY <2>1, <2>3, <2>4 DEF InLine, EndsAfter
  <2>6. (CHOOSE k \in DOMAIN typed[r] : First(k)) = n + 1
    <3> HIDE DEF First
    <3> QED BY <2>4, <2>5
  <2>7. LineTyped(r) = SubSeq(typed[r], 1, n)
    <3>1. LineTyped(r) = SubSeq(typed[r], 1, (CHOOSE k \in DOMAIN typed[r] : First(k)) - 1)
      BY Zenon DEF LineTyped
    <3>2. (n + 1) - 1 = n
      BY <2>3
    <3> HIDE DEF First
    <3> QED BY <2>6, <3>1, <3>2, Zenon
  <2>8. /\ SubSeq(typed[r], 1, n) \in Seq(Chars \union {ENTER})
        /\ Len(SubSeq(typed[r], 1, n)) = n
        /\ \A k \in 1 .. n : SubSeq(typed[r], 1, n)[k] = typed[r][k]
    BY <2>2, <2>3, <2>4, SubSeqProperties
  <2>9. s[r] = SubSeq(typed[r], 1, n)
    <3> DEFINE S == Chars \union {NUL} \union {ENTER}
    <3>1. s[r] \in Seq(S) /\ SubSeq(typed[r], 1, n) \in Seq(S)
      BY <2>2, <2>8, SeqMonotonic
    <3>2. \A k \in 1 .. n : s[r][k] = SubSeq(typed[r], 1, n)[k]
      BY <2>1, <2>8 DEF HasCopied
    <3> QED BY <2>8, <3>1, <3>2, SeqEqual
  <2> QED BY <2>7, <2>9
<1>2. IInv /\ LineInv => LineIsWhatWasTyped
  BY <1>1 DEF LineIsWhatWasTyped
<1> QED BY <1>2, KeyboardInvariant, KeyboardLineInvariant, PTL

\* Only KB_ENTER is stored past the end of the buffer, and only a reader whose buffer
\* another process has emptied, or that was given a bad address, can fail.
THEOREM KeyboardOnlyEnterOverruns == Spec => OnlyEnterOverruns
<1> DEFINE Excused == \/ key_count = BufSize /\ key_count' = BufSize + 1 /\ keyboard_flag' = 1
                      \/ \E r \in Readers : pc[r] = "strlen" /\ ~Undisturbed(r)
                      \/ \E r \in Readers : StrcpyFaults(r)
<1>1. ASSUME IInv, LineInv, [Next]_vars, stopped' # stopped PROVE Excused
  <2>1. ASSUME NEW key \in Keys, keyboard_interrupt(key) PROVE Excused
    <3>1. Stores(key) /\ ~stopped /\ key_count' = key_count + 1
      BY <1>1, <2>1 DEF keyboard_interrupt
    <3>2. stopped' = (key_count >= BufSize)
      BY <2>1, <3>1 DEF keyboard_interrupt
    <3>3. key_count >= BufSize
      <4>1. stopped \in BOOLEAN
        BY <1>1 DEF IInv, TypeOK
      <4>2. CASE ~(key_count >= BufSize)
        <5>1. stopped' = FALSE
          <6>1. (key_count >= BufSize) = FALSE
            BY <4>2
          <6> QED BY <3>2, <6>1, Zenon
        <5>2. stopped = FALSE
          BY <3>1, <4>1
        <5>3. stopped' # stopped
          BY <1>1
        <5> QED BY <5>1, <5>2, <5>3
      <4> QED BY <4>2
    <3>4. key_count \in Nat /\ key_count <= BufSize
      BY <1>1, <3>1 DEF LineInv, IInv, TypeOK
    <3>5. key_count = BufSize /\ key = ENTER
      BY <3>1, <3>3, <3>4 DEF Stores
    <3> QED BY <2>1, <3>1, <3>5 DEF keyboard_interrupt
  <2>2. ASSUME NEW r \in Readers, getstring(r) PROVE Excused
    <3>1. CASE Strlen(r)
      <4>1. ~stopped /\ pc[r] = "strlen" /\ ~(i[r] < BufSize)
        BY <1>1, <3>1 DEF Strlen, IInv, TypeOK
      <4>2. ~Undisturbed(r)
        BY <1>1, <4>1, EnterIsInTheBuffer
      <4> QED BY <4>1, <4>2
    <3>2. CASE StrcpyFaults(r)
      BY <3>2
    <3> QED BY <1>1, <2>2, <3>1, <3>2 DEF getstring, LoadFlag, Strcpy, ReturnFromGets
  <2>3. ASSUME NEW r \in Readers, CallGets(r) PROVE FALSE
    BY <1>1, <2>3 DEF CallGets
  <2>4. ~ UNCHANGED vars
    BY <1>1 DEF vars
  <2> QED BY <1>1, <2>1, <2>2, <2>3, <2>4 DEF Next
<1>2. IInv /\ LineInv /\ [Next]_vars => [stopped' # stopped => Excused]_vars
  BY <1>1
<1> QED BY <1>2, KeyboardInvariant, KeyboardLineInvariant, PTL DEF Spec, OnlyEnterOverruns
=============================================================================
