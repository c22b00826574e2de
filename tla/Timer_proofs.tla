----------------------------- MODULE Timer_proofs -----------------------------
(***************************************************************************)
(* Proofs about Timer, for every width of the counters and every rate of   *)
(* the timer: the types, the speaker, and how long a wait is.              *)
(***************************************************************************)
EXTENDS Timer, TLAPS

-----------------------------------------------------------------------------
(* Counters that wrap.                                                     *)

LEMMA Limits ==
  /\ MaxCount \in Nat
  /\ SYSTEM_INTERRUPTS_PER_SECOND \in 1 .. MaxCount /\ SECONDS_IN_MIN \in Nat \ {0}
  /\ Durations \subseteq 0 .. MaxCount
BY TimerAssumption DEF MaxCount

(* Add wraps around at most once, and then ends below what was added.      *)
LEMMA Wrap ==
  ASSUME NEW c \in Count, NEW n \in Count
  PROVE  /\ Add(c, n) \in Count
         /\ Add(c, n) >= n => Add(c, n) = c + n
<1>1. PICK m \in Nat : m = MaxCount
  BY Limits
<1>2. c \in 0 .. m /\ n \in 0 .. m
  BY <1>1 DEF Count
<1>3. (c + n) % (m + 1) = IF c + n <= m THEN c + n ELSE c + n - (m + 1)
  BY <1>2
<1> QED
  BY <1>1, <1>2, <1>3 DEF Add, Count

(* One more, for the interrupt handler.                                    *)
LEMMA Increment ==
  ASSUME NEW c \in Count
  PROVE  Add(c, 1) \in Count /\ (c < MaxCount => Add(c, 1) = c + 1)
<1>1. PICK m \in Nat \ {0} : m = MaxCount
  BY Limits
<1>2. c \in 0 .. m
  BY <1>1 DEF Count
<1>3. (c + 1) % (m + 1) \in 0 .. m /\ (c < m => (c + 1) % (m + 1) = c + 1)
  BY <1>2
<1> QED
  BY <1>1, <1>3 DEF Add, Count

LEMMA Uptime ==
  ASSUME NEW t \in Count
  PROVE  UptimeOf(t) \in [minutes : Count, seconds : Count]
<1>1. PICK m \in Nat, a \in Nat \ {0}, b \in Nat \ {0} :
        m = MaxCount /\ a = SYSTEM_INTERRUPTS_PER_SECOND /\ b = SECONDS_IN_MIN
  BY Limits
<1>2. t \in 0 .. m
  BY <1>1 DEF Count
<1>3. PICK s \in 0 .. m : s = t \div a
  BY <1>2
<1>4. s \div b \in 0 .. m
  BY <1>3
<1>5. UptimeOf(t) = [minutes |-> s \div b, seconds |-> IF s = b THEN 0 ELSE s]
  BY <1>1, <1>3 DEF UptimeOf
<1> QED
  BY <1>1, <1>3, <1>4, <1>5 DEF Count

-----------------------------------------------------------------------------
(* Types.                                                                  *)

Wait == [on : BOOLEAN, ticks : {0, 1, SYSTEM_INTERRUPTS_PER_SECOND},
         target : Count, elapsed : 0 .. SYSTEM_INTERRUPTS_PER_SECOND + 1]

LEMMA Waits ==
  /\ NoWait \in Wait
  /\ \A n \in {1, SYSTEM_INTERRUPTS_PER_SECOND} : timer \in Count => WaitFor(n) \in Wait
  /\ \A w \in Wait : Tick(w) \in Wait
<1>1. NoWait \in Wait
  BY Limits DEF NoWait, Wait, Count
<1>2. ASSUME NEW n \in {1, SYSTEM_INTERRUPTS_PER_SECOND}, timer \in Count
      PROVE  WaitFor(n) \in Wait
  <2>1. n \in Count
    BY Limits DEF Count
  <2>2. Add(timer, n) \in Count
    BY <1>2, <2>1, Wrap
  <2> QED
    BY <2>2, Limits DEF WaitFor, Wait
<1>3. ASSUME NEW w \in Wait PROVE Tick(w) \in Wait
  BY Limits DEF Tick, Wait
<1> QED
  BY <1>1, <1>2, <1>3

LEMMA TypeInit == Init => TypeOK
<1>1. 0 \in Count /\ 0 \in 0 .. MaxCount
  BY Limits DEF Count
<1>2. [minutes |-> 0, seconds |-> 0] \in [minutes : Count, seconds : Count]
  BY <1>1
<1>3. NoWait \in Wait
  BY Waits
<1> QED
  BY <1>1, <1>2, <1>3 DEF Init, TypeOK, Wait

LEMMA TypeStep == TypeOK /\ [Next]_vars => TypeOK'
<1> SUFFICES ASSUME TypeOK, [Next]_vars PROVE TypeOK'
  OBVIOUS
<1> USE DEF TypeOK
<1>0. TypeOK <=> /\ timer \in Count /\ total \in Count
                 /\ uptime \in [minutes : Count, seconds : Count]
                 /\ wait \in Wait /\ rounds \in 0 .. MaxCount /\ tone \in BOOLEAN
  BY DEF Wait
<1>1. CASE TimerInterrupt
  <2>1. timer' \in Count /\ total' \in Count
    BY <1>1, Increment DEF TimerInterrupt
  <2>2. wait' \in Wait
    BY <1>0, <1>1, Waits DEF TimerInterrupt
  <2>3. uptime' \in [minutes : Count, seconds : Count]
    BY <1>1, <2>1, Uptime DEF TimerInterrupt
  <2> QED
    BY <1>1, <2>1, <2>2, <2>3 DEF TimerInterrupt, Wait
<1>2. CASE OtherInterrupt
  BY <1>2, Increment DEF OtherInterrupt
<1>3. ASSUME wait' \in Wait, rounds' \in 0 .. MaxCount, tone' \in BOOLEAN,
             UNCHANGED <<timer, total, uptime>>
      PROVE  TypeOK'
  BY <1>3 DEF Wait
<1>4. /\ WaitFor(1) \in Wait /\ WaitFor(SYSTEM_INTERRUPTS_PER_SECOND) \in Wait
      /\ NoWait \in Wait
  BY Waits
<1>5. CASE sysWait
  BY <1>3, <1>4, <1>5 DEF sysWait
<1>6. CASE sysBeep
  BY <1>3, <1>4, <1>6 DEF sysBeep
<1>7. CASE \E duration \in Durations : sysSound(duration)
  BY <1>3, <1>4, <1>7, Limits DEF sysSound
<1>8. CASE NextRound
  <2>1. rounds - 1 \in 0 .. MaxCount
    BY <1>8, Limits DEF NextRound
  <2> QED
    BY <1>3, <1>4, <1>8, <2>1 DEF NextRound
<1>9. CASE Return
  BY <1>3, <1>4, <1>9 DEF Return
<1>10. CASE UNCHANGED vars
  BY <1>10 DEF vars
<1> QED
  BY <1>1, <1>2, <1>5, <1>6, <1>7, <1>8, <1>9, <1>10 DEF Next

(* The counters and the uptime keep their width, whenever they wrap.       *)
THEOREM TypeCorrect == Spec => []TypeOK
BY TypeInit, TypeStep, PTL DEF Spec

-----------------------------------------------------------------------------
(* The speaker.                                                            *)

LEMMA ToneStep == TypeOK /\ ToneOnlyInCall /\ [Next]_vars => ToneOnlyInCall'
<1> SUFFICES ASSUME TypeOK, ToneOnlyInCall, [Next]_vars PROVE ToneOnlyInCall'
  OBVIOUS
<1>1. ASSUME wait'.on = wait.on, tone' = tone, rounds' = rounds PROVE ToneOnlyInCall'
  BY <1>1 DEF ToneOnlyInCall
<1>2. wait \in Wait
  BY DEF TypeOK, Wait
<1>3. CASE TimerInterrupt
  <2>1. Tick(wait).on = wait.on
    BY <1>2 DEF Tick, Wait
  <2> QED
    BY <1>1, <1>3, <2>1 DEF TimerInterrupt
<1>4. CASE OtherInterrupt \/ UNCHANGED vars
  BY <1>1, <1>4 DEF OtherInterrupt, vars
<1>5. CASE sysWait \/ sysBeep \/ (\E duration \in Durations : sysSound(duration)) \/ NextRound
  <2>1. wait'.on = TRUE
    BY <1>5 DEF sysWait, sysBeep, sysSound, NextRound, WaitFor
  <2> QED
    BY <2>1 DEF ToneOnlyInCall
<1>6. CASE Return
  BY <1>6 DEF Return, ToneOnlyInCall
<1> QED
  BY <1>3, <1>4, <1>5, <1>6 DEF Next

(* The speaker is on only during a call that switched it on.               *)
THEOREM ToneStaysInCall == Spec => []ToneOnlyInCall
<1>1. Init => ToneOnlyInCall
  BY DEF Init, ToneOnlyInCall
<1> QED
  BY <1>1, TypeInit, TypeStep, ToneStep, PTL DEF Spec

-----------------------------------------------------------------------------
(* The length of a wait.                                                   *)

(* As long as the target is not one that has wrapped around, the counter   *)
(* tells how far the wait has come, up to the interrupt after the last.    *)
WaitInv ==
  wait.on /\ wait.target >= wait.ticks
    => wait.elapsed > wait.ticks \/ timer = wait.target - wait.ticks + wait.elapsed

LEMMA NewWait ==
  ASSUME TypeOK, NEW n \in {1, SYSTEM_INTERRUPTS_PER_SECOND}, wait' = WaitFor(n), timer' = timer
  PROVE  WaitInv'
<1>0. n \in Count /\ timer \in Count
  BY Limits DEF TypeOK, Count
<1>1. PICK t \in Count : t = Add(timer, n)
  BY <1>0, Wrap
<1>2. t >= n => t = timer + n
  BY <1>0, <1>1, Wrap
<1>3. wait'.ticks = n /\ wait'.target = t /\ wait'.elapsed = 0
  BY <1>1 DEF WaitFor
<1>4. t >= n => timer = t - n + 0
  BY <1>1, <1>2, Limits DEF TypeOK, Count
<1> QED
  BY <1>3, <1>4 DEF WaitInv

LEMMA WaitStep == TypeOK /\ WaitInv /\ [Next]_vars => WaitInv'
<1> SUFFICES ASSUME TypeOK, WaitInv, [Next]_vars PROVE WaitInv'
  OBVIOUS
<1>1. CASE TimerInterrupt
  <2>1. CASE ~wait.on \/ wait.elapsed > wait.ticks
    <3>1. wait' = wait
      BY <1>1, <2>1, Limits DEF TimerInterrupt, Tick, TypeOK
    <3> QED
      BY <2>1, <3>1 DEF WaitInv
  <2>2. CASE wait.on /\ wait.elapsed <= wait.ticks
    <3>1. /\ wait'.ticks = wait.ticks /\ wait'.target = wait.target
          /\ wait'.elapsed = wait.elapsed + 1
      BY <1>1, <2>2 DEF TimerInterrupt, Tick, TypeOK
    <3>2. timer <= wait.target /\ timer' = Add(timer, 1)
      BY <1>1, <2>2 DEF TimerInterrupt, WaitOver, TypeOK, Count
    <3>3. PICK e, k, t, c \in Int :
            /\ e = wait.elapsed /\ k = wait.ticks /\ t = wait.target /\ c = timer
      BY Limits DEF TypeOK, Count
    <3>4. t \in 0 .. MaxCount /\ c \in 0 .. MaxCount
      BY <3>3 DEF TypeOK, Count
    <3>5. t >= k => c = t - k + e
      BY <2>2, <3>3 DEF WaitInv
    <3>6. c < MaxCount => timer' = c + 1
      BY <3>2, <3>3, Increment DEF TypeOK
    <3>7. t >= k => e + 1 > k \/ timer' = t - k + (e + 1)
      BY <2>2, <3>2, <3>3, <3>4, <3>5, <3>6, Limits
    <3> QED
      BY <3>1, <3>3, <3>7 DEF WaitInv
  <2> QED
    BY <2>1, <2>2, Limits DEF TypeOK
<1>2. CASE OtherInterrupt \/ UNCHANGED vars
  BY <1>2 DEF OtherInterrupt, vars, WaitInv
<1>3. CASE sysWait
  BY <1>3, NewWait DEF sysWait
<1>4. CASE sysBeep \/ (\E duration \in Durations : sysSound(duration)) \/ NextRound
  BY <1>4, NewWait DEF sysBeep, sysSound, NextRound
<1>5. CASE Return
  BY <1>5 DEF Return, NoWait, WaitInv
<1> QED
  BY <1>1, <1>2, <1>3, <1>4, <1>5 DEF Next

(* A wait whose target does not wrap around lasts for more timer           *)
(* interrupts than it asks for, whatever other interrupts come.            *)
THEOREM WaitsLongEnough == Spec => WaitLongEnough
<1>1. Init => WaitInv
  BY DEF Init, NoWait, WaitInv
<1>2. ASSUME TypeOK, WaitInv, WaitOver, wait.target >= wait.ticks
      PROVE  wait.elapsed > wait.ticks
  <2>1. PICK e, k, t, c \in Int :
          /\ e = wait.elapsed /\ k = wait.ticks /\ t = wait.target /\ c = timer
    <3>1. wait.elapsed \in Int /\ wait.ticks \in Int
      BY <1>2, Limits DEF TypeOK
    <3>2. wait.target \in Int /\ timer \in Int
      BY <1>2, Limits DEF TypeOK, Count
    <3> QED
      BY <3>1, <3>2
  <2>2. c > t /\ (e > k \/ c = t - k + e)
    BY <1>2, <2>1 DEF WaitOver, WaitInv
  <2> QED
    BY <2>1, <2>2
<1>3. TypeOK /\ WaitInv =>
        [(NextRound \/ Return) /\ wait.target >= wait.ticks => wait.elapsed > wait.ticks]_vars
  BY <1>2 DEF NextRound, Return
<1> QED
  BY <1>1, <1>3, TypeInit, TypeStep, WaitStep, PTL DEF Spec, WaitLongEnough
=============================================================================
