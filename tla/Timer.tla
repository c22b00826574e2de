-------------------------------- MODULE Timer --------------------------------
(***************************************************************************)
(* Interrupt counting and the system calls that wait for it: sysWait,      *)
(* sysBeep and sysSound.  They are the only ones that run with interrupts  *)
(* on; the handler and the waiting loop share systemTimerInterruptCount.   *)
(* The counters have COUNT_BITS bits (32 in the code) and wrap.  The time  *)
(* statistics that the handler keeps in every task are left out.           *)
(***************************************************************************)
EXTENDS Integers

CONSTANTS
  COUNT_BITS,                      (* width of the counters                *)
  SYSTEM_INTERRUPTS_PER_SECOND,
  SECONDS_IN_MIN,
  Durations                        (* values of soundParameter.duration    *)

(* The largest duration is left out: iterations <= duration always holds,  *)
(* and sysSound never ends.                                                *)
ASSUME TimerAssumption ==
  /\ COUNT_BITS \in Nat \ {0}
  /\ SYSTEM_INTERRUPTS_PER_SECOND \in 1 .. 2 ^ COUNT_BITS - 1
  /\ SECONDS_IN_MIN \in Nat \ {0}
  /\ Durations \subseteq 0 .. 2 ^ COUNT_BITS - 2

VARIABLES
  timer,      (* systemTimerInterruptCount                                 *)
  total,      (* totalInterruptCount                                       *)
  uptime,     (* uptimeMinutes and uptimeSeconds                           *)
  wait,       (* the loop of sysWait or of sysWaitOneInterrupt             *)
  rounds,     (* turns of the loop of sysSound to come                     *)
  tone        (* is the speaker on?                                        *)

vars == <<timer, total, uptime, wait, rounds, tone>>

MaxCount == 2 ^ COUNT_BITS - 1
Count == 0 .. MaxCount
Mutant_Add(c, n) == c + n    \* wider counters
Add(c, n) == (c + n) % (MaxCount + 1)

(* A wait for ticks timer interrupts, up to count target.  elapsed is how  *)
(* many there were, counted no further than one above ticks.               *)
NoWait == [on |-> FALSE, ticks |-> 0, target |-> 0, elapsed |-> 0]
WaitFor(n) == [on |-> TRUE, ticks |-> n, target |-> Add(timer, n), elapsed |-> 0]
Tick(w) == IF w.on /\ w.elapsed <= w.ticks THEN [w EXCEPT !.elapsed = @ + 1] ELSE w

Init ==
  /\ timer \in Count      \* the system may have been running for long
  /\ total = timer
  /\ uptime = [minutes |-> 0, seconds |-> 0]
  /\ wait = NoWait
  /\ rounds = 0
  /\ tone = FALSE

-----------------------------------------------------------------------------
(* systemInterruptHandler.  Interrupts come while user code runs and in    *)
(* the waiting loops.                                                      *)
UptimeOf(t) ==
  LET s == t \div SYSTEM_INTERRUPTS_PER_SECOND
  IN  [minutes |-> s \div SECONDS_IN_MIN, seconds |-> IF s = SECONDS_IN_MIN THEN 0 ELSE s]

(* The timer interrupts 150 times a second: the loop, which goes on while  *)
(* timer <= target, sees that it is over long before the next one.         *)
WaitOver == wait.on /\ timer > wait.target

TimerInterrupt ==
  /\ ~WaitOver
  /\ timer' = Add(timer, 1)
  /\ total' = Add(total, 1)
  /\ uptime' = IF total' % SYSTEM_INTERRUPTS_PER_SECOND # 0 THEN UptimeOf(total') ELSE uptime
  /\ wait' = Tick(wait)
  /\ UNCHANGED <<rounds, tone>>

Mutant_OtherInterrupt ==    (* counted as one of the timer                  *)
  /\ timer' = Add(timer, 1)
  /\ total' = Add(total, 1)
  /\ UNCHANGED <<uptime, wait, rounds, tone>>
OtherInterrupt ==    (* the keyboard, or anything else                      *)
  /\ total' = Add(total, 1)
  /\ UNCHANGED <<timer, uptime, wait, rounds, tone>>

-----------------------------------------------------------------------------
sysWait ==
  /\ ~wait.on
  /\ wait' = WaitFor(SYSTEM_INTERRUPTS_PER_SECOND)
  /\ UNCHANGED <<timer, total, uptime, rounds, tone>>

(* generateTone, then the first sysWaitOneInterrupt.                       *)
sysBeep ==
  /\ ~wait.on
  /\ tone' = TRUE
  /\ wait' = WaitFor(1)
  /\ UNCHANGED <<timer, total, uptime, rounds>>

sysSound(duration) ==
  /\ ~wait.on
  /\ tone' = TRUE
  /\ rounds' = duration
  /\ wait' = WaitFor(1)
  /\ UNCHANGED <<timer, total, uptime>>

(* sysSound waits again, and at last the call ends with stopTone, or       *)
(* returns.                                                                *)
Mutant_NextRound ==    (* iterations is not counted                          *)
  /\ WaitOver
  /\ rounds > 0
  /\ wait' = WaitFor(1)
  /\ UNCHANGED <<timer, total, uptime, rounds, tone>>
NextRound ==
  /\ WaitOver
  /\ rounds > 0
  /\ rounds' = rounds - 1
  /\ wait' = WaitFor(1)
  /\ UNCHANGED <<timer, total, uptime, tone>>

Mutant_Return ==    (* the speaker is not switched off                      *)
  /\ WaitOver
  /\ rounds = 0
  /\ wait' = NoWait
  /\ UNCHANGED <<timer, total, uptime, rounds, tone>>
Return ==
  /\ WaitOver
  /\ rounds = 0
  /\ wait' = NoWait
  /\ tone' = FALSE
  /\ UNCHANGED <<timer, total, uptime, rounds>>

Next ==
  \/ TimerInterrupt
  \/ OtherInterrupt
  \/ sysWait
  \/ sysBeep
  \/ \E duration \in Durations : sysSound(duration)
  \/ NextRound
  \/ Return

(* The interval timer never stops, and the waiting loop keeps running: no  *)
(* other code but the interrupt handler runs until it ends.                *)
Fairness == WF_vars(TimerInterrupt) /\ WF_vars(NextRound) /\ WF_vars(Return)

Spec == Init /\ [][Next]_vars /\ Fairness

-----------------------------------------------------------------------------
(* Properties.                                                             *)

TypeOK ==
  /\ timer \in Count /\ total \in Count
  /\ uptime \in [minutes : Count, seconds : Count]
  /\ wait \in [on : BOOLEAN, ticks : {0, 1, SYSTEM_INTERRUPTS_PER_SECOND},
               target : Count, elapsed : 0 .. SYSTEM_INTERRUPTS_PER_SECOND + 1]
  /\ rounds \in 0 .. MaxCount
  /\ tone \in BOOLEAN

(* A tone is never left on when the call that made it has returned to user *)
(* code (sysBeep, sysSound), and a new wait never changes one in progress. *)
ToneOnlyInCall == tone \/ rounds > 0 => wait.on

(* A waiting loop ends only after more timer interrupts than it was to     *)
(* wait for, whatever other interrupts come, except when the counter wraps *)
(* around before the target: then target is a small number, and the loop   *)
(* ends at once.                                                           *)
WaitLongEnough ==
  [][(NextRound \/ Return) /\ wait.target >= wait.ticks
       => wait.elapsed > wait.ticks]_vars

(* Every wait of sysWait, sysBeep and sysSound comes to an end, except one *)
(* for the largest value of the counter, which no count is above: that one *)
(* never does.                                                             *)
Endless == wait.on /\ wait.target = MaxCount
WaitEnds == wait.on ~> (~wait.on \/ Endless)
=============================================================================
