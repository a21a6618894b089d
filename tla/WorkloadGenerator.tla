--------------------------- MODULE WorkloadGenerator ---------------------------
(***************************************************************************)
(* The pacing of VllmWorkloadGenerator (workload/generator.py): one thread *)
(* dispatches requests at the rate of the current phase, while the         *)
(* experiment switches the phase (how a workload fault is injected) and    *)
(* finally stops it.                                                       *)
(*                                                                         *)
(* Time is a clock that advances whenever it likes: the thread may be late *)
(* at every step.  One unit is what the instance makes of it; the ratios   *)
(* of Period, Cap and Resync are what matters.                             *)
(***************************************************************************)
EXTENDS Integers

CONSTANTS
  Phases,
  Period,      \* 1 / rps of each phase
  First,       \* the phase run() is given
  Cap,         \* longest sleep of the pacing loop (0.5 s)
  Resync,      \* how far behind schedule it may fall (1 s)
  Duration,    \* duration_seconds
  JoinTimeout, \* of stop() (10 s)
  MaxTime      \* bound: the clock

ASSUME PhasesAssumption == First \in Phases /\ Period \in [Phases -> Nat \ {0}]
ASSUME TimesAssumption ==
  /\ Cap \in Nat \ {0} /\ Resync \in Nat /\ Duration \in Nat
  /\ JoinTimeout \in Nat /\ MaxTime \in Nat

VARIABLES
  now,
  \* the pacing thread
  loop,        \* "top", "wait", "dispatch", "over", or "died" of an exception
  seen,        \* its local now
  wake,        \* end of its sleep
  nextReq,     \* next_req
  using,       \* the phase it read
  \* shared
  phase,       \* _phase
  stop,        \* _stop_event
  \* the experiment
  caller,      \* "running", "joining" the thread, or back from stop()
  deadline,    \* of the join
  \* accounting of the model
  owed,        \* the periods of all requests but the last, added up
  last,        \* the period of the last
  burst,       \* dispatched since the clock advanced
  stale,       \* dispatched with another phase since the last switch
  late         \* dispatched since the stop event was set

thread == <<loop, seen, wake, nextReq, using>>
counts == <<owed, last, burst, stale, late>>
vars   == <<now, loop, seen, wake, nextReq, using, phase, stop, caller, deadline,
            owed, last, burst, stale, late>>

Min2(a, b) == IF a <= b THEN a ELSE b

\* Mutant: the schedule starts a period early.
InitEarly ==
  /\ now = 0
  /\ loop = "top" /\ seen = 0 /\ wake = 0 /\ nextReq = 0 - Period[First] /\ using = First
  /\ phase = First /\ stop = FALSE
  /\ caller = "running" /\ deadline = 0
  /\ owed = 0 /\ last = 0 /\ burst = 0 /\ stale = 0 /\ late = 0

\* run()
Init ==
  /\ now = 0
  /\ loop = "top" /\ seen = 0 /\ wake = 0 /\ nextReq = 0 /\ using = First
  /\ phase = First /\ stop = FALSE
  /\ caller = "running" /\ deadline = 0
  /\ owed = 0 /\ last = 0 /\ burst = 0 /\ stale = 0 /\ late = 0
-----------------------------------------------------------------------------
(* The pacing thread *)

\* The duration is over, or the stop event is set; the event is set either way.
LoopEnds ==
  /\ loop = "top"
  /\ stop \/ now >= Duration
  /\ loop' = "over"
  /\ stop' = TRUE
  /\ UNCHANGED <<now, seen, wake, nextReq, using, phase, caller, deadline, counts>>

\* The guards both remaining branches of an iteration share.
Goes == loop = "top" /\ ~stop /\ now < Duration

LoopSleeps ==
  /\ Goes
  /\ now < nextReq
  /\ loop' = "wait"
  /\ wake' = Min2(nextReq, now + Cap)
  /\ seen' = now
  /\ UNCHANGED <<now, nextReq, using, phase, stop, caller, deadline, counts>>

\* Mutant: no test of the time after the sleep.
WakeDispatches ==
  /\ loop = "wait"
  /\ now >= wake \/ stop
  /\ loop' = "dispatch"
  /\ UNCHANGED <<now, seen, wake, nextReq, using, phase, stop, caller, deadline, counts>>

\* _stop_event.wait returns.
Wake ==
  /\ loop = "wait"
  /\ now >= wake \/ stop
  /\ loop' = "top"
  /\ UNCHANGED <<now, seen, wake, nextReq, using, phase, stop, caller, deadline, counts>>

\* Mutant: the phase is read when the loop starts.
ReadOnce ==
  /\ Goes
  /\ now >= nextReq
  /\ loop' = "dispatch"
  /\ seen' = now
  /\ UNCHANGED <<now, wake, nextReq, using, phase, stop, caller, deadline, counts>>

\* A request is due: _current_phase.
ReadPhase ==
  /\ Goes
  /\ now >= nextReq
  /\ loop' = "dispatch"
  /\ seen' = now
  /\ using' = phase
  /\ UNCHANGED <<now, wake, nextReq, phase, stop, caller, deadline, counts>>

\* Mutant: catches up however late it is.
ScheduleNoResync == nextReq' = nextReq + Period[using]

\* next_req moves on by a period, and up to the time the thread read at the top
\* of the loop when it is more than Resync behind it.
Schedule ==
  nextReq' = IF nextReq + Period[using] < seen - Resync THEN seen
             ELSE nextReq + Period[using]

\* What the properties say of a request handed to a worker.
Count ==
  /\ owed' = owed + last
  /\ last' = Period[using]
  /\ burst' = burst + 1
  /\ stale' = stale + (IF using # phase THEN 1 ELSE 0)
  /\ late' = late + (IF stop THEN 1 ELSE 0)

Dispatch ==
  /\ loop = "dispatch"
  /\ Count
  /\ Schedule
  /\ loop' = "top"
  /\ UNCHANGED <<now, seen, wake, using, phase, stop, caller, deadline>>

\* Thread.start fails with too many requests in flight, and the exception ends
\* the pacing thread without setting the stop event.
SpawnFails ==
  /\ loop = "dispatch"
  /\ loop' = "died"
  /\ UNCHANGED <<now, seen, wake, nextReq, using, phase, stop, caller, deadline,
                 counts>>
-----------------------------------------------------------------------------
(* The experiment, and time *)

SetPhase(p) ==
  /\ caller = "running"
  /\ p # phase
  /\ phase' = p
  /\ stale' = 0
  /\ UNCHANGED <<now, thread, stop, caller, deadline, owed, last, burst, late>>

\* Mutant: stop() does not wait for the thread.
StopNoJoin ==
  /\ caller = "running"
  /\ stop' = TRUE
  /\ caller' = "joined"
  /\ UNCHANGED <<now, thread, phase, deadline, counts>>

Stop ==
  /\ caller = "running"
  /\ stop' = TRUE
  /\ caller' = "joining"
  /\ deadline' = now + JoinTimeout
  /\ UNCHANGED <<now, thread, phase, counts>>

Joined ==
  /\ caller = "joining"
  /\ loop \in {"over", "died"}
  /\ caller' = "joined"
  /\ UNCHANGED <<now, thread, phase, stop, deadline, counts>>

JoinExpires ==
  /\ caller = "joining"
  /\ now >= deadline
  /\ caller' = "left"
  /\ UNCHANGED <<now, thread, phase, stop, deadline, counts>>

Tick ==
  /\ now < MaxTime
  /\ now' = now + 1
  /\ burst' = 0
  /\ UNCHANGED <<thread, phase, stop, caller, deadline, owed, last, stale, late>>

Pacing == LoopEnds \/ LoopSleeps \/ Wake \/ ReadPhase \/ Dispatch \/ SpawnFails

Next ==
  \/ Pacing
  \/ \E p \in Phases : SetPhase(p)
  \/ Stop \/ Joined \/ JoinExpires
  \/ Tick

Spec == Init /\ [][Next]_vars
-----------------------------------------------------------------------------
(* Properties *)

TypeOK ==
  /\ now \in Nat /\ seen \in Nat /\ wake \in Nat /\ nextReq \in Nat /\ deadline \in Nat
  /\ owed \in Nat /\ last \in Nat /\ burst \in Nat /\ stale \in Nat /\ late \in Nat
  /\ loop \in {"top", "wait", "dispatch", "over", "died"}
  /\ using \in Phases /\ phase \in Phases
  /\ stop \in BOOLEAN
  /\ caller \in {"running", "joining", "joined", "left"}

\* Over any number of phase switches, early wake-ups and catch-ups, no request
\* goes out before the periods of all the requests before it have passed: the
\* offered load is never above what the scenario is labelled with.
NeverAhead == owed <= now

Fastest == CHOOSE p \in Phases : \A q \in Phases : Period[p] <= Period[q]

\* However late the thread was, it catches up with no more than the requests of
\* Resync, the one it was late with, the one that notices and the one due now:
\* a stalled client never looks like a burst of load (generator.py:353-356).
BurstBounded == burst <= Resync \div Period[Fastest] + 3

\* A phase switch is a clean step: one request at most, the one already under
\* way, goes out with the old phase after set_phase returned.
CleanStep == stale <= 1

\* The same for the stop event; and once stop() has joined the thread, no
\* request goes out at all, whatever the server it was sent to is doing.
StopClean ==
  /\ late <= 1
  /\ caller = "joined" => loop \in {"over", "died"}
=============================================================================
