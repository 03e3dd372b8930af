---------------------------- MODULE EventStream ----------------------------
(***************************************************************************)
(* The job event stream of core/events, with the goroutines around it: an  *)
(* operation that emits on its job, the operations it calls, each on a job *)
(* of its own whose events a relay goroutine emits again one level up, the *)
(* forward goroutine of every subscription, and the frontends: the CLI     *)
(* that runs the operation (runJobTo), SSE clients that come and go.       *)
(*                                                                         *)
(* Emit appends under the job's lock and hands the event to the            *)
(* subscribers after it let the lock go, one at a time; nowhere does the   *)
(* program emit on one job from two goroutines at once.                    *)
(*                                                                         *)
(* An event is the number of the emission it first had; a terminal event   *)
(* is End.  Level 1 is the job a frontend knows; MaxEvents and MaxCalls    *)
(* bound what the operations do.                                           *)
(***************************************************************************)
EXTENDS Naturals, Sequences, FiniteSets

CONSTANTS
  Readers,      \* frontends of the outermost job
  Cli,          \* the one of them that runs the operation
  Depth,        \* how deep operations call each other: upgrade, backup, Run
  MaxEvents,
  MaxCalls

ASSUME CliAssumption == Cli \in Readers
ASSUME BoundsAssumption == Depth \in Nat \ {0} /\ MaxEvents \in Nat /\ MaxCalls \in Nat

VARIABLES
  \* per job
  events, terminal, subs,
  \* per subscription
  queue, closed, done,
  held,         \* what forward took off the queue and is sending
  forwarding,   \* is the forward goroutine alive?
  \* per subscriber
  reader, got,
  \* per emitter: the event, whom it is still to be pushed to, and whom close is due to
  emit,
  \* the operation
  level, at, stamp, calls,
  panicked

jobs == <<events, terminal, subs>>
subscriptions == <<queue, closed, done, held, forwarding>>
frontends == <<reader, got>>
operation == <<level, at, stamp, calls>>
streamVars == <<jobs, subscriptions, frontends, emit, operation, panicked>>

End == 0

Levels == 1..Depth
Relays == 2..Depth                \* relay l reads job l and emits on job l - 1
Subs == Readers \union Relays
Main == 1
Emitters == {Main} \union Relays

(* A frontend is none of the relay goroutines, which go by their level. *)
ASSUME ReadersAssumption == Readers \intersect Relays = {}

NoEmission == [ev |-> End, left |-> {}, closing |-> {}]

Idle(e) == emit[e].left = {} /\ emit[e].closing = {}

StreamInit ==
  /\ events = [l \in Levels |-> <<>>]
  /\ terminal = [l \in Levels |-> FALSE]
  /\ subs = [l \in Levels |-> IF l = 1 THEN {Cli} ELSE {}]
  /\ queue = [s \in Subs |-> <<>>]
  /\ closed = [s \in Subs |-> FALSE]
  /\ done = [s \in Subs |-> FALSE]
  /\ held = [s \in Subs |-> <<>>]
  /\ forwarding = [s \in Subs |-> s = Cli]
  /\ reader = [s \in Subs |-> IF s = Cli THEN "reading" ELSE "away"]
  /\ got = [s \in Subs |-> <<>>]
  /\ emit = [e \in Emitters |-> NoEmission]
  /\ level = 1 /\ at = "running" /\ stamp = 0 /\ calls = 0
  /\ panicked = FALSE

-----------------------------------------------------------------------------
(* Emit: the critical section. *)
Emit(e, l, ev) ==
  \/ /\ terminal[l]
     /\ panicked' = TRUE
     /\ UNCHANGED <<jobs, emit>>
  \/ /\ ~terminal[l]
     /\ events' = [events EXCEPT ![l] = Append(@, ev)]
     /\ terminal' = [terminal EXCEPT ![l] = (ev = End)]
     /\ subs' = [subs EXCEPT ![l] = IF ev = End THEN {} ELSE @]
     /\ emit' = [emit EXCEPT ![e] = [ev |-> ev, left |-> subs[l], closing |-> {}]]
     /\ UNCHANGED panicked

(* Emit: push to one of the subscribers it found, and close that one on a  *)
(* terminal event before it goes on to the next.                           *)
Push(e, s) ==
  /\ emit[e].closing = {} /\ s \in emit[e].left
  /\ queue' = [queue EXCEPT ![s] = Append(@, emit[e].ev)]
  /\ emit' = [emit EXCEPT ![e].left = @ \ {s},
                          ![e].closing = IF emit[e].ev = End THEN {s} ELSE {}]
  /\ UNCHANGED <<jobs, closed, done, held, forwarding, frontends, operation, panicked>>

Close(e, s) ==
  /\ s \in emit[e].closing
  /\ closed' = [closed EXCEPT ![s] = TRUE]
  /\ emit' = [emit EXCEPT ![e].closing = {}]
  /\ UNCHANGED <<jobs, queue, done, held, forwarding, frontends, operation, panicked>>

-----------------------------------------------------------------------------
(* Subscribe: the backlog is copied under the lock that registers s.       *)
SubscribeMutant(s, l, backlog) ==
  /\ subs' = [subs EXCEPT ![l] = IF terminal[l] THEN @ ELSE @ \union {s}]
  /\ queue' = [queue EXCEPT ![s] = <<>>]
  /\ closed' = [closed EXCEPT ![s] = terminal[l]]
  /\ done' = [done EXCEPT ![s] = FALSE]
  /\ held' = [held EXCEPT ![s] = <<>>]
  /\ forwarding' = [forwarding EXCEPT ![s] = TRUE]
  /\ reader' = [reader EXCEPT ![s] = "reading"]
  /\ got' = [got EXCEPT ![s] = <<>>]

Subscribe(s, l, backlog) ==
  /\ subs' = [subs EXCEPT ![l] = IF terminal[l] THEN @ ELSE @ \union {s}]
  /\ queue' = [queue EXCEPT ![s] = backlog]
  /\ closed' = [closed EXCEPT ![s] = terminal[l]]
  /\ done' = [done EXCEPT ![s] = FALSE]
  /\ held' = [held EXCEPT ![s] = <<>>]
  /\ forwarding' = [forwarding EXCEPT ![s] = TRUE]
  /\ reader' = [reader EXCEPT ![s] = "reading"]
  /\ got' = [got EXCEPT ![s] = <<>>]

(* abandon: close, and stop a send in progress. *)
AbandonMutant(s) ==
  /\ closed' = [closed EXCEPT ![s] = TRUE]
  /\ UNCHANGED done

Abandon(s) ==
  /\ closed' = [closed EXCEPT ![s] = TRUE]
  /\ done' = [done EXCEPT ![s] = TRUE]

(* forward *)
Take(s) ==
  /\ forwarding[s] /\ held[s] = <<>> /\ queue[s] # <<>>
  /\ held' = [held EXCEPT ![s] = <<Head(queue[s])>>]
  /\ queue' = [queue EXCEPT ![s] = Tail(@)]
  /\ UNCHANGED <<jobs, closed, done, forwarding, frontends, emit, operation, panicked>>

DeliverMutant(s) ==
  /\ forwarding[s] /\ held[s] # <<>>
  /\ reader[s] = "reading"
  /\ s \in Relays => Idle(s)
  /\ got' = [got EXCEPT ![s] = @ \o held[s]]
  /\ held' = [held EXCEPT ![s] = <<>>]
  /\ reader' = [reader EXCEPT ![s] = IF s \in Relays THEN "relaying" ELSE @]
  /\ UNCHANGED <<jobs, queue, closed, done, forwarding, emit, operation, panicked>>

(* A relay is back at the channel when the event before has been emitted.  *)
Deliver(s) ==
  /\ forwarding[s] /\ held[s] # <<>>
  /\ reader[s] = "reading"
  /\ s \in Relays => Idle(s)
  /\ got' = [got EXCEPT ![s] = @ \o held[s]]
  /\ held' = [held EXCEPT ![s] = <<>>]
  /\ reader' = [reader EXCEPT ![s] =
       IF s \in Relays /\ held[s] # <<End>> THEN "relaying" ELSE @]
  /\ UNCHANGED <<jobs, queue, closed, done, forwarding, emit, operation, panicked>>

Exit(s) ==
  /\ forwarding[s]
  /\ \/ held[s] = <<>> /\ queue[s] = <<>> /\ closed[s]
     \/ held[s] # <<>> /\ done[s]
  /\ forwarding' = [forwarding EXCEPT ![s] = FALSE]
  /\ UNCHANGED <<jobs, queue, closed, done, held, frontends, emit, operation, panicked>>

(* The subscriber finds its channel closed. *)
SeeEnd(s) ==
  /\ reader[s] = "reading" /\ ~forwarding[s]
  /\ s \in Relays => Idle(s)
  /\ reader' = [reader EXCEPT ![s] = "told"]
  /\ UNCHANGED <<jobs, subscriptions, got, emit, operation, panicked>>

-----------------------------------------------------------------------------
(* handleJobEvents: a client attaches at any time and may disconnect.      *)
AttachClient(r) ==
  /\ reader[r] = "away"
  /\ Subscribe(r, 1, events[1])
  /\ UNCHANGED <<events, terminal, emit, operation, panicked>>

(* The first half of cancel: out of the job's subscribers. *)
Cancel(r) ==
  /\ r # Cli /\ reader[r] = "reading"
  /\ subs' = [subs EXCEPT ![1] = @ \ {r}]
  /\ reader' = [reader EXCEPT ![r] = "leaving"]
  /\ UNCHANGED <<events, terminal, subscriptions, got, emit, operation, panicked>>

Leave(r) ==
  /\ reader[r] = "leaving"
  /\ Abandon(r)
  /\ reader' = [reader EXCEPT ![r] = "left"]
  /\ UNCHANGED <<jobs, queue, held, forwarding, got, emit, operation, panicked>>

-----------------------------------------------------------------------------
(* The operation reports a step on the job it was given. *)
EmitStep ==
  /\ at = "running"
  /\ Idle(Main) /\ stamp < MaxEvents
  /\ Emit(Main, level, stamp + 1)
  /\ stamp' = stamp + 1
  /\ UNCHANGED <<subscriptions, frontends, level, at, calls>>

(* It calls another on a private job, with a relay on it. *)
Call ==
  /\ at = "running" /\ Idle(Main)
  /\ level < Depth /\ calls < MaxCalls
  /\ level' = level + 1 /\ calls' = calls + 1
  /\ events' = [events EXCEPT ![level + 1] = <<>>]
  /\ terminal' = [terminal EXCEPT ![level + 1] = FALSE]
  /\ subs' = [subs EXCEPT ![level + 1] = {level + 1}]
  /\ queue' = [queue EXCEPT ![level + 1] = <<>>]
  /\ closed' = [closed EXCEPT ![level + 1] = FALSE]
  /\ done' = [done EXCEPT ![level + 1] = FALSE]
  /\ forwarding' = [forwarding EXCEPT ![level + 1] = TRUE]
  /\ reader' = [reader EXCEPT ![level + 1] = "reading"]
  /\ got' = [got EXCEPT ![level + 1] = <<>>]
  /\ UNCHANGED <<held, emit, at, stamp, panicked>>

(* The relay emits what it received one level up; it leaves out the        *)
(* terminal event, whose place there the caller decides.                   *)
Relay(s) ==
  /\ reader[s] = "relaying"
  /\ Emit(s, s - 1, got[s][Len(got[s])])
  /\ reader' = [reader EXCEPT ![s] = "reading"]
  /\ UNCHANGED <<subscriptions, got, operation>>

(* The operation at this level is over, well or badly. *)
Finish ==
  /\ at = "running" /\ Idle(Main)
  /\ Emit(Main, level, End)
  /\ at' = "awaiting"
  /\ UNCHANGED <<subscriptions, frontends, level, stamp, calls>>

DrainedMutant == TRUE

(* <-relayed in a caller of an operation, <-done in runJobTo. *)
Drained == reader[IF level = 1 THEN Cli ELSE level] = "told"

ReturnMutant ==
  /\ at = "awaiting" /\ Idle(Main)
  /\ Drained
  /\ at' = "running" /\ level' = level - 1
  /\ UNCHANGED <<jobs, subscriptions, frontends, emit, stamp, calls, panicked>>

Return ==
  /\ at = "awaiting" /\ Idle(Main)
  /\ Drained
  /\ \/ /\ level = 1
        /\ at' = "returned"
        /\ UNCHANGED <<closed, done, level>>
     \/ /\ level > 1
        /\ at' = "running" /\ level' = level - 1
        /\ Abandon(level)
  /\ UNCHANGED <<jobs, queue, held, forwarding, frontends, emit, stamp, calls, panicked>>

-----------------------------------------------------------------------------
StreamNext ==
  \/ EmitStep
  \/ \E e \in Emitters, s \in Subs : Push(e, s) \/ Close(e, s)
  \/ \E s \in Subs : Take(s) \/ Deliver(s) \/ Exit(s) \/ SeeEnd(s)
  \/ \E r \in Readers : AttachClient(r) \/ Cancel(r) \/ Leave(r)
  \/ \E s \in Relays : Relay(s)
  \/ Call \/ Finish \/ Return

StreamSpec == StreamInit /\ [][StreamNext]_streamVars

(* Every goroutine that can run does; a frontend reads until it leaves,    *)
(* but is never bound to attach or to leave; operations come to their end. *)
StreamFairness ==
  /\ \A e \in Emitters : WF_streamVars(\E s \in Subs : Push(e, s) \/ Close(e, s))
  /\ \A s \in Subs : WF_streamVars(Take(s) \/ Deliver(s) \/ Exit(s)) /\ WF_streamVars(SeeEnd(s))
  /\ \A r \in Readers : WF_streamVars(Leave(r))
  /\ \A s \in Relays : WF_streamVars(Relay(s))
  /\ WF_streamVars(EmitStep \/ Call \/ Finish \/ Return)

StreamFairSpec == StreamSpec /\ StreamFairness

-----------------------------------------------------------------------------
Stamps == 0..MaxEvents

(* Type correctness of every variable. *)
StreamTypeOK ==
  /\ events \in [Levels -> Seq(Stamps)] /\ terminal \in [Levels -> BOOLEAN]
  /\ subs \in [Levels -> SUBSET Subs]
  /\ queue \in [Subs -> Seq(Stamps)] /\ held \in [Subs -> Seq(Stamps)]
  /\ closed \in [Subs -> BOOLEAN] /\ done \in [Subs -> BOOLEAN]
  /\ forwarding \in [Subs -> BOOLEAN]
  /\ reader \in [Subs -> {"away", "reading", "relaying", "told", "leaving", "left"}]
  /\ got \in [Subs -> Seq(Stamps)]
  /\ emit \in [Emitters -> [ev : Stamps, left : SUBSET Subs, closing : SUBSET Subs]]
  /\ level \in Levels /\ at \in {"running", "awaiting", "returned"}
  /\ stamp \in Nat /\ calls \in Nat /\ panicked \in BOOLEAN

(* What a frontend is promised: EventLog, of the outermost job. *)
Promised == INSTANCE EventLog WITH
  Events <- 1..MaxEvents,
  log    <- events[1],
  view   <- [r \in Readers |-> got[r]],
  reader <- [r \in Readers |-> IF reader[r] = "leaving" THEN "left" ELSE reader[r]]

ImplementsEventLog == Promised!LogSpec

(* CORE-002: the outermost job shows the steps of every operation below it *)
(* in the order they were taken and, once it has ended, all of them.       *)
RelayedInOrder ==
  LET log == events[1]  n == Len(log) IN
  /\ \A i \in 1..n : log[i] = i \/ (i = n /\ log[i] = End)
  /\ terminal[1] => n = stamp + 1

(* Emit panics on a job that has ended; no goroutine ever gets there, and  *)
(* no relay is left behind by the operation it relayed.                    *)
NoEmitAfterEnd == ~panicked

(* cancel: no subscription outlives its job or the reader that left it.    *)
ForwardersEnd == \A s \in Subs : forwarding[s] ~> ~forwarding[s]

(* runJob returns, and only when the CLI has printed the whole stream.     *)
RunJobReturns ==
  /\ <>(at = "returned")
  /\ [](at = "returned" => got[Cli] = events[1])
=============================================================================
