------------------------------ MODULE EventLog ------------------------------
(***************************************************************************)
(* What a job's event stream promises a frontend (core/events, CORE-002):  *)
(* one log, that ends with a terminal event and is not written after it;   *)
(* a reader, whenever it attaches, is shown the log from its first event,  *)
(* in order and without a gap, and is told that the stream is over exactly *)
(* when it has seen all of it.  EventStream implements it.                 *)
(***************************************************************************)
EXTENDS Naturals, Sequences

CONSTANTS
  Readers,      \* frontends
  Events,       \* what a job may report
  End           \* the terminal event, which is none of Events

VARIABLES
  log,          \* every event emitted so far
  view,         \* what each reader was shown
  reader        \* "away", "reading", "told" that it is over, or "left"

logVars == <<log, view, reader>>

Over == log # <<>> /\ log[Len(log)] = End

LogInit ==
  /\ log = <<>>
  /\ view = [r \in Readers |-> <<>>]
  /\ reader \in [Readers -> {"away", "reading"}]

Report(ev) ==
  /\ ~Over
  /\ log' = Append(log, ev)
  /\ UNCHANGED <<view, reader>>

Attach(r) ==
  /\ reader[r] = "away"
  /\ reader' = [reader EXCEPT ![r] = "reading"]
  /\ UNCHANGED <<log, view>>

Show(r) ==
  /\ reader[r] = "reading"
  /\ Len(view[r]) < Len(log)
  /\ view' = [view EXCEPT ![r] = Append(@, log[Len(@) + 1])]
  /\ UNCHANGED <<log, reader>>

Tell(r) ==
  /\ reader[r] = "reading"
  /\ Over /\ view[r] = log
  /\ reader' = [reader EXCEPT ![r] = "told"]
  /\ UNCHANGED <<log, view>>

Depart(r) ==
  /\ reader[r] = "reading"
  /\ reader' = [reader EXCEPT ![r] = "left"]
  /\ UNCHANGED <<log, view>>

LogNext ==
  \/ \E ev \in Events \union {End} : Report(ev)
  \/ \E r \in Readers : Attach(r) \/ Show(r) \/ Tell(r) \/ Depart(r)

LogFairness == \A r \in Readers : WF_logVars(Show(r)) /\ WF_logVars(Tell(r))

LogSpec == LogInit /\ [][LogNext]_logVars /\ LogFairness
=============================================================================
