-------------------------- MODULE QueueDiagnostics --------------------------
(***************************************************************************)
(* The queue summary that the dashboard and support read                   *)
(* (infrastructure/sqlite_operation_diagnostics.py).  Its queries repeat,  *)
(* in SQL of their own, the conditions under which claim_next acts.        *)
(***************************************************************************)
EXTENDS OperationStore, FiniteSets

Rowed == {o \in OpIds : ops[o].state # "absent"}

InState(s) == {o \in Rowed : ops[o].state = s}

ExpiredLeases(now) ==
  {o \in InState("running") : ops[o].lease = NULL \/ ops[o].lease <= now}

\* Fault: operations that are to be cancelled count as work.
EligibleWithCancelled(now) ==
  InState("queued")
    \cup {o \in InState("retry_scheduled") \cup InState("waiting_rate_limit") :
            ops[o].nextRun # NULL /\ ops[o].nextRun <= now}
    \cup ExpiredLeases(now)

Eligible(now) ==
  {o \in InState("queued")
           \cup {p \in InState("retry_scheduled") \cup InState("waiting_rate_limit") :
                   ops[p].nextRun # NULL /\ ops[p].nextRun <= now}
           \cup ExpiredLeases(now) :
     ~ops[o].cancel}

\* MIN over no row is NULL.
OldestOf(rows) ==
  IF rows = {} THEN NULL
  ELSE CHOOSE t \in {DueTime(ops[o]) : o \in rows} : \A o \in rows : t <= DueTime(ops[o])

RecoveryRequired(now) ==
  {o \in InState("waiting_user") \cup ExpiredLeases(now) : ops[o].cancel}

QueueSummary(now) ==
  [total    |-> Cardinality(Rowed),
   eligible |-> Cardinality(Eligible(now)),
   oldest   |-> OldestOf(Eligible(now)),
   expired  |-> Cardinality(ExpiredLeases(now)),
   recovery |-> Cardinality(RecoveryRequired(now))]

\* At any moment the summary counts what claim_next would find: the eligible
\* operations are those it may claim, the oldest is the one it takes first, an
\* expired lease is one it takes over or parks, and cancellations that need recovery
\* are those it would park for the user and those that wait there for a resolution.
SummaryMatchesClaims ==
  \A now \in Samples :
    LET summary == QueueSummary(now) IN
    /\ summary.eligible = Cardinality(Ready(now, NULL))
    /\ \A o \in OpIds : IsFirst(o, Ready(now, NULL)) => summary.oldest = DueTime(ops[o])
    /\ summary.recovery =
         Cardinality(Uncertain(now) \cup {o \in OpIds : Resolvable(ops[o])})
    /\ summary.expired =
         Cardinality(Uncertain(now) \cup {o \in Ready(now, NULL) : ops[o].state = "running"})
=============================================================================
