--------------------------- MODULE DashboardStore ---------------------------
(***************************************************************************)
(* The operational dashboard: the component and its store in the browser   *)
(* (ui/src/main.ts, ui/src/model.ts) and the server they read from         *)
(* (runtime/http.py, dashboard_surface.py, resources.py).  The component   *)
(* is attached to and removed from the page at any time; answers may be    *)
(* late; the server handles one connection after another, restarts, and    *)
(* has clients that connect and say nothing.                               *)
(***************************************************************************)
EXTENDS SqlNull, Integers, Sequences

CONSTANTS
  MaxReads,       \* bound: reads of the dashboard
  MaxWrites,      \* bound: changes of the stored data
  MaxStrangers,   \* bound: clients that connect and say nothing
  MaxRestarts     \* bound: restarts of the server

ASSUME DashboardAssumption ==
  /\ MaxReads \in Nat /\ MaxWrites \in Nat
  /\ MaxStrangers \in Nat /\ MaxRestarts \in Nat

VARIABLES
  attached,    \* is the component on the page?
  view,        \* DashboardStore.state
  snapshot,    \* DashboardStore.snapshot: the version of the data, or NULL
  generation,  \* the read whose answer counts; 0 when it was cancelled
  newest,      \* reads begun so far
  reads,       \* what became of each read
  backlog,     \* connections the server has not finished with, in order
  stored,      \* the version of the stored data; 0 stands for no data at all
  strangers,   \* silent clients so far
  restarts     \* restarts so far

clientVars    == <<attached, view, snapshot, generation>>
serverVars    == <<backlog, stored, strangers, restarts>>
dashboardVars == <<clientVars, newest, reads, serverVars>>

Views == {"loading", "ready", "empty", "refreshing", "stale", "blocked"}

Busy    == {"loading", "refreshing"}
Healthy == {"ready", "empty"}

\* A read is out until it has an answer: a version, or NULL for a failure.
Versions == 0..MaxWrites
Out      == [stage |-> "out", version |-> NULL]
Settled  == [stage |-> "settled", version |-> NULL]
Answered(version) == [stage |-> "answered", version |-> version]
Failed   == Answered(NULL)

\* A connection that is nobody's read.
Stranger == 0

DashboardInit ==
  /\ attached = FALSE /\ view = "loading" /\ snapshot = NULL
  /\ generation = 0 /\ newest = 0
  /\ reads = [r \in 1..MaxReads |-> Settled]
  /\ backlog = <<>> /\ stored = 0 /\ strangers = 0 /\ restarts = 0

-----------------------------------------------------------------------------
(* The store *)

\* An aborted fetch rejects unless its answer was there already.
Aborted == [r \in 1..MaxReads |-> IF reads[r] = Out THEN Failed ELSE reads[r]]

\* Fault: only the fetch is aborted.
CancelKeepingGeneration == generation' = generation /\ reads' = Aborted

\* DashboardStore.cancel.
Cancel == generation' = 0 /\ reads' = Aborted

\* DashboardStore.refresh, as far as its await.
Refresh ==
  /\ newest < MaxReads
  /\ newest' = newest + 1
  /\ generation' = newest'
  /\ reads' = [Aborted EXCEPT ![newest'] = Out]
  /\ view' = IF snapshot = NULL THEN "loading" ELSE "refreshing"
  /\ backlog' = Append(backlog, newest')
  /\ UNCHANGED <<snapshot, stored, strangers, restarts>>

Attach ==
  /\ ~attached
  /\ attached' = TRUE
  /\ Refresh

Detach ==
  /\ attached
  /\ attached' = FALSE
  /\ Cancel
  /\ UNCHANGED <<view, snapshot, newest, serverVars>>

\* The button is disabled while a read is out.
PressRefresh ==
  /\ attached /\ view \notin Busy
  /\ Refresh
  /\ UNCHANGED attached

HasStoredData(version) == version > 0

\* DashboardStore.refresh, from its await on: the answer of a superseded or
\* cancelled read is dropped.
Settle(r) ==
  /\ reads[r].stage = "answered"
  /\ reads' = [reads EXCEPT ![r] = Settled]
  /\ IF r # generation THEN UNCHANGED <<view, snapshot>>
     ELSE IF reads[r] = Failed
       THEN /\ view' = IF snapshot = NULL THEN "blocked" ELSE "stale"
            /\ UNCHANGED snapshot
       ELSE /\ view' = IF HasStoredData(reads[r].version) THEN "ready" ELSE "empty"
            /\ snapshot' = reads[r].version
  /\ UNCHANGED <<attached, generation, newest, serverVars>>

-----------------------------------------------------------------------------
(* The server *)

\* dashboard_response: what is stored now, or 503 for whatever went wrong.
Responses == {Answered(stored), Failed}

\* An answer to a connection that was closed in the meantime is dropped.
Serve ==
  /\ backlog # <<>> /\ Head(backlog) # Stranger
  /\ backlog' = Tail(backlog)
  /\ LET r == Head(backlog) IN
     IF reads[r] = Out THEN \E response \in Responses : reads' = [reads EXCEPT ![r] = response]
     ELSE UNCHANGED reads
  /\ UNCHANGED <<clientVars, newest, stored, strangers, restarts>>

\* Fault: connections have no timeout.
NeverTimesOut == FALSE

\* request_timeout_seconds.
TimesOut == backlog # <<>> /\ Head(backlog) = Stranger

DropStranger ==
  /\ TimesOut
  /\ backlog' = Tail(backlog)
  /\ UNCHANGED <<clientVars, newest, reads, stored, strangers, restarts>>

-----------------------------------------------------------------------------
(* Others (external) *)

ConnectSilently ==
  /\ strangers < MaxStrangers
  /\ strangers' = strangers + 1
  /\ backlog' = Append(backlog, Stranger)
  /\ UNCHANGED <<clientVars, newest, reads, stored, restarts>>

\* Connections of a server that ends are reset.
Restart ==
  /\ restarts < MaxRestarts
  /\ restarts' = restarts + 1
  /\ backlog' = <<>>
  /\ reads' = Aborted
  /\ UNCHANGED <<clientVars, newest, stored, strangers>>

StoreData ==
  /\ stored < MaxWrites
  /\ stored' = stored + 1
  /\ UNCHANGED <<clientVars, newest, reads, backlog, strangers, restarts>>

SettleAny == \E r \in 1..MaxReads : Settle(r)

DashboardNext ==
  \/ Attach \/ Detach \/ PressRefresh \/ SettleAny
  \/ Serve \/ DropStranger
  \/ ConnectSilently \/ Restart \/ StoreData

DashboardSpec == DashboardInit /\ [][DashboardNext]_dashboardVars

\* The server's loop goes on, and a promise that is settled runs its continuation.
DashboardFairness ==
  /\ WF_dashboardVars(Serve)
  /\ WF_dashboardVars(DropStranger)
  /\ WF_dashboardVars(SettleAny)

-----------------------------------------------------------------------------
(* Properties *)

DashboardTypeOK ==
  /\ attached \in BOOLEAN /\ view \in Views
  /\ snapshot \in Versions \cup {NULL}
  /\ newest \in 0..MaxReads /\ generation \in {0, newest}
  /\ reads \in [1..MaxReads -> {Out, Settled, Failed} \cup {Answered(v) : v \in Versions}]
  /\ backlog \in Seq(0..MaxReads)
  /\ stored \in Versions /\ strangers \in 0..MaxStrangers /\ restarts \in 0..MaxRestarts

\* "A refresh cannot overwrite a newer result or silently convert a failure to
\* healthy": while the component is off the page nothing moves, whatever arrives;
\* what is shown never goes back to older data; and the view becomes healthy only
\* by an answer to the newest read.
LateAnswersAreFenced ==
  [][/\ ~attached /\ ~attached' => UNCHANGED <<view, snapshot>>
     /\ snapshot # NULL => snapshot' # NULL /\ snapshot' >= snapshot
     /\ view \notin Healthy /\ view' \in Healthy =>
          reads[newest] = Answered(snapshot') /\ reads'[newest] = Settled]_dashboardVars

\* A read that was begun ends in a view that lets the user act again, unless the
\* component is removed: silent clients and restarts do not keep it waiting.
DashboardSettles == attached /\ view \in Busy ~> ~attached \/ view \notin Busy
=============================================================================
