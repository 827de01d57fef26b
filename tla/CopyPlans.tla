----------------------------- MODULE CopyPlans -----------------------------
(***************************************************************************)
(* From a snapshot to an operation: domain/models.py builds a plan,        *)
(* infrastructure/sqlite_plans.py keeps it under its digest and records    *)
(* its acceptance, application/copy_workflow.py puts it in the queue, and  *)
(* CopyExecutionService.execute runs it directly.                          *)
(*                                                                         *)
(* The digest covers every field of a plan, so a plan is its own key.  A   *)
(* snapshot is the sequence of its occurrences' classifications; names,    *)
(* reasons and evidence ride along and decide nothing.  Calls of several   *)
(* users interleave between the transaction that reads a plan and the one  *)
(* that acts on it.  Operations are rows of OperationRules; what becomes   *)
(* of them once they run is CopyExecution's matter, and external here.     *)
(***************************************************************************)
EXTENDS WallClock, OperationRules, Sequences, FiniteSets

CONSTANTS
  Snapshots,      \* the snapshots users plan from
  Offers,         \* capability sets of targets; NULL where none was probed
  Operations,     \* operation identifiers
  Users,          \* callers of the workflow and of execute
  MaxPlans        \* bound: plans stored at a time

Classes  == {"ready", "ambiguous", "unmatched", "unsupported", "unavailable", "invalid"}
Policies == {"strict", "best_effort"}
Required == {"create_playlist", "add_playlist_entries"}

ASSUME AcceptedAtAssumption == NULL \notin Int
ASSUME SnapshotsAssumption == Snapshots \subseteq Seq(Classes)
ASSUME OffersAssumption == \A offer \in Offers : offer # NULL => offer \subseteq Required

VARIABLES
  plans,          \* accepted_at, or NULL, of every stored plan
  operations,     \* a row with its idempotency key, or NULL, per identifier
  calls           \* per user, the call that has read its plan, or NULL

planVars == <<plans, operations, calls>>

-----------------------------------------------------------------------------
(* domain/models.py *)

Entry(class, policy) ==
  [class |-> class,
   disposition |-> CASE class = "ready"                        -> "write"
                     [] class # "ready" /\ policy = "strict"   -> "blocked"
                     [] OTHER                                  -> "omit"]

\* Without an offer the plan carries no capabilities and no evidence.
BuildPlan(snapshot, policy, offer) ==
  [snapshot |-> snapshot, policy |-> policy,
   capabilities |-> IF offer = NULL THEN {} ELSE offer, evidence |-> offer # NULL,
   entries |-> [i \in DOMAIN snapshot |-> Entry(snapshot[i], policy)]]

\* By their positions.
WritableEntries(plan) == {i \in DOMAIN plan.entries : plan.entries[i].disposition = "write"}

\* Fault: only what is marked as blocked blocks; omissions pass.
BlockedByMarkOnly(plan) ==
  \E i \in DOMAIN plan.entries : plan.entries[i].disposition = "blocked"

Blocked(plan) ==
  \/ plan.policy # "strict"
  \/ ~(Required \subseteq plan.capabilities)
  \/ ~plan.evidence
  \/ \E i \in DOMAIN plan.entries :
       plan.entries[i].class # "ready" \/ plan.entries[i].disposition # "write"

\* create_plan refuses an offer that lacks a required capability.
Plannable(offer) == offer # NULL => Required \subseteq offer

Plans ==
  {BuildPlan(snapshot, policy, offer) :
     snapshot \in Snapshots, policy \in Policies, offer \in {o \in Offers : Plannable(o)}}

-----------------------------------------------------------------------------
(* State *)

FreshRow ==
  [state |-> "queued", worker |-> NULL, lease |-> NULL, nextRun |-> NULL, cancel |-> FALSE,
   checkpoint |-> [unknown |-> NULL, recon |-> FALSE]]

Rows ==
  [key : Plans,
   row : [state : {"queued", "running", "succeeded", "cancelled"}, worker : Users \cup {NULL},
          lease : 0..(MaxTime + LeaseSeconds) \cup {NULL}, nextRun : {NULL}, cancel : {FALSE},
          checkpoint : {FreshRow.checkpoint}]]

\* asks is what the call does with the plan it read; now its time; op the
\* operation that execute goes on to claim.
Calls ==
  [asks : {"accept", "enqueue", "execute", "claim"}, plan : Plans, now : 0..MaxTime,
   op : Operations \cup {NULL}]

ASSUME PlanRowsAssumption == NULL \notin Rows

PlansInit ==
  /\ plans = [plan \in {} |-> NULL]
  /\ operations = [op \in Operations |-> NULL]
  /\ calls = [u \in Users |-> NULL]

-----------------------------------------------------------------------------
(* Operations *)

Stored(plan) == plan \in DOMAIN plans

\* A plan that is stored already, accepted or not, is left as it is.
SavePlan(snapshot, policy, offer) ==
  LET plan == BuildPlan(snapshot, policy, offer)
  IN  /\ Plannable(offer)
      /\ ~Stored(plan) /\ Cardinality(DOMAIN plans) < MaxPlans
      /\ plans' = [p \in DOMAIN plans \cup {plan} |-> IF p = plan THEN NULL ELSE plans[p]]
      /\ UNCHANGED <<operations, calls>>

\* Fault: the checks of the plan are left to acceptance.
MayGoOnUnchecked(plan, asks) == TRUE

\* Acceptance wants a plan that is not blocked, the others an accepted one too.
MayGoOn(plan, asks) ==
  ~Blocked(plan) /\ (asks # "accept" => plans[plan] # NULL)

\* The first transaction of accept, enqueue_accepted_plan and execute: the
\* plan is read and checked; a call that fails the checks ends here.
ReadPlan(u, plan, asks) ==
  \E now \in Samples :
    /\ calls[u] = NULL
    /\ Stored(plan)
    /\ MayGoOn(plan, asks)
    /\ calls' = [calls EXCEPT ![u] = [asks |-> asks, plan |-> plan, now |-> now, op |-> NULL]]
    /\ UNCHANGED <<plans, operations>>

\* Fault: a later acceptance moves the time of the first.
AcceptedAtLatest(plan, now) == now

AcceptedAt(plan, now) == IF plans[plan] = NULL THEN now ELSE plans[plan]

Accept(u) ==
  /\ calls[u] # NULL /\ calls[u].asks = "accept"
  /\ plans' = [plans EXCEPT ![calls[u].plan] = AcceptedAt(calls[u].plan, calls[u].now)]
  /\ calls' = [calls EXCEPT ![u] = NULL]
  /\ UNCHANGED operations

\* The operation the key of this plan is bound to, if there is one.
Bound(plan) == {op \in Operations : operations[op] # NULL /\ operations[op].key = plan}

\* operations.create: insert under a new identifier, or return the prior
\* operation of the key.  execute goes on to claim what it was returned,
\* unless that has ended.
Create(u, op) ==
  LET plan == calls[u].plan
      next(found) ==
        IF calls[u].asks = "execute" /\ operations'[found].row.state \notin Terminal
        THEN [calls[u] EXCEPT !.asks = "claim", !.op = found] ELSE NULL
  IN  /\ calls[u] # NULL /\ calls[u].asks \in {"enqueue", "execute"}
      /\ \/ /\ Bound(plan) = {} /\ operations[op] = NULL
            /\ operations' = [operations EXCEPT ![op] = [key |-> plan, row |-> FreshRow]]
         \/ op \in Bound(plan) /\ UNCHANGED operations
      /\ calls' = [calls EXCEPT ![u] = next(op)]
      /\ UNCHANGED plans

\* claim, by the identifier create returned; one that is not claimable raises.
Claim(u) ==
  /\ calls[u] # NULL /\ calls[u].asks = "claim"
  /\ LET op  == calls[u].op
         row == operations[op].row
     IN  operations' = IF Claimable(row, calls[u].now)
                       THEN [operations EXCEPT ![op].row = Claimed(row, u, calls[u].now)]
                       ELSE operations
  /\ calls' = [calls EXCEPT ![u] = NULL]
  /\ UNCHANGED plans

\* The process ends between two transactions of a call.
LoseCall(u) ==
  /\ calls[u] # NULL
  /\ calls' = [calls EXCEPT ![u] = NULL]
  /\ UNCHANGED <<plans, operations>>

\* The operation comes to an end, well or not: CopyExecution says how.
Elsewhere(op) ==
  /\ operations[op] # NULL
  /\ operations[op].row.state \notin Terminal
  /\ \E state \in {"succeeded", "cancelled"} :
       operations' = [operations EXCEPT ![op].row = [Released(@) EXCEPT !.state = state]]
  /\ UNCHANGED <<plans, calls>>

PlansNext ==
  \/ \E snapshot \in Snapshots, policy \in Policies, offer \in Offers :
       SavePlan(snapshot, policy, offer)
  \/ \E u \in Users, plan \in Plans :
       \E asks \in {"accept", "enqueue", "execute"} : ReadPlan(u, plan, asks)
  \/ \E u \in Users : Accept(u) \/ Claim(u) \/ LoseCall(u)
  \/ \E u \in Users, op \in Operations : Create(u, op)
  \/ \E op \in Operations : Elsewhere(op)

\* The store and the clock alone.
PlansStep ==
  \/ PlansNext /\ UNCHANGED clock
  \/ PassTime /\ UNCHANGED planVars

PlansSpec == clock = 0 /\ PlansInit /\ [][PlansStep]_<<clock, planVars>>

-----------------------------------------------------------------------------
(* Properties *)

\* Types of the tables and of the calls under way.
PlansTypeOK ==
  /\ DOMAIN plans \subseteq Plans
  /\ \A plan \in DOMAIN plans : plans[plan] \in 0..MaxTime \cup {NULL}
  /\ operations \in [Operations -> Rows \cup {NULL}]
  /\ calls \in [Users -> Calls \cup {NULL}]

\* Whatever call put it there, an operation belongs to a stored plan somebody
\* accepted, and that plan writes every occurrence of its snapshot: neither
\* an omission nor a missing capability gets past acceptance.  And however often,
\* by whomever and by whichever way a plan is submitted, also after its operation
\* has ended, it has no other operation.
AdmittedPlansAreWhole ==
  \A op \in Operations :
    operations[op] # NULL
      => LET plan == operations[op].key
         IN  /\ Stored(plan) /\ plans[plan] # NULL
             /\ WritableEntries(plan) = DOMAIN plan.snapshot
             /\ Required \subseteq plan.capabilities
             /\ \A other \in Operations \ {op} :
                  operations[other] # NULL => operations[other].key # plan

\* Acceptance is a fact of the first time it happened: no later or slower
\* acceptance, and no repeated planning, moves or withdraws it.
AcceptanceStands ==
  [][\A plan \in DOMAIN plans :
       /\ plan \in DOMAIN plans'
       /\ plans[plan] # NULL => plans'[plan] = plans[plan]]_planVars
=============================================================================
