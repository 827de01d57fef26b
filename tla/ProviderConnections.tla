------------------------ MODULE ProviderConnections ------------------------
(***************************************************************************)
(* The provider connections of infrastructure/sqlite_connections.py and    *)
(* the service above them: an account is registered once, probes observe   *)
(* its capabilities, and a disconnect ends it.                             *)
(*                                                                         *)
(* A probe reads the row, asks the provider without holding the database,  *)
(* and then writes by compare-and-set against the row it read.  Other      *)
(* probes and a disconnect, of other processes too, fall in between.       *)
(* Left out: the expiry (no caller sets one), the manifest version and the *)
(* creation time, which nothing compares after the first insertion.        *)
(***************************************************************************)
EXTENDS WallClock, SqlNull

CONSTANTS
  Connections,    \* connection identifiers
  Accounts,       \* pairs of a provider and an account of it
  Capabilities,   \* capability evidence a provider may answer with
  Probers         \* callers of `probe', one probe at a time each

ASSUME CapabilitiesAssumption == NULL \notin Capabilities

VARIABLES
  connections,    \* the table: a row, or NULL, per identifier
  probing         \* the probe each prober has under way, or NULL

connectionVars == <<connections, probing>>

Failures == {"reauthorize", "outage"}

Connection ==
  [account : Accounts, state : {"connected", "degraded", "action_required", "disconnected"},
   secret : BOOLEAN, capabilities : Capabilities \cup {NULL},
   health : Failures \cup {"disconnected", NULL}, updatedAt : 0..MaxTime]

\* row is the connection as the probe read it, now the time it was called
\* with; overtaken is set (for the properties only) when another write
\* leaves the connection with another time, or disconnected.
Probe == [id : Connections, row : Connection, now : 0..MaxTime, overtaken : BOOLEAN]

ASSUME RowsAssumption == NULL \notin Connection /\ NULL \notin Probe

ConnectionsInit ==
  /\ connections = [id \in Connections |-> NULL]
  /\ probing = [p \in Probers |-> NULL]

-----------------------------------------------------------------------------
(* What a write leaves behind *)

Registered(account, now) ==
  [account |-> account, state |-> "connected", secret |-> TRUE,
   capabilities |-> NULL, health |-> NULL, updatedAt |-> now]

\* A disconnected connection keeps the account to itself: the table's
\* uniqueness constraint does not look at the state.
Taken(account) ==
  \E id \in Connections : connections[id] # NULL /\ connections[id].account = account

\* Fault: whatever the provider said is stored as its capabilities.
ObservedAsSaid(row, answer, now) ==
  [row EXCEPT !.capabilities = answer, !.updatedAt = now]

\* What the provider said: capabilities, or why it refused.
Observed(row, answer, now) ==
  IF answer \in Capabilities
  THEN [row EXCEPT !.state = "connected", !.capabilities = answer, !.health = NULL,
                   !.updatedAt = now]
  ELSE [row EXCEPT !.state = IF answer = "reauthorize" THEN "action_required" ELSE "degraded",
                   !.capabilities = NULL, !.health = answer, !.updatedAt = now]

Disconnected(row, now) ==
  [row EXCEPT !.state = "disconnected", !.secret = FALSE, !.capabilities = NULL,
              !.health = "disconnected", !.updatedAt = now]

\* Fault: the secret is looked at, the rest of the row is not.
MayRecordWithSecret(row, probe) == row.secret /\ row.updatedAt <= probe.now

\* Fault: only the times are compared, whether the row is active is not.
MayRecordSameTime(row, probe) == row.updatedAt <= probe.now

\* The compare-and-set of record_probe.
MayRecord(row, probe) ==
  /\ row.secret
  /\ row = probe.row
  /\ row.updatedAt <= probe.now

\* Every other probe of this connection was overtaken by the new row.
Overtake(id, row) ==
  [p \in Probers |->
     IF probing[p] # NULL /\ probing[p].id = id
     THEN [probing[p] EXCEPT
             !.overtaken = \/ @
                           \/ row.state = "disconnected"
                           \/ row.updatedAt # probing[p].row.updatedAt]
     ELSE probing[p]]

-----------------------------------------------------------------------------
(* Operations *)

RegisterVerified(id, account) ==
  \E now \in Samples :
    /\ connections[id] = NULL
    /\ ~Taken(account)
    /\ connections' = [connections EXCEPT ![id] = Registered(account, now)]
    /\ UNCHANGED probing

BeginProbe(p, id) ==
  \E now \in Samples :
    /\ probing[p] = NULL
    /\ connections[id] # NULL
    /\ probing' = [probing EXCEPT
         ![p] = [id |-> id, row |-> connections[id], now |-> now, overtaken |-> FALSE]]
    /\ UNCHANGED connections

RecordProbe(p, answer) ==
  /\ probing[p] # NULL
  /\ LET id  == probing[p].id
         row == Observed(connections[id], answer, probing[p].now)
     IN  IF MayRecord(connections[id], probing[p])
         THEN /\ connections' = [connections EXCEPT ![id] = row]
              /\ probing' = [Overtake(id, row) EXCEPT ![p] = NULL]
         ELSE /\ probing' = [probing EXCEPT ![p] = NULL]
              /\ UNCHANGED connections

\* An exception that is no ProviderApiError, or the end of the process.
AbandonProbe(p) ==
  /\ probing[p] # NULL
  /\ probing' = [probing EXCEPT ![p] = NULL]
  /\ UNCHANGED connections

\* Unconditional: it needs the row to exist and nothing else.
Disconnect(id) ==
  \E now \in Samples :
    /\ connections[id] # NULL
    /\ connections' = [connections EXCEPT ![id] = Disconnected(@, now)]
    /\ probing' = Overtake(id, connections'[id])

ConnectionsNext ==
  \/ \E id \in Connections, account \in Accounts : RegisterVerified(id, account)
  \/ \E p \in Probers, id \in Connections : BeginProbe(p, id)
  \/ \E p \in Probers, answer \in Capabilities \cup Failures : RecordProbe(p, answer)
  \/ \E p \in Probers : AbandonProbe(p)
  \/ \E id \in Connections : Disconnect(id)

\* The store and the clock alone.
ConnectionsStep ==
  \/ ConnectionsNext /\ UNCHANGED clock
  \/ PassTime /\ UNCHANGED connectionVars

ConnectionsSpec ==
  clock = 0 /\ ConnectionsInit /\ [][ConnectionsStep]_<<clock, connectionVars>>

-----------------------------------------------------------------------------
(* Properties *)

\* Types; the shape ProviderConnection.__post_init__ demands of every row.
ConnectionsTypeOK ==
  /\ connections \in [Connections -> Connection \cup {NULL}]
  /\ probing \in [Probers -> Probe \cup {NULL}]

\* A disconnect is the end of a connection: no probe that was under way, and
\* no later one, brings back its secret, its capabilities or another state.
DisconnectedIsFinal ==
  [][\A id \in Connections :
       connections[id] # NULL /\ connections[id].state = "disconnected"
         => /\ connections'[id].state = "disconnected"
            /\ ~connections'[id].secret
            /\ connections'[id].capabilities = NULL]_connectionVars

\* A probe that was overtaken, by a disconnect or by an observation of
\* another time, never replaces what overtook it, and the time of the
\* stored observation never moves back.
CompetingObservationWins ==
  [][\A p \in Probers :
       probing[p] # NULL /\ probing'[p] = NULL
         => LET id == probing[p].id
            IN  connections'[id] # connections[id]
                  => /\ ~probing[p].overtaken
                     /\ connections'[id].updatedAt >= connections[id].updatedAt]_connectionVars
=============================================================================
