----------------------------- MODULE StoreProofs -----------------------------
(***************************************************************************)
(* The account stores and the plan store (connections, authorization       *)
(* attempts, copy plans and their admission to the queue), for any number  *)
(* of callers, any interleaving of their transactions and any staleness of *)
(* the clock samples; what is left on the disk: the destination of a       *)
(* backup is whole, and an interrupted staging can be resumed, wherever    *)
(* the tools are interrupted; and the specification that runs all five.    *)
(***************************************************************************)
EXTENDS MCStores, TLAPS

-----------------------------------------------------------------------------
(***************************************************************************)
(* Provider connections and authorization attempts, for any number of      *)
(* accounts, probes, attempts and callbacks, any times and any staleness   *)
(* of the clock samples.                                                   *)
(***************************************************************************)

LEMMA SampleType ==
  ASSUME clock \in 0..MaxTime, NEW now \in Samples
  PROVE  now \in 0..MaxTime
  BY ClockAssumption DEF Samples

LEMMA PassTimeType ==
  ASSUME clock \in 0..MaxTime, PassTime
  PROVE  clock' \in 0..MaxTime
  BY ClockAssumption DEF PassTime

-----------------------------------------------------------------------------
(* Authorization attempts *)

\* Whoever was told something was told it alone, and of an attempt that is settled
\* that way; consent and denial came in time.
ToldAlone(a) ==
  \/ told[a] = <<>>
  \/ /\ attempts[a] # NULL
     /\ Len(told[a]) = 1
     /\ attempts[a].state = told[a][1] /\ attempts[a].state \in Settlements
     /\ attempts[a].state \in {"consumed", "denied"} =>
          attempts[a].completedAt < attempts[a].expiresAt

AttemptsInv ==
  /\ clock \in 0..MaxTime
  /\ AttemptsTypeOK
  /\ told \in [Attempts -> Seq(Settlements)]
  /\ \A a \in Attempts : ToldAlone(a)

LEMMA AttemptsInit_Inv == clock = 0 /\ AttemptsInit => AttemptsInv
  BY ClockAssumption DEF AttemptsInit, AttemptsInv, AttemptsTypeOK, ToldAlone

\* What consume and deny leave of an open row.
LEMMA ConsumedRow ==
  ASSUME NEW a, NEW row \in Attempt, NEW token, NEW now \in 0..MaxTime
  PROVE  /\ Consumed(a, row, token, now) \in Attempt
         /\ Consumed(a, row, token, now).state \in {"expired", "failed", "consumed"}
         /\ Consumed(a, row, token, now).state = "consumed" =>
              Consumed(a, row, token, now).completedAt < Consumed(a, row, token, now).expiresAt
<1>1. /\ row.failure \in {"state_mismatch", "consent_denied", "expired", NULL}
      /\ row.expiresAt \in Int
  BY ClockAssumption, AttemptsAssumption DEF Attempt
<1>2. CASE PastDeadline(row, now)
  BY <1>1, <1>2 DEF Consumed, Settled, Attempt, Settlements
<1>3. CASE ~PastDeadline(row, now) /\ token # a
  BY <1>1, <1>3 DEF Consumed, Settled, Attempt, Settlements
<1>4. CASE ~PastDeadline(row, now) /\ token = a
  <2>1. now < row.expiresAt
    BY <1>1, <1>4, ClockAssumption DEF PastDeadline
  <2>2. Consumed(a, row, token, now) = Settled(row, "consumed", now, row.failure)
    BY <1>4 DEF Consumed
  <2>3. QED BY <1>1, <2>1, <2>2 DEF Settled, Attempt, Settlements
<1>5. QED BY <1>2, <1>3, <1>4

LEMMA DeniedRow ==
  ASSUME NEW row \in Attempt, NEW now \in 0..MaxTime
  PROVE  /\ Denied(row, now) \in Attempt
         /\ Denied(row, now).state \in {"expired", "denied"}
         /\ Denied(row, now).state = "denied" =>
              Denied(row, now).completedAt < Denied(row, now).expiresAt
<1>1. /\ row.failure \in {"state_mismatch", "consent_denied", "expired", NULL}
      /\ row.expiresAt \in Int
  BY ClockAssumption, AttemptsAssumption DEF Attempt
<1>2. CASE PastDeadline(row, now)
  BY <1>1, <1>2 DEF Denied, Settled, Attempt, Settlements
<1>3. CASE ~PastDeadline(row, now)
  <2>1. now < row.expiresAt
    BY <1>1, <1>3, ClockAssumption DEF PastDeadline
  <2>2. Denied(row, now) = Settled(row, "denied", now, "consent_denied")
    BY <1>3 DEF Denied
  <2>3. QED BY <1>1, <2>1, <2>2 DEF Settled, Attempt, Settlements
<1>4. QED BY <1>2, <1>3

\* A transaction that settles an open attempt: nobody was told anything before.
LEMMA SettleInv ==
  ASSUME AttemptsInv, NEW a \in Attempts, Open(attempts[a]),
         NEW row \in Attempt, NEW asked \in Settlements, Settle(a, row, asked),
         row.state \in Settlements,
         asked = row.state /\ asked \in {"consumed", "denied"} => row.completedAt < row.expiresAt
  PROVE  /\ attempts' \in [Attempts -> Attempt \cup {NULL}]
         /\ told' \in [Attempts -> Seq(Settlements)]
         /\ \A b \in Attempts : ToldAlone(b)'
<1> USE DEF AttemptsInv, AttemptsTypeOK
<1>1. attempts' = [attempts EXCEPT ![a] = row] /\ row # NULL
  BY AttemptRowsAssumption DEF Settle
<1>2. told[a] = <<>>
  BY DEF Open, ToldAlone, Settlements
<1>3. told' = IF row.state = asked THEN [told EXCEPT ![a] = Append(@, asked)] ELSE told
  BY DEF Settle
<1>4. told'[a] = <<>> \/ (told'[a] = <<row.state>> /\ row.state = asked)
  BY <1>2, <1>3
<1>5. told' \in [Attempts -> Seq(Settlements)]
  BY <1>3
<1>6. ToldAlone(a)'
  <2>1. attempts'[a] = row
    BY <1>1
  <2>2. CASE told'[a] = <<>>
    BY <2>2 DEF ToldAlone
  <2>3. CASE told'[a] = <<row.state>> /\ row.state = asked
    <3>1. Len(told'[a]) = 1 /\ told'[a][1] = row.state
      BY <2>3
    <3>2. QED BY <1>1, <2>1, <2>3, <3>1 DEF ToldAlone
  <2>4. QED BY <1>4, <2>2, <2>3
<1>7. ASSUME NEW b \in Attempts, b # a PROVE ToldAlone(b)'
  <2>1. attempts'[b] = attempts[b] /\ told'[b] = told[b]
    BY <1>1, <1>3, <1>7
  <2>2. QED BY <2>1 DEF ToldAlone
<1>8. QED BY <1>1, <1>5, <1>6, <1>7

LEMMA AttemptsStepInv ==
  ASSUME AttemptsInv, [AttemptsStep]_<<clock, attemptVars>>
  PROVE  AttemptsInv'
<1> USE DEF AttemptsInv, AttemptsTypeOK
<1>1. CASE PassTime /\ UNCHANGED attemptVars
  BY <1>1, PassTimeType DEF attemptVars, ToldAlone
<1>2. ASSUME UNCHANGED clock, NEW a \in Attempts, NEW provider \in Providers, Begin(a, provider)
      PROVE  AttemptsInv'
  <2>1. PICK now \in Samples :
          attempts' = [attempts EXCEPT
            ![a] = [provider |-> provider, state |-> "created", expiresAt |-> now + Ttl,
                    completedAt |-> NULL, failure |-> NULL]]
    BY <1>2 DEF Begin
  <2>2. /\ now \in 0..MaxTime
        /\ now + Ttl \in 0..(MaxTime + Ttl)
    BY SampleType, ClockAssumption, AttemptsAssumption
  <2>3. attempts' \in [Attempts -> Attempt \cup {NULL}]
    BY <2>1, <2>2 DEF Attempt
  <2>4. told[a] = <<>>
    BY <1>2 DEF Begin, ToldAlone
  <2>5. UNCHANGED <<callbacks, told>>
    BY <1>2 DEF Begin
  <2>6. \A b \in Attempts : ToldAlone(b)'
    BY <2>1, <2>4, <2>5 DEF ToldAlone
  <2>7. QED BY <1>2, <2>3, <2>5, <2>6
<1>3. ASSUME UNCHANGED clock, NEW c \in Callbacks, NEW token \in Tokens,
             NEW provider \in Providers, NEW wants \in {"consume", "deny"},
             ResolveCallback(c, token, provider, wants)
      PROVE  AttemptsInv'
  <2>1. PICK now \in Samples :
          callbacks' = [callbacks EXCEPT ![c] = [attempt |-> token, wants |-> wants, now |-> now]]
    BY <1>3 DEF ResolveCallback
  <2>2. now \in 0..MaxTime /\ token \in Attempts
    BY <1>3, SampleType DEF ResolveCallback
  <2>3. callbacks' \in [Callbacks -> Callback \cup {NULL}]
    BY <2>1, <2>2 DEF Callback
  <2>4. QED BY <1>3, <2>3 DEF ResolveCallback, ToldAlone
<1>4. ASSUME UNCHANGED clock, NEW c \in Callbacks, CompleteCallback(c)
      PROVE  AttemptsInv'
  <2>1. callbacks' \in [Callbacks -> Callback \cup {NULL}]
    BY <1>4 DEF CompleteCallback
  <2>2. callbacks[c] \in Callback
    BY <1>4 DEF CompleteCallback
  <2> DEFINE a == callbacks[c].attempt
             now == callbacks[c].now
  <2>3. a \in Attempts /\ now \in 0..MaxTime
    BY <2>2 DEF Callback
  <2> HIDE DEF a, now
  <2>4. CASE UNCHANGED <<attempts, told>>
    BY <1>4, <2>1, <2>4 DEF ToldAlone
  <2>5. CASE Open(attempts[a]) /\ Settle(a, Consumed(a, attempts[a], a, now), "consumed")
    <3>1. attempts[a] \in Attempt
      BY <2>3, <2>5 DEF Open
    <3>2. QED
      BY <1>4, <2>1, <2>3, <2>5, <3>1, ConsumedRow, SettleInv DEF Settlements
  <2>6. CASE Open(attempts[a]) /\ Settle(a, Denied(attempts[a], now), "denied")
    <3>1. attempts[a] \in Attempt
      BY <2>3, <2>6 DEF Open
    <3>2. QED
      BY <1>4, <2>1, <2>3, <2>6, <3>1, DeniedRow, SettleInv DEF Settlements
  <2>7. QED BY <1>4, <2>4, <2>5, <2>6 DEF CompleteCallback, a, now
<1>5. ASSUME UNCHANGED clock, NEW c \in Callbacks, LoseCallback(c)
      PROVE  AttemptsInv'
  BY <1>5 DEF LoseCallback, ToldAlone
<1>6. ASSUME UNCHANGED clock, NEW a \in Attempts, NEW token \in Tokens, Consume(a, token)
      PROVE  AttemptsInv'
  <2>1. PICK now \in Samples : Settle(a, Consumed(a, attempts[a], token, now), "consumed")
    BY <1>6 DEF Consume
  <2>2. now \in 0..MaxTime /\ Open(attempts[a]) /\ attempts[a] \in Attempt /\ UNCHANGED callbacks
    BY <1>6, SampleType DEF Consume, Open
  <2>3. QED BY <1>6, <2>1, <2>2, ConsumedRow, SettleInv DEF Settlements
<1>7. ASSUME UNCHANGED clock, NEW a \in Attempts, Deny(a)
      PROVE  AttemptsInv'
  <2>1. PICK now \in Samples : Settle(a, Denied(attempts[a], now), "denied")
    BY <1>7 DEF Deny
  <2>2. now \in 0..MaxTime /\ Open(attempts[a]) /\ attempts[a] \in Attempt /\ UNCHANGED callbacks
    BY <1>7, SampleType DEF Deny, Open
  <2>3. QED BY <1>7, <2>1, <2>2, DeniedRow, SettleInv DEF Settlements
<1>8. ASSUME UNCHANGED clock, NEW a \in Attempts, Expire(a)
      PROVE  AttemptsInv'
  <2>1. PICK now \in Samples :
          Settle(a, Settled(attempts[a], "expired", now, "expired"), "expired")
    BY <1>8 DEF Expire
  <2>2. now \in 0..MaxTime /\ Open(attempts[a]) /\ attempts[a] \in Attempt /\ UNCHANGED callbacks
    BY <1>8, SampleType DEF Expire, Open
  <2> DEFINE row == Settled(attempts[a], "expired", now, "expired")
  <2>3. row \in Attempt /\ row.state = "expired"
    BY <2>2 DEF Settled, Attempt, Settlements
  <2> HIDE DEF row
  <2>4. Settle(a, row, "expired")
    BY <2>1 DEF row
  <2>5. QED BY <1>8, <2>2, <2>3, <2>4, SettleInv DEF Settlements
<1>9. CASE UNCHANGED <<clock, attemptVars>>
  BY <1>9 DEF attemptVars, ToldAlone
<1>10. QED
  BY <1>1, <1>2, <1>3, <1>4, <1>5, <1>6, <1>7, <1>8, <1>9 DEF AttemptsStep, AttemptsNext

LEMMA AttemptsInvariant == AttemptsSpec => []AttemptsInv
<1>1. clock = 0 /\ AttemptsInit => AttemptsInv
  BY AttemptsInit_Inv
<1>2. AttemptsInv /\ [AttemptsStep]_<<clock, attemptVars>> => AttemptsInv'
  BY AttemptsStepInv
<1>3. QED
  BY <1>1, <1>2, PTL DEF AttemptsSpec

\* However callbacks repeat, race with each other and with the deadline, consume,
\* deny and expire tell one caller at most.
THEOREM OneCallerIsToldAlways == AttemptsSpec => []OneCallerIsTold
<1>1. AttemptsInv => OneCallerIsTold
  BY DEF AttemptsInv, ToldAlone, OneCallerIsTold
<1>2. QED
  BY <1>1, AttemptsInvariant, PTL

-----------------------------------------------------------------------------
(* Provider connections *)

\* A disconnected row holds nothing a probe could write to.
EndedRow(row) == row.state = "disconnected" => row.secret = FALSE /\ row.capabilities = NULL

\* What a probe under way may rely on: its connection is ended, or was not observed
\* at an earlier time since, and at a later one if the probe was overtaken.
Watched(probe) ==
  LET row == connections[probe.id]
  IN  /\ row # NULL
      /\ \/ row.state = "disconnected"
         \/ /\ row.updatedAt >= probe.row.updatedAt
            /\ probe.overtaken => row.updatedAt > probe.row.updatedAt

ConnectionsInv ==
  /\ clock \in 0..MaxTime
  /\ ConnectionsTypeOK
  /\ \A id \in Connections : connections[id] # NULL => EndedRow(connections[id])
  /\ \A p \in Probers : probing[p] # NULL => Watched(probing[p])

LEMMA ConnectionsInit_Inv == clock = 0 /\ ConnectionsInit => ConnectionsInv
  BY ClockAssumption DEF ConnectionsInit, ConnectionsInv, ConnectionsTypeOK

\* The rows the operations leave.
LEMMA RegisteredRow ==
  ASSUME NEW account \in Accounts, NEW now \in 0..MaxTime
  PROVE  Registered(account, now) \in Connection /\ EndedRow(Registered(account, now))
  BY DEF Registered, Connection, EndedRow

LEMMA DisconnectedRow ==
  ASSUME NEW row \in Connection, NEW now \in 0..MaxTime
  PROVE  /\ Disconnected(row, now) \in Connection
         /\ Disconnected(row, now).state = "disconnected"
         /\ EndedRow(Disconnected(row, now))
  BY DEF Disconnected, Connection, EndedRow

LEMMA ObservedRow ==
  ASSUME NEW row \in Connection, NEW answer \in Capabilities \cup Failures,
         NEW now \in 0..MaxTime
  PROVE  /\ Observed(row, answer, now) \in Connection
         /\ Observed(row, answer, now).state # "disconnected"
         /\ Observed(row, answer, now).updatedAt = now
<1>1. CASE answer \in Capabilities
  BY <1>1 DEF Observed, Connection, Failures
<1>2. CASE answer \notin Capabilities
  <2>1. answer \in Failures
    BY <1>2
  <2>2. QED BY <1>2, <2>1 DEF Observed, Connection, Failures
<1>3. QED BY <1>1, <1>2

\* One step of the properties: of a connection, and of a probe that ends.
StaysEnded ==
  \A id \in Connections :
    connections[id] # NULL /\ connections[id].state = "disconnected"
      => /\ connections'[id].state = "disconnected"
         /\ ~connections'[id].secret
         /\ connections'[id].capabilities = NULL

NewerWins ==
  \A p \in Probers :
    probing[p] # NULL /\ probing'[p] = NULL
      => LET id == probing[p].id
         IN  connections'[id] # connections[id]
               => /\ ~probing[p].overtaken
                  /\ connections'[id].updatedAt >= connections[id].updatedAt

\* Probes other than p after the row of id was replaced.
LEMMA OvertakenProbe ==
  ASSUME ConnectionsInv, NEW id \in Connections, NEW row \in Connection, NEW p \in Probers,
         connections[id] # NULL, connections' = [connections EXCEPT ![id] = row],
         probing'[p] = Overtake(id, row)[p],
         \/ row.state = "disconnected"
         \/ connections[id].state # "disconnected" /\ row.updatedAt >= connections[id].updatedAt
  PROVE  /\ probing[p] # NULL => probing'[p] \in Probe /\ probing'[p] # NULL
         /\ probing[p] = NULL => probing'[p] = NULL
         /\ probing'[p] # NULL => Watched(probing[p])'
<1> USE DEF ConnectionsInv, ConnectionsTypeOK
<1>1. CASE probing[p] = NULL
  BY <1>1 DEF Overtake
<1>2. CASE probing[p] # NULL /\ probing[p].id # id
  <2>1. probing'[p] = probing[p] /\ probing[p] \in Probe
    BY <1>2 DEF Overtake
  <2>2. connections'[probing[p].id] = connections[probing[p].id]
    BY <1>2, <2>1 DEF Probe
  <2>3. QED BY <1>2, <2>1, <2>2 DEF Watched
<1>3. CASE probing[p] # NULL /\ probing[p].id = id
  <2> DEFINE over == \/ probing[p].overtaken
                     \/ row.state = "disconnected"
                     \/ row.updatedAt # probing[p].row.updatedAt
  <2>1. probing[p] \in Probe /\ Watched(probing[p])
    BY <1>3
  <2>2. probing'[p] = [probing[p] EXCEPT !.overtaken = over]
    BY <1>3 DEF Overtake
  <2>3. over \in BOOLEAN
    BY <2>1 DEF Probe
  <2>4. /\ probing'[p] \in Probe /\ probing'[p].id = id
        /\ probing'[p].row = probing[p].row /\ probing'[p].overtaken = over
    BY <1>3, <2>1, <2>2, <2>3 DEF Probe
  <2>5. /\ connections'[id] = row /\ row # NULL
        /\ row.updatedAt \in Int /\ connections[id].updatedAt \in Int
        /\ probing[p].row.updatedAt \in Int
    BY <2>1, RowsAssumption, ClockAssumption DEF Probe, Connection
  <2>6. QED
    BY <1>3, <2>1, <2>4, <2>5, RowsAssumption DEF Watched
<1>4. QED BY <1>1, <1>2, <1>3
\* One step keeps the invariant and both properties.
ConnectionsStepGood == ConnectionsInv' /\ StaysEnded /\ NewerWins

\* A replaced row, with the probes of it overtaken; p0 is the probe that ended, if
\* one did.
LEMMA ReplacedRow ==
  ASSUME ConnectionsInv, UNCHANGED clock, NEW id \in Connections, NEW row \in Connection,
         EndedRow(row), connections[id] # NULL, connections' = [connections EXCEPT ![id] = row],
         \/ row.state = "disconnected"
         \/ connections[id].state # "disconnected" /\ row.updatedAt >= connections[id].updatedAt,
         NEW ended \in SUBSET Probers,
         DOMAIN probing' = Probers, probing' = [p \in Probers |-> probing'[p]],
         \A p \in Probers :
           IF p \in ended THEN probing'[p] = NULL ELSE probing'[p] = Overtake(id, row)[p],
         \A p \in ended : /\ probing[p] # NULL /\ probing[p].id = id
                          /\ ~probing[p].overtaken /\ row.updatedAt >= connections[id].updatedAt
  PROVE  ConnectionsStepGood
<1> USE DEF ConnectionsInv, ConnectionsTypeOK
<1>1. /\ connections'[id] = row /\ row # NULL
      /\ \A other \in Connections \ {id} : connections'[other] = connections[other]
      /\ connections' \in [Connections -> Connection \cup {NULL}]
  BY RowsAssumption
<1>2. \A p \in Probers \ ended :
        /\ probing[p] # NULL => probing'[p] \in Probe /\ probing'[p] # NULL
        /\ probing[p] = NULL => probing'[p] = NULL
        /\ probing'[p] # NULL => Watched(probing[p])'
  BY OvertakenProbe
<1>3. probing' \in [Probers -> Probe \cup {NULL}]
  BY <1>2
<1>4. \A other \in Connections : connections'[other] # NULL => EndedRow(connections'[other])
  BY <1>1
<1>5. ConnectionsInv'
  BY <1>1, <1>2, <1>3, <1>4
<1>6. StaysEnded
  <2>1. ASSUME NEW other \in Connections, connections[other] # NULL,
               connections[other].state = "disconnected"
        PROVE  /\ connections'[other].state = "disconnected"
               /\ ~connections'[other].secret
               /\ connections'[other].capabilities = NULL
    BY <1>1, <2>1 DEF EndedRow
  <2>2. QED BY <2>1 DEF StaysEnded
<1>7. NewerWins
  <2>1. \A p \in Probers : probing[p] # NULL /\ probing'[p] = NULL => p \in ended
    BY <1>2
  <2>2. QED BY <1>1, <2>1 DEF NewerWins
<1>8. QED BY <1>5, <1>6, <1>7 DEF ConnectionsStepGood

LEMMA ConnectionsStepInv ==
  ASSUME ConnectionsInv, [ConnectionsStep]_<<clock, connectionVars>>
  PROVE  ConnectionsStepGood
<1> USE DEF ConnectionsInv, ConnectionsTypeOK
\* Where no row changes, the ended ones stay and no probe wins.
<1>1. ASSUME UNCHANGED connections, ConnectionsInv'
      PROVE  ConnectionsStepGood
  BY <1>1 DEF ConnectionsStepGood, StaysEnded, NewerWins, EndedRow
<1>2. CASE PassTime /\ UNCHANGED connectionVars
  BY <1>1, <1>2, PassTimeType DEF connectionVars, Watched
<1>3. ASSUME UNCHANGED clock, NEW id \in Connections, NEW account \in Accounts,
             RegisterVerified(id, account)
      PROVE  ConnectionsStepGood
  <2>1. PICK now \in Samples :
          connections' = [connections EXCEPT ![id] = Registered(account, now)]
    BY <1>3 DEF RegisterVerified
  <2> DEFINE row == Registered(account, now)
  <2>2. row \in Connection /\ EndedRow(row)
    BY SampleType, RegisteredRow
  <2> HIDE DEF row
  <2>3. /\ connections[id] = NULL /\ UNCHANGED probing
        /\ connections' = [connections EXCEPT ![id] = row]
    BY <1>3, <2>1 DEF RegisterVerified, row
  <2>4. /\ connections' \in [Connections -> Connection \cup {NULL}]
        /\ \A other \in Connections : connections'[other] # NULL => EndedRow(connections'[other])
    BY <2>2, <2>3
  <2>5. \A p \in Probers : probing'[p] # NULL => Watched(probing[p])'
    <3>1. ASSUME NEW p \in Probers, probing[p] # NULL
          PROVE  probing[p] \in Probe /\ connections'[probing[p].id] = connections[probing[p].id]
      BY <2>3, <3>1 DEF Watched, Probe
    <3>2. QED BY <2>3, <3>1 DEF Watched
  <2>6. StaysEnded /\ NewerWins
    BY <2>3 DEF StaysEnded, NewerWins, EndedRow
  <2>7. QED BY <1>3, <2>3, <2>4, <2>5, <2>6 DEF ConnectionsStepGood
<1>4. ASSUME UNCHANGED clock, NEW p \in Probers, NEW id \in Connections, BeginProbe(p, id)
      PROVE  ConnectionsStepGood
  <2>1. PICK now \in Samples :
          probing' = [probing EXCEPT
            ![p] = [id |-> id, row |-> connections[id], now |-> now, overtaken |-> FALSE]]
    BY <1>4 DEF BeginProbe
  <2> DEFINE probe == [id |-> id, row |-> connections[id], now |-> now, overtaken |-> FALSE]
  <2>2. connections[id] \in Connection /\ connections[id] # NULL /\ UNCHANGED connections
    BY <1>4 DEF BeginProbe
  <2>3. probe \in Probe
    BY <2>2, SampleType DEF Probe
  <2>4. probe.id = id /\ probe.row = connections[id] /\ probe.overtaken = FALSE
    OBVIOUS
  <2>5. connections[id].updatedAt \in Int
    BY <2>2, ClockAssumption DEF Connection
  <2> HIDE DEF probe
  <2>6. probing' = [probing EXCEPT ![p] = probe]
    BY <2>1 DEF probe
  <2>7. \A q \in Probers : probing'[q] # NULL => Watched(probing[q])'
    BY <2>2, <2>4, <2>5, <2>6 DEF Watched
  <2>8. probing' \in [Probers -> Probe \cup {NULL}]
    BY <2>3, <2>6
  <2>9. QED BY <1>1, <1>4, <2>2, <2>7, <2>8
<1>5. ASSUME UNCHANGED clock, NEW p \in Probers, NEW answer \in Capabilities \cup Failures,
             RecordProbe(p, answer)
      PROVE  ConnectionsStepGood
  <2>1. probing[p] # NULL /\ probing[p] \in Probe /\ Watched(probing[p])
    BY <1>5 DEF RecordProbe
  <2> DEFINE id  == probing[p].id
             row == Observed(connections[id], answer, probing[p].now)
  <2>2. CASE MayRecord(connections[id], probing[p])
    <3>1. /\ id \in Connections /\ connections[id] \in Connection /\ connections[id] # NULL
          /\ probing[p].now \in 0..MaxTime
      BY <2>1 DEF Watched, Probe
    <3>2. /\ row \in Connection /\ row.state # "disconnected"
          /\ row.updatedAt = probing[p].now
      BY <3>1, ObservedRow
    <3>3. /\ connections[id].state # "disconnected"
          /\ connections[id].updatedAt <= probing[p].now
          /\ connections[id] = probing[p].row
      BY <2>2, <3>1 DEF MayRecord, EndedRow
    <3>4. /\ connections' = [connections EXCEPT ![id] = row]
          /\ probing' = [Overtake(id, row) EXCEPT ![p] = NULL]
      BY <1>5, <2>2 DEF RecordProbe
    <3>5. ~probing[p].overtaken
      <4>1. connections[id].updatedAt \in Int
        BY <3>1, ClockAssumption DEF Connection
      <4>2. QED BY <2>1, <3>3, <4>1 DEF Watched
    <3>6. row.updatedAt >= connections[id].updatedAt
      <4>1. connections[id].updatedAt \in Int /\ probing[p].now \in Int
        BY <3>1, ClockAssumption DEF Connection
      <4>2. QED BY <3>2, <3>3, <4>1
    <3>7. EndedRow(row)
      BY <3>2 DEF EndedRow
    <3> HIDE DEF id, row
    <3>8. /\ DOMAIN probing' = Probers /\ probing' = [q \in Probers |-> probing'[q]]
          /\ probing'[p] = NULL
          /\ \A q \in Probers \ {p} : probing'[q] = Overtake(id, row)[q]
      BY <3>4 DEF Overtake
    <3>9. probing[p].id = id
      BY DEF id
    <3>10. {p} \in SUBSET Probers
      OBVIOUS
    <3>11. \A q \in Probers :
             IF q \in {p} THEN probing'[q] = NULL ELSE probing'[q] = Overtake(id, row)[q]
      BY <3>8
    <3>12. \A q \in {p} : /\ probing[q] # NULL /\ probing[q].id = id
                          /\ ~probing[q].overtaken /\ row.updatedAt >= connections[id].updatedAt
      BY <2>1, <3>5, <3>6, <3>9
    <3>13. connections' = [connections EXCEPT ![id] = row]
      BY <3>4
    <3>14. DOMAIN probing' = Probers /\ probing' = [q \in Probers |-> probing'[q]]
      BY <3>8
    <3>15. QED
      BY <1>5, <3>1, <3>2, <3>3, <3>6, <3>7, <3>10, <3>11, <3>12, <3>13, <3>14, ReplacedRow
  <2>3. CASE ~MayRecord(connections[id], probing[p])
    <3>1. probing' = [probing EXCEPT ![p] = NULL] /\ UNCHANGED connections
      BY <1>5, <2>3 DEF RecordProbe
    <3>2. ConnectionsInv'
      BY <1>5, <3>1 DEF Watched
    <3>3. QED BY <1>1, <3>1, <3>2
  <2>4. QED BY <2>2, <2>3
<1>6. ASSUME UNCHANGED clock, NEW p \in Probers, AbandonProbe(p)
      PROVE  ConnectionsStepGood
  <2>1. probing' = [probing EXCEPT ![p] = NULL] /\ UNCHANGED connections
    BY <1>6 DEF AbandonProbe
  <2>2. ConnectionsInv'
    BY <1>6, <2>1 DEF Watched
  <2>3. QED BY <1>1, <2>1, <2>2
<1>7. ASSUME UNCHANGED clock, NEW id \in Connections, Disconnect(id)
      PROVE  ConnectionsStepGood
  <2>1. PICK now \in Samples :
          connections' = [connections EXCEPT ![id] = Disconnected(@, now)]
    BY <1>7 DEF Disconnect
  <2> DEFINE row == Disconnected(connections[id], now)
  <2>2. connections[id] \in Connection /\ connections[id] # NULL
    BY <1>7 DEF Disconnect
  <2>3. row \in Connection /\ row.state = "disconnected" /\ EndedRow(row)
    BY <2>2, SampleType, DisconnectedRow
  <2> HIDE DEF row
  <2>4. connections' = [connections EXCEPT ![id] = row] /\ connections'[id] = row
    BY <2>1 DEF row
  <2>5. probing' = Overtake(id, row)
    BY <1>7, <2>4 DEF Disconnect
  <2>6. DOMAIN probing' = Probers /\ probing' = [q \in Probers |-> probing'[q]]
    BY <2>5 DEF Overtake
  <2>7. {} \in SUBSET Probers
    OBVIOUS
  <2>8. QED BY <1>7, <2>2, <2>3, <2>4, <2>5, <2>6, <2>7, ReplacedRow
<1>8. CASE UNCHANGED <<clock, connectionVars>>
  BY <1>1, <1>8 DEF connectionVars, Watched
<1>9. QED
  BY <1>2, <1>3, <1>4, <1>5, <1>6, <1>7, <1>8 DEF ConnectionsStep, ConnectionsNext

LEMMA ConnectionsInvariant == ConnectionsSpec => []ConnectionsInv
<1>1. clock = 0 /\ ConnectionsInit => ConnectionsInv
  BY ConnectionsInit_Inv
<1>2. ConnectionsInv /\ [ConnectionsStep]_<<clock, connectionVars>> => ConnectionsInv'
  BY ConnectionsStepInv DEF ConnectionsStepGood
<1>3. QED
  BY <1>1, <1>2, PTL DEF ConnectionsSpec

\* No probe that was under way, and no later one, revives what disconnect ended.
THEOREM DisconnectIsTheEnd == ConnectionsSpec => DisconnectedIsFinal
<1>1. ConnectionsInv /\ [ConnectionsStep]_<<clock, connectionVars>> => [StaysEnded]_connectionVars
  BY ConnectionsStepInv DEF ConnectionsStepGood
<1>2. QED
  BY <1>1, ConnectionsInvariant, PTL DEF ConnectionsSpec, DisconnectedIsFinal, StaysEnded

\* record_probe never overwrites what overtook its probe, nor moves time back.
THEOREM NewerObservationWins == ConnectionsSpec => CompetingObservationWins
<1>1. ConnectionsInv /\ [ConnectionsStep]_<<clock, connectionVars>> => [NewerWins]_connectionVars
  BY ConnectionsStepInv DEF ConnectionsStepGood
<1>2. QED
  BY <1>1, ConnectionsInvariant, PTL DEF ConnectionsSpec, CompetingObservationWins, NewerWins

-----------------------------------------------------------------------------
(***************************************************************************)
(* Every operation in the queue belongs to one accepted plan that writes   *)
(* its whole snapshot, and an acceptance stands: for any snapshots,        *)
(* offers, users and operations, any interleaving of their transactions    *)
(* and any staleness of the clock.  The invariant follows a plan through   *)
(* a call: what the first transaction checked stays true until the second  *)
(* one acts on it, because plans are keyed by their content.               *)
(***************************************************************************)

\* A plan some operation may be created from.
Accepted(plan) == Stored(plan) /\ plans[plan] # NULL /\ ~Blocked(plan)

\* What a call found when it read its plan, of the plans and operations given.
CallFollows(call, stored, ops) ==
  /\ call.plan \in DOMAIN stored /\ ~Blocked(call.plan)
  /\ call.asks # "accept" => stored[call.plan] # NULL
  /\ call.asks = "claim" => call.op \in Operations /\ ops[call.op] # NULL

CallsFollow ==
  \A u \in Users : calls[u] # NULL => CallFollows(calls[u], plans, operations)

\* Operations are created from accepted plans, one for each.
OperationsFollow ==
  \A op \in Operations : operations[op] # NULL =>
    /\ Accepted(operations[op].key)
    /\ \A other \in Operations \ {op} :
         operations[other] # NULL => operations[other].key # operations[op].key

PlansInv == clock \in 0..MaxTime /\ PlansTypeOK /\ CallsFollow /\ OperationsFollow

\* The plans that were accepted stay as they are.
Stands ==
  \A plan \in DOMAIN plans :
    /\ plan \in DOMAIN plans'
    /\ plans[plan] # NULL => plans'[plan] = plans[plan]

-----------------------------------------------------------------------------
(* Plans *)

\* A plan that is not blocked writes every occurrence of its snapshot.
LEMMA WholePlan ==
  ASSUME NEW plan \in Plans, ~Blocked(plan)
  PROVE  WritableEntries(plan) = DOMAIN plan.snapshot /\ Required \subseteq plan.capabilities
<1>1. DOMAIN plan.entries = DOMAIN plan.snapshot
  BY DEF Plans, BuildPlan
<1>2. QED
  BY <1>1 DEF Blocked, WritableEntries

\* A step that keeps what it finds of plans and operations keeps what follows
\* from it.
LEMMA PlansGrow ==
  ASSUME PlansInv, Stands, NEW plan, Stored(plan), plans[plan] # NULL
  PROVE  Stored(plan)' /\ plans'[plan] # NULL
BY DEF Stored, Stands

LEMMA OperationsKept ==
  ASSUME PlansInv, Stands, UNCHANGED operations
  PROVE  OperationsFollow'
<1>1. ASSUME NEW plan, Accepted(plan) PROVE Accepted(plan)'
  BY <1>1, PlansGrow DEF Accepted, Blocked
<1>2. QED
  BY <1>1 DEF PlansInv, OperationsFollow

\* A call of one user begins, goes on or ends; the calls of the others find
\* what they found.
LEMMA CallsKept ==
  ASSUME PlansInv, Stands, NEW u \in Users, NEW call \in Calls \cup {NULL},
         calls' = [calls EXCEPT ![u] = call],
         \A op \in Operations : operations[op] # NULL => operations'[op] # NULL,
         call # NULL => CallFollows(call, plans', operations')
  PROVE  calls' \in [Users -> Calls \cup {NULL}] /\ CallsFollow'
<1>1. calls' \in [Users -> Calls \cup {NULL}] /\ calls'[u] = call
  BY DEF PlansInv, PlansTypeOK
<1>2. ASSUME NEW v \in Users, v # u, calls'[v] # NULL
      PROVE  CallFollows(calls'[v], plans', operations')
  <2>1. calls'[v] = calls[v] /\ CallFollows(calls[v], plans, operations)
    BY <1>2 DEF PlansInv, PlansTypeOK, CallsFollow
  <2>2. QED BY <1>2, <2>1 DEF CallFollows, Stands
<1>3. QED
  BY <1>1, <1>2 DEF CallsFollow

-----------------------------------------------------------------------------
(* One step *)

GoodPlansStep == PlansInv' /\ Stands

LEMMA SavePlanStep ==
  ASSUME PlansInv, UNCHANGED clock, NEW snapshot \in Snapshots, NEW policy \in Policies,
         NEW offer \in Offers, SavePlan(snapshot, policy, offer)
  PROVE  GoodPlansStep
<1> DEFINE plan == BuildPlan(snapshot, policy, offer)
<1>1. plan \in Plans /\ plan \notin DOMAIN plans
  BY DEF SavePlan, Stored, Plans
<1>2. plans' = [p \in DOMAIN plans \cup {plan} |-> IF p = plan THEN NULL ELSE plans[p]]
  BY DEF SavePlan
<1> HIDE DEF plan
<1>3. UNCHANGED <<operations, calls>>
  BY DEF SavePlan
<1>4. Stands /\ PlansTypeOK'
  BY <1>1, <1>2, <1>3 DEF Stands, PlansInv, PlansTypeOK
<1>5. CallsFollow'
  BY <1>3, <1>4 DEF PlansInv, CallsFollow, CallFollows, Stands
<1>6. QED
  BY <1>3, <1>4, <1>5, OperationsKept DEF GoodPlansStep, PlansInv

LEMMA ReadPlanStep ==
  ASSUME PlansInv, UNCHANGED clock, NEW u \in Users, NEW plan \in Plans,
         NEW asks \in {"accept", "enqueue", "execute"}, ReadPlan(u, plan, asks)
  PROVE  GoodPlansStep
<1>1. UNCHANGED <<plans, operations>> /\ Stands
  BY DEF ReadPlan, Stands
<1>2. PICK now \in Samples :
        calls' = [calls EXCEPT ![u] = [asks |-> asks, plan |-> plan, now |-> now, op |-> NULL]]
  BY DEF ReadPlan
<1> DEFINE call == [asks |-> asks, plan |-> plan, now |-> now, op |-> NULL]
<1>3. call \in Calls
  BY ClockAssumption DEF Samples, PlansInv, Calls
<1>4. CallFollows(call, plans', operations')
  BY <1>1 DEF ReadPlan, CallFollows, MayGoOn, Stored
<1> HIDE DEF call
<1>5. calls' \in [Users -> Calls \cup {NULL}] /\ CallsFollow'
  BY <1>1, <1>2, <1>3, <1>4, CallsKept DEF call
<1>6. QED
  BY <1>1, <1>5, OperationsKept DEF GoodPlansStep, PlansInv, PlansTypeOK

LEMMA AcceptStep ==
  ASSUME PlansInv, UNCHANGED clock, NEW u \in Users, Accept(u)
  PROVE  GoodPlansStep
<1> DEFINE plan == calls[u].plan
<1>1. plan \in DOMAIN plans /\ calls[u].now \in 0..MaxTime
  BY DEF Accept, PlansInv, PlansTypeOK, Calls, CallsFollow, CallFollows
<1>2. plans' = [plans EXCEPT ![plan] = AcceptedAt(plan, calls[u].now)]
  BY DEF Accept
<1>3. Stands
  BY <1>1, <1>2 DEF Stands, AcceptedAt
<1>4. UNCHANGED operations /\ calls' = [calls EXCEPT ![u] = NULL]
  BY DEF Accept
<1>5. calls' \in [Users -> Calls \cup {NULL}] /\ CallsFollow'
  BY <1>3, <1>4, CallsKept
<1> HIDE DEF plan
<1>6. PlansTypeOK'
  <2>1. DOMAIN plans' = DOMAIN plans
    BY <1>2
  <2>2. \A p \in DOMAIN plans : plans'[p] \in 0..MaxTime \cup {NULL}
    BY <1>1, <1>2 DEF PlansInv, PlansTypeOK, AcceptedAt
  <2>3. QED BY <1>4, <1>5, <2>1, <2>2 DEF PlansInv, PlansTypeOK
<1>7. QED
  BY <1>3, <1>4, <1>5, <1>6, OperationsKept DEF GoodPlansStep, PlansInv

\* A new operation takes a key that no other has.
LEMMA CreateStep ==
  ASSUME PlansInv, UNCHANGED clock, NEW u \in Users, NEW op \in Operations, Create(u, op)
  PROVE  GoodPlansStep
<1> DEFINE plan == calls[u].plan
           fresh == [key |-> plan, row |-> FreshRow]
<1>1. UNCHANGED plans /\ Stands
  BY DEF Create, Stands
<1>2. /\ CallFollows(calls[u], plans, operations)
      /\ calls[u] \in Calls /\ calls[u].asks \in {"enqueue", "execute"}
  BY DEF Create, PlansInv, PlansTypeOK, CallsFollow
<1>3. Accepted(plan) /\ plan \in Plans
  BY <1>2 DEF CallFollows, Accepted, Stored, Calls
<1>4. fresh \in Rows /\ fresh # NULL
  <2>1. FreshRow \in
          [state : {"queued", "running", "succeeded", "cancelled"}, worker : Users \cup {NULL},
           lease : 0..(MaxTime + LeaseSeconds) \cup {NULL}, nextRun : {NULL}, cancel : {FALSE},
           checkpoint : {FreshRow.checkpoint}]
    BY DEF FreshRow
  <2> HIDE DEF plan
  <2>2. fresh \in Rows
    BY <1>3, <2>1 DEF Rows
  <2> QED BY <2>2, PlanRowsAssumption
<1> HIDE DEF fresh
<1>5. \/ /\ operations' = [operations EXCEPT ![op] = fresh] /\ operations[op] = NULL
         /\ \A other \in Operations : operations[other] # NULL => operations[other].key # plan
      \/ operations' = operations /\ operations[op] # NULL
  BY DEF Create, Bound, fresh
<1>6. /\ operations' \in [Operations -> Rows \cup {NULL}]
      /\ operations'[op] # NULL
      /\ \A other \in Operations : operations[other] # NULL => operations'[other] = operations[other]
  BY <1>4, <1>5 DEF PlansInv, PlansTypeOK
<1>7. OperationsFollow'
  <2>1. \A p : Accepted(p)' <=> Accepted(p)
    BY <1>1 DEF Accepted, Stored
  <2>2. fresh.key = plan
    BY DEF fresh
  <2> HIDE DEF plan
  <2>3. QED
    BY <1>3, <1>5, <1>6, <2>1, <2>2 DEF PlansInv, PlansTypeOK, OperationsFollow
<1>8. calls' \in [Users -> Calls \cup {NULL}] /\ CallsFollow'
  <2> DEFINE going == [calls[u] EXCEPT !.asks = "claim", !.op = op]
  <2>1. PICK call \in {going, NULL} : calls' = [calls EXCEPT ![u] = call]
    BY DEF Create
  <2>2. call \in Calls \cup {NULL}
    BY <1>2, <2>1 DEF Calls
  <2>3. call # NULL => CallFollows(call, plans', operations')
    BY <1>1, <1>2, <1>6, <2>1 DEF CallFollows, Calls
  <2> HIDE DEF going
  <2>4. QED BY <1>1, <1>6, <2>1, <2>2, <2>3, CallsKept
<1>9. QED
  BY <1>1, <1>6, <1>7, <1>8 DEF GoodPlansStep, PlansInv, PlansTypeOK

\* What happens to a row of an operation leaves its key alone.
LEMMA RowChanged ==
  ASSUME PlansInv, NEW op \in Operations, operations[op] # NULL, NEW row, UNCHANGED plans,
         operations' = [operations EXCEPT ![op].row = row],
         [operations[op] EXCEPT !.row = row] \in Rows
  PROVE  /\ operations' \in [Operations -> Rows \cup {NULL}]
         /\ OperationsFollow' /\ Stands
         /\ \A other \in Operations : operations[other] # NULL => operations'[other] # NULL
<1> DEFINE new == [operations[op] EXCEPT !.row = row]
<1>1. operations' = [operations EXCEPT ![op] = new]
  OBVIOUS
<1>2. new # NULL /\ new.key = operations[op].key
  BY PlanRowsAssumption DEF PlansInv, PlansTypeOK, Rows
<1> HIDE DEF new
<1>3. /\ operations' \in [Operations -> Rows \cup {NULL}]
      /\ \A other \in Operations : operations[other] # NULL =>
           operations'[other] # NULL /\ operations'[other].key = operations[other].key
      /\ \A other \in Operations : operations[other] = NULL => operations'[other] = NULL
  BY <1>1, <1>2 DEF PlansInv, PlansTypeOK, new
<1>4. \A p : Accepted(p)' <=> Accepted(p)
  BY DEF Accepted, Stored
<1>5. OperationsFollow'
  BY <1>3, <1>4 DEF PlansInv, OperationsFollow
<1>6. QED
  BY <1>3, <1>5 DEF Stands

LEMMA ClaimStep ==
  ASSUME PlansInv, UNCHANGED clock, NEW u \in Users, Claim(u)
  PROVE  GoodPlansStep
<1> DEFINE op == calls[u].op
           new == Claimed(operations[op].row, u, calls[u].now)
<1>1. UNCHANGED plans /\ calls' = [calls EXCEPT ![u] = NULL]
  BY DEF Claim
<1>2. op \in Operations /\ operations[op] \in Rows /\ operations[op] # NULL
  BY DEF Claim, PlansInv, PlansTypeOK, CallsFollow, CallFollows
<1>3. /\ operations' \in [Operations -> Rows \cup {NULL}]
      /\ OperationsFollow' /\ Stands
      /\ \A other \in Operations : operations[other] # NULL => operations'[other] # NULL
  <2>1. CASE operations' = [operations EXCEPT ![op].row = new]
    <3>1. calls[u].now + LeaseSeconds \in 0..(MaxTime + LeaseSeconds)
      BY ClockAssumption, LeaseAssumption DEF Claim, PlansInv, PlansTypeOK, Calls
    <3>2. [operations[op] EXCEPT !.row = new] \in Rows
      BY <1>2, <3>1 DEF Rows, Claimed
    <3> HIDE DEF op, new
    <3>3. QED BY <1>1, <1>2, <2>1, <3>2, RowChanged
  <2>2. CASE operations' = operations
    <3>1. Stands
      BY <1>1 DEF Stands
    <3>2. QED BY <2>2, <3>1, OperationsKept DEF PlansInv, PlansTypeOK
  <2>3. QED BY <2>1, <2>2 DEF Claim
<1>4. calls' \in [Users -> Calls \cup {NULL}] /\ CallsFollow'
  BY <1>1, <1>3, CallsKept
<1>5. QED
  BY <1>1, <1>3, <1>4 DEF GoodPlansStep, PlansInv, PlansTypeOK

LEMMA LoseCallStep ==
  ASSUME PlansInv, UNCHANGED clock, NEW u \in Users, LoseCall(u)
  PROVE  GoodPlansStep
<1>1. UNCHANGED <<plans, operations>> /\ calls' = [calls EXCEPT ![u] = NULL] /\ Stands
  BY DEF LoseCall, Stands
<1>2. calls' \in [Users -> Calls \cup {NULL}] /\ CallsFollow'
  BY <1>1, CallsKept
<1>3. QED
  BY <1>1, <1>2, OperationsKept DEF GoodPlansStep, PlansInv, PlansTypeOK

LEMMA ElsewhereStep ==
  ASSUME PlansInv, UNCHANGED clock, NEW op \in Operations, Elsewhere(op)
  PROVE  GoodPlansStep
<1>1. UNCHANGED <<plans, calls>> /\ operations[op] # NULL /\ operations[op] \in Rows
  BY DEF Elsewhere, PlansInv, PlansTypeOK
<1>2. PICK state \in {"succeeded", "cancelled"} :
        operations' =
          [operations EXCEPT ![op].row = [Released(operations[op].row) EXCEPT !.state = state]]
  BY DEF Elsewhere
<1> DEFINE new == [Released(operations[op].row) EXCEPT !.state = state]
<1>3. [operations[op] EXCEPT !.row = new] \in Rows
  BY <1>1 DEF Rows, Released
<1> HIDE DEF new
<1>4. /\ operations' \in [Operations -> Rows \cup {NULL}]
      /\ OperationsFollow' /\ Stands
      /\ \A other \in Operations : operations[other] # NULL => operations'[other] # NULL
  BY <1>1, <1>2, <1>3, RowChanged DEF new
<1>5. CallsFollow'
  BY <1>1, <1>4 DEF PlansInv, CallsFollow, CallFollows
<1>6. QED
  BY <1>1, <1>4, <1>5 DEF GoodPlansStep, PlansInv, PlansTypeOK

LEMMA PlansStepGood ==
  ASSUME PlansInv, [PlansStep]_<<clock, planVars>>
  PROVE  GoodPlansStep
<1>1. CASE UNCHANGED planVars /\ (clock' = clock \/ PassTime)
  <2>1. Stands /\ UNCHANGED <<plans, operations, calls>>
    BY <1>1 DEF planVars, Stands
  <2>2. clock' \in 0..MaxTime
    BY <1>1, ClockAssumption DEF PassTime, PlansInv
  <2>3. CallsFollow'
    BY <2>1 DEF PlansInv, CallsFollow
  <2>4. QED BY <2>1, <2>2, <2>3, OperationsKept DEF GoodPlansStep, PlansInv, PlansTypeOK
<1>2. CASE PlansNext /\ UNCHANGED clock
  BY <1>2, SavePlanStep, ReadPlanStep, AcceptStep, ClaimStep, LoseCallStep, CreateStep,
     ElsewhereStep
  DEF PlansNext
<1>3. QED
  BY <1>1, <1>2 DEF PlansStep, planVars

-----------------------------------------------------------------------------
(* The theorems *)

LEMMA PlansInvariant == PlansSpec => []PlansInv
<1>1. clock = 0 /\ PlansInit => PlansInv
  BY ClockAssumption
  DEF PlansInit, PlansInv, PlansTypeOK, CallsFollow, OperationsFollow
<1>2. PlansInv /\ [PlansStep]_<<clock, planVars>> => PlansInv'
  BY PlansStepGood DEF GoodPlansStep
<1>3. QED
  BY <1>1, <1>2, PTL DEF PlansSpec

\* Whatever users do at the same time, every operation comes from an accepted plan
\* that writes its whole snapshot, and no plan has two.
THEOREM AdmissionCorrect == PlansSpec => []AdmittedPlansAreWhole
<1>1. ASSUME PlansInv PROVE AdmittedPlansAreWhole
  <2> SUFFICES ASSUME NEW op \in Operations, operations[op] # NULL,
                      NEW plan, plan = operations[op].key
               PROVE  /\ Stored(plan) /\ plans[plan] # NULL
                      /\ WritableEntries(plan) = DOMAIN plan.snapshot
                      /\ Required \subseteq plan.capabilities
                      /\ \A other \in Operations \ {op} :
                           operations[other] # NULL => operations[other].key # plan
    BY DEF AdmittedPlansAreWhole
  <2>1. Accepted(plan) /\ plan \in Plans
    BY <1>1 DEF PlansInv, PlansTypeOK, OperationsFollow, Rows
  <2>2. QED BY <1>1, <2>1, WholePlan DEF Accepted, PlansInv, OperationsFollow
<1>2. QED
  BY <1>1, PlansInvariant, PTL

\* Once accepted, a plan stays accepted, with the time of its first acceptance.
THEOREM FirstAcceptanceStands == PlansSpec => AcceptanceStands
<1>1. PlansInv /\ [PlansStep]_<<clock, planVars>> => [Stands]_planVars
  BY PlansStepGood DEF GoodPlansStep
<1>2. QED
  BY <1>1, PlansInvariant, PTL DEF PlansSpec, AcceptanceStands, Stands

-----------------------------------------------------------------------------
(***************************************************************************)
(* The destination of a backup is whole, for any number of concurrent      *)
(* backups and of transactions beside them.  The invariant follows a       *)
(* temporary file from its copy to the replacement: it is no older than    *)
(* the start of its backup and, once it was validated, a sound copy.       *)
(***************************************************************************)

SoundCopy(file) == file.kind = "copy" /\ file.sound = TRUE

\* What is at the destination.
DestinationSound == destination \in {NULL, Earlier} \/ SoundCopy(destination)

\* A backup's file while it is being made.
FileFollows ==
  \A b \in Backups :
    /\ since[b] <= live.version
    /\ progress[b] \in {"copied", "valid"} =>
         temporary[b].version \in Nat /\ temporary[b].version >= since[b]
    /\ progress[b] = "valid" => SoundCopy(temporary[b])

\* Some backup that is done is not older than what is at the destination.
DestinationIsRecent ==
  (\E b \in Backups : progress[b] = "done") =>
    \E b \in Backups : progress[b] = "done" /\ destination.version >= since[b]

\* Files of a backup that ended in order are gone.
CleanedUp ==
  \A b \in Backups : progress[b] \in {"new", "refused", "done", "failed"} => temporary[b] = NULL

Following == FileFollows /\ DestinationIsRecent /\ CleanedUp

BackupInv == BackupsTypeOK /\ DestinationSound /\ Following

LEMMA BackupsInit_Inv == BackupsInit => BackupInv
  BY BackupAssumption
  DEF BackupsInit, BackupInv, BackupsTypeOK, DestinationSound, Following, FileFollows,
      DestinationIsRecent, CleanedUp, Files, Versions

-----------------------------------------------------------------------------
(* Type correctness *)

\* A copy of the live database is a file of its version.
LEMMA CopyType ==
  ASSUME BackupsTypeOK
  PROVE  /\ CopyOf(live) \in Files
         /\ CopyOf(live).version = live.version
         /\ live.version \in Nat
  BY BackupAssumption DEF BackupsTypeOK, CopyOf, Files, Versions

LEMMA BackupTypeStep ==
  ASSUME BackupsTypeOK, [BackupsNext]_backupVars
  PROVE  BackupsTypeOK'
<1> USE DEF BackupsTypeOK, On, Holds
<1>1. CASE CommitLive
  <2>1. live'.version = live.version + 1 /\ live'.version \in Versions
    BY <1>1, BackupAssumption DEF CommitLive, Versions
  <2>2. live' \in [kind : {"live"}, version : Versions, sound : BOOLEAN]
    BY <1>1, <2>1 DEF CommitLive
  <2>3. QED BY <1>1, <2>2 DEF CommitLive
<1>2. CASE DamageLive
  BY <1>2 DEF DamageLive
<1>3. ASSUME NEW b \in Backups, CheckBackup(b) PROVE BackupsTypeOK'
  BY <1>3 DEF CheckBackup
<1>4. ASSUME NEW b \in Backups, RefuseBackup(b) PROVE BackupsTypeOK'
  BY <1>4 DEF RefuseBackup
<1>5. ASSUME NEW b \in Backups, CreateTemporary(b) PROVE BackupsTypeOK'
  BY <1>5 DEF CreateTemporary, Files
<1>6. ASSUME NEW b \in Backups, CopyStore(b) PROVE BackupsTypeOK'
  BY <1>6, CopyType DEF CopyStore
<1>7. ASSUME NEW b \in Backups, ValidateCopy(b) PROVE BackupsTypeOK'
  BY <1>7 DEF ValidateCopy
<1>8. ASSUME NEW b \in Backups, ReplaceDestination(b) PROVE BackupsTypeOK'
  BY <1>8 DEF ReplaceDestination
<1>9. ASSUME NEW b \in Backups, FailBackup(b) PROVE BackupsTypeOK'
  BY <1>9 DEF FailBackup
<1>10. CASE UNCHANGED backupVars
  BY <1>10 DEF backupVars
<1>11. QED
  BY <1>1, <1>2, <1>3, <1>4, <1>5, <1>6, <1>7, <1>8, <1>9, <1>10 DEF BackupsNext

-----------------------------------------------------------------------------
(* The invariant *)

\* Nothing but a replacement touches the destination, and then the backup that
\* replaced it is done.
LEMMA ReplaceInv ==
  ASSUME BackupInv, NEW b \in Backups, ReplaceDestination(b)
  PROVE  DestinationSound' /\ Following'
<1> USE DEF BackupInv, BackupsTypeOK, Following, On, Holds, ReplaceDestination
<1>1. DestinationSound'
  BY DEF FileFollows, DestinationSound, SoundCopy
<1>2. FileFollows'
  BY DEF FileFollows, SoundCopy
<1>3. DestinationIsRecent'
  <2>1. progress'[b] = "done" /\ destination'.version >= since'[b]
    BY DEF FileFollows
  <2>2. QED BY <2>1 DEF DestinationIsRecent
<1>4. CleanedUp'
  BY DEF CleanedUp
<1>5. QED BY <1>1, <1>2, <1>3, <1>4

\* A step of a backup that is not done before or after it, at its own file.
LEMMA OwnStepInv ==
  ASSUME BackupInv, NEW b \in Backups, UNCHANGED <<live, destination>>,
         NEW next \in {"refused", "checked", "empty", "copied", "valid", "failed", "uncleaned"},
         progress[b] # "done", progress' = [progress EXCEPT ![b] = next],
         \A c \in Backups \ {b} : temporary'[c] = temporary[c] /\ since'[c] = since[c],
         next \in {"copied", "valid"} =>
           temporary'[b].version \in Nat /\ temporary'[b].version >= since'[b],
         next = "valid" => SoundCopy(temporary'[b]),
         next \in {"refused", "failed"} => temporary'[b] = NULL,
         since'[b] <= live.version
  PROVE  DestinationSound' /\ Following'
<1> USE DEF BackupInv, BackupsTypeOK, Following
<1>1. /\ progress'[b] = next
      /\ \A c \in Backups \ {b} : progress'[c] = progress[c]
  OBVIOUS
<1>2. DestinationSound'
  BY DEF DestinationSound, SoundCopy
<1>3. FileFollows'
  BY <1>1 DEF FileFollows, SoundCopy
<1>4. DestinationIsRecent'
  <2>1. ASSUME \E c \in Backups : progress'[c] = "done"
        PROVE  \E c \in Backups : progress'[c] = "done" /\ destination'.version >= since'[c]
    <3>1. \E c \in Backups : progress[c] = "done"
      BY <1>1, <2>1
    <3>2. PICK c \in Backups : progress[c] = "done" /\ destination.version >= since[c]
      BY <3>1 DEF DestinationIsRecent
    <3>3. c # b
      BY <3>2
    <3>4. QED BY <1>1, <3>2, <3>3
  <2>2. QED BY <2>1 DEF DestinationIsRecent
<1>5. CleanedUp'
  BY <1>1 DEF CleanedUp
<1>6. QED BY <1>2, <1>3, <1>4, <1>5

LEMMA BackupStepInv ==
  ASSUME BackupInv, [BackupsNext]_backupVars
  PROVE  BackupInv'
<1> USE DEF BackupInv, BackupsTypeOK, On, Holds
<1>1. BackupsTypeOK'
  BY BackupTypeStep
<1>2. /\ live.version \in Nat
      /\ \A b \in Backups : since[b] \in Nat /\ since[b] <= live.version
  BY CopyType DEF Following, FileFollows, Versions
<1>3. ASSUME NEW b \in Backups, CheckBackup(b) PROVE DestinationSound' /\ Following'
  <2>1. /\ since'[b] = live.version
        /\ \A c \in Backups \ {b} : temporary'[c] = temporary[c] /\ since'[c] = since[c]
    BY <1>3 DEF CheckBackup
  <2>2. progress[b] = "new" /\ progress' = [progress EXCEPT ![b] = "checked"]
    BY <1>3 DEF CheckBackup
  <2>3. since'[b] <= live.version
    BY <1>2, <2>1
  <2>4. UNCHANGED <<live, destination>>
    BY <1>3 DEF CheckBackup
  <2>5. QED BY <2>1, <2>2, <2>3, <2>4, OwnStepInv
<1>4. ASSUME NEW b \in Backups, RefuseBackup(b) PROVE DestinationSound' /\ Following'
  BY <1>2, <1>4, OwnStepInv DEF RefuseBackup, Following, CleanedUp
<1>5. ASSUME NEW b \in Backups, CreateTemporary(b) PROVE DestinationSound' /\ Following'
  BY <1>2, <1>5, OwnStepInv DEF CreateTemporary
<1>6. ASSUME NEW b \in Backups, CopyStore(b) PROVE DestinationSound' /\ Following'
  BY <1>2, <1>6, CopyType, OwnStepInv DEF CopyStore
<1>7. ASSUME NEW b \in Backups, ValidateCopy(b) PROVE DestinationSound' /\ Following'
  BY <1>2, <1>7, OwnStepInv DEF ValidateCopy, Valid, SoundCopy, Following, FileFollows
<1>8. ASSUME NEW b \in Backups, ReplaceDestination(b) PROVE DestinationSound' /\ Following'
  BY <1>8, ReplaceInv
<1>9. ASSUME NEW b \in Backups, FailBackup(b) PROVE DestinationSound' /\ Following'
  BY <1>2, <1>9, OwnStepInv DEF FailBackup
<1>10. CASE CommitLive
  <2>1. live'.version = live.version + 1
    BY <1>10 DEF CommitLive
  <2>2. QED
    BY <1>1, <1>2, <1>10, <2>1
    DEF CommitLive, DestinationSound, SoundCopy, Following, FileFollows, DestinationIsRecent,
        CleanedUp
<1>11. CASE DamageLive
  BY <1>1, <1>11
  DEF DamageLive, DestinationSound, SoundCopy, Following, FileFollows, DestinationIsRecent,
      CleanedUp
<1>12. CASE UNCHANGED backupVars
  BY <1>1, <1>12
  DEF backupVars, DestinationSound, SoundCopy, Following, FileFollows, DestinationIsRecent,
      CleanedUp
<1>13. QED
  BY <1>1, <1>3, <1>4, <1>5, <1>6, <1>7, <1>8, <1>9, <1>10, <1>11, <1>12 DEF BackupsNext

LEMMA BackupsInvariant == BackupsSpec => []BackupInv
<1>1. BackupsInit => BackupInv
  BY BackupsInit_Inv
<1>2. BackupInv /\ [BackupsNext]_backupVars => BackupInv'
  BY BackupStepInv
<1>3. QED
  BY <1>1, <1>2, PTL DEF BackupsSpec

\* Whatever fails, dies or is damaged, create_backup leaves at the destination what
\* was there or a sound copy of one moment, and cleans up if it can.
THEOREM BackupIsWhole == BackupsSpec => []DestinationIsWhole
<1>1. BackupInv => DestinationIsWhole
  BY DEF BackupInv, DestinationSound, SoundCopy, Following, DestinationIsRecent, CleanedUp,
         DestinationIsWhole
<1>2. QED
  BY <1>1, BackupsInvariant, PTL

-----------------------------------------------------------------------------
(***************************************************************************)
(* An interrupted staging can be resumed, for any paths.  The invariant    *)
(* says, for each part of a run, which files the tool may have left in the *)
(* directory: before the removals those of the old manifest, during them   *)
(* also the new ones, and after them only the new ones; the union that is  *)
(* recorded first covers all three.  While nobody else touches the         *)
(* directory it also knows its directories: one that has the name of a     *)
(* managed file lies above another (Turned), so there is none when nothing *)
(* changes its kind.                                                       *)
(***************************************************************************)

\* A manifest that is whole names what the tool wrote.
ManifestCovers == manifest # "torn" => ours \subseteq managed

\* What a run knows of the manifest.
RunKnows ==
  /\ stage = "union" => manifest = "torn" \/ managed = previous
  /\ stage \in {"remove", "write", "tidy"} => manifest = "written" /\ managed = Union
  /\ stage = "final" => manifest = "torn" \/ (manifest = "written" /\ managed = Union)

\* What a run has in the directory, and what its loop has still to handle.
RunOwns ==
  /\ stage = "union"  => ours \subseteq previous
  /\ stage = "remove" => ours \subseteq desired \cup left /\ left \subseteq previous
  /\ stage = "write"  => ours \subseteq desired /\ left \subseteq desired
  /\ stage \in {"tidy", "final"} => ours \subseteq desired

\* Where there is a directory, a managed file has become one only for another's sake.
Turned(paths) == \A d \in dirs \cap paths : \E g \in paths : d \in Above[g]

\* What a run that was just admitted has seen.
Unclaimed == (desired \ previous) \cap (Present \cup dirs) = {}

\* What holds of the directory while nobody else touches it.
AloneInv ==
  alone =>
    /\ theirs = {}
    /\ manifest = "absent" => dirs = {}
    /\ stage = "idle" => Turned(managed)
    /\ stage = "union" => Turned(previous) /\ Unclaimed
    /\ stage \notin {"idle", "union"} => Turned(Union)
    /\ stage = "write" => desired \ left \subseteq ours
    /\ stage \in {"tidy", "final"} => desired \subseteq ours

StagingInv == StagingTypeOK /\ ManifestCovers /\ RunKnows /\ RunOwns /\ AloneInv

\* What the next steps preserve of the shape of the directory.
DiskShape ==
  /\ ours \subseteq StageFiles /\ theirs \subseteq StageFiles /\ ours \cap theirs = {}
  /\ dirs \subseteq StageFiles /\ dirs \cap Present = {}
  /\ DirsOf(Present \cup dirs) \subseteq dirs

LEMMA AboveIsAbove ==
  ASSUME NEW f \in StageFiles
  PROVE  /\ Above[f] \subseteq StageFiles /\ f \notin Above[f]
         /\ \A d \in Above[f] : Above[d] \subseteq Above[f]
  BY AboveAssumption

\* Taking files away leaves the shape.
LEMMA ShapeWithout ==
  ASSUME DiskShape, ours' \subseteq ours, theirs' \subseteq theirs, dirs' = dirs
  PROVE  DiskShape'
  BY DEF DiskShape, Present, DirsOf

\* So does adding a file and its directories where they fit.
LEMMA ShapeWith ==
  ASSUME DiskShape, NEW f \in StageFiles, f \notin dirs, ParentsClear(f),
         Present' = Present \cup {f}, ours' \cap theirs' = {}, dirs' = dirs \cup Above[f]
  PROVE  DiskShape'
<1>1. Above[f] \subseteq StageFiles /\ f \notin Above[f]
      /\ \A d \in Above[f] : Above[d] \subseteq Above[f]
  BY AboveIsAbove
<1>2. dirs' \cap Present' = {}
  BY <1>1 DEF DiskShape, ParentsClear
<1>3. DirsOf(Present' \cup dirs') \subseteq dirs'
  BY <1>1 DEF DiskShape, DirsOf
<1>4. ours' \subseteq StageFiles /\ theirs' \subseteq StageFiles /\ dirs' \subseteq StageFiles
  BY <1>1 DEF DiskShape, Present
<1>5. QED
  BY <1>2, <1>3, <1>4 DEF DiskShape, Present, DirsOf

\* And some of the directories of a file.
LEMMA ShapeWithParents ==
  ASSUME DiskShape, NEW f \in StageFiles, NEW d \in Above[f], ParentsClear(f),
         UNCHANGED <<ours, theirs>>, dirs' = dirs \cup Above[d] \cup {d}
  PROVE  DiskShape'
<1>1. d \in StageFiles /\ Above[d] \subseteq Above[f] /\ Above[d] \subseteq StageFiles
      /\ \A e \in Above[d] : Above[e] \subseteq Above[d]
  BY AboveIsAbove
<1>2. Present' = Present
  BY DEF Present
<1>3. dirs' \cap Present' = {}
  BY <1>1, <1>2 DEF DiskShape, ParentsClear
<1>4. DirsOf(Present' \cup dirs') \subseteq dirs'
  BY <1>1, <1>2 DEF DiskShape, DirsOf
<1>5. QED
  BY <1>1, <1>3, <1>4 DEF DiskShape, DirsOf

\* A directory in which nothing lies may go, and any path with all that lies in it.
LEMMA ShapeAfterTaking ==
  ASSUME DiskShape, NEW p,
         \/ Removes(p) /\ UNCHANGED <<ours, theirs>> /\ dirs' = dirs \ {p}
         \/ /\ ours'   = {q \in ours : q # p /\ p \notin Above[q]}
            /\ theirs' = {q \in theirs : q # p /\ p \notin Above[q]}
            /\ dirs'   = {q \in dirs : q # p /\ p \notin Above[q]}
  PROVE  DiskShape'
<1>1. /\ ours' \subseteq ours /\ theirs' \subseteq theirs /\ dirs' \subseteq dirs
      /\ \A q \in ours' \cup theirs' \cup dirs' : p \notin Above[q]
      /\ \A q \in dirs \ dirs' : q = p \/ p \in Above[q]
  BY DEF Removes, Present
<1>2. \A q \in Present' \cup dirs' : Above[q] \subseteq dirs'
  <2>1. SUFFICES ASSUME NEW q \in Present' \cup dirs', NEW d \in Above[q] PROVE d \in dirs'
    OBVIOUS
  <2>2. q \in Present \cup dirs /\ q \in StageFiles /\ d \in dirs /\ p \notin Above[q]
    BY <1>1 DEF DiskShape, DirsOf, Present
  <2>3. d # p /\ p \notin Above[d]
    BY <2>2, AboveIsAbove
  <2>4. QED BY <1>1, <2>2, <2>3
<1>3. QED
  BY <1>1, <1>2 DEF DiskShape, DirsOf, Present

LEMMA StagingInit_Inv == StagingInit => StagingInv
<1> SUFFICES ASSUME StagingInit PROVE StagingInv
  OBVIOUS
<1>1. theirs \subseteq StageFiles /\ \A f \in theirs : Above[f] \cap theirs = {}
  BY DEF StagingInit, SourceTrees, Fits
<1>2. dirs \subseteq StageFiles /\ dirs \cap theirs = {}
  BY <1>1, AboveIsAbove DEF StagingInit, DirsOf
<1>3. \A d \in dirs : Above[d] \subseteq dirs
  BY <1>1, AboveIsAbove DEF StagingInit, DirsOf
<1>4. StagingTypeOK
  BY <1>1, <1>2, <1>3 DEF StagingInit, StagingTypeOK, Present, DirsOf
<1>5. AloneInv
  BY DEF StagingInit, AloneInv, DirsOf, Turned
<1>6. QED
  BY <1>4, <1>5 DEF StagingInit, StagingInv, ManifestCovers, RunKnows, RunOwns

\* One step per action; the loops take one file at a time from what is left.
LEMMA StagingStepInv ==
  ASSUME StagingInv, [StagingNext]_stagingVars
  PROVE  StagingInv'
<1> USE DEF StagingInv
<1> DEFINE Rest ==
      /\ manifest \in {"absent", "written", "torn"}
      /\ managed \subseteq StageFiles /\ (manifest # "written" => managed = {})
      /\ alone \in BOOLEAN
      /\ stage \in {"idle", "union", "remove", "write", "tidy", "final"}
      /\ desired \in SourceTrees \cup {{}} /\ previous \subseteq StageFiles
      /\ left \subseteq StageFiles /\ climb \subseteq StageFiles
<1>shape. DiskShape /\ Rest /\ desired \subseteq StageFiles
  BY DEF StagingTypeOK, DiskShape, SourceTrees
<1>type. DiskShape' /\ Rest' => StagingTypeOK'
  BY DEF StagingTypeOK, DiskShape
<1>same. UNCHANGED disk => DiskShape'
  BY <1>shape DEF disk, DiskShape, Present, DirsOf
<1>1. ASSUME NEW tree \in SourceTrees, BeginStage(tree) PROVE StagingInv'
  <2>1. Rest' /\ DiskShape'
    BY <1>1, <1>shape, <1>same DEF BeginStage
  <2>2. ManifestCovers' /\ RunKnows' /\ RunOwns'
    BY <1>1, <1>shape DEF BeginStage, Admitted, ManifestAccepted, disk, ManifestCovers, RunKnows, RunOwns
  <2>3. AloneInv'
    BY <1>1 DEF BeginStage, Admitted, disk, AloneInv, Turned, Unclaimed, Present
  <2>4. QED BY <1>type, <2>1, <2>2, <2>3
<1>2. CASE EmptyManifest
  <2>1. Rest' /\ DiskShape'
    BY <1>2, <1>shape, <1>same DEF EmptyManifest
  <2>2. ManifestCovers' /\ RunKnows' /\ RunOwns'
    BY <1>2 DEF EmptyManifest, disk, ManifestCovers, RunKnows, RunOwns
  <2>3. AloneInv'
    BY <1>2 DEF EmptyManifest, disk, AloneInv, Turned, Unclaimed, Present, Union
  <2>4. QED BY <1>type, <2>1, <2>2, <2>3
<1>3. CASE WriteUnion
  <2>1. Rest' /\ DiskShape'
    BY <1>3, <1>shape, <1>same DEF WriteUnion, WriteManifest, Union, Stale
  <2>2. ManifestCovers' /\ RunKnows' /\ RunOwns'
    BY <1>3 DEF WriteUnion, WriteManifest, Union, Stale, disk, ManifestCovers, RunKnows, RunOwns
  <2>3. AloneInv'
    BY <1>3 DEF WriteUnion, WriteManifest, disk, AloneInv, Turned, Unclaimed, Union
  <2>4. QED BY <1>type, <2>1, <2>2, <2>3
<1>4. CASE RemoveStale
  <2>1. PICK f \in left : left' = left \ {f} /\ ours' = ours \ {f} /\ theirs' = theirs \ {f}
    BY <1>4 DEF RemoveStale, Deepest
  <2>2. UNCHANGED <<manifest, managed, dirs, alone, stage, desired, previous, climb>>
        /\ stage = "remove"
    BY <1>4 DEF RemoveStale
  <2>3. DiskShape' /\ Rest'
    BY <1>shape, <2>1, <2>2, ShapeWithout
  <2>4. ManifestCovers' /\ RunKnows' /\ RunOwns'
    BY <2>1, <2>2 DEF ManifestCovers, RunKnows, RunOwns, Union
  <2>5. AloneInv'
    BY <2>1, <2>2 DEF AloneInv, Turned, Union
  <2>6. QED BY <1>type, <2>3, <2>4, <2>5
<1>5. CASE BeginWriting
  <2>1. Rest' /\ DiskShape'
    BY <1>5, <1>shape, <1>same DEF BeginWriting
  <2>2. ManifestCovers' /\ RunKnows' /\ RunOwns'
    BY <1>5 DEF BeginWriting, disk, ManifestCovers, RunKnows, RunOwns, Union
  <2>3. AloneInv'
    BY <1>5 DEF BeginWriting, disk, AloneInv, Turned, Union
  <2>4. QED BY <1>type, <2>1, <2>2, <2>3
<1>6. CASE WriteDesired
  <2>1. PICK f \in left :
          /\ f \notin dirs /\ ParentsClear(f) /\ left' = left \ {f}
          /\ ours' = ours \cup {f} /\ theirs' = theirs \ {f} /\ dirs' = dirs \cup Above[f]
    BY <1>6 DEF WriteDesired, Writable
  <2>2. UNCHANGED <<manifest, managed, alone, stage, desired, previous, climb>>
        /\ stage = "write" /\ f \in StageFiles /\ f \in desired
    BY <1>6, <1>shape DEF WriteDesired, RunOwns
  <2>3. Present' = Present \cup {f} /\ ours' \cap theirs' = {}
    BY <1>shape, <2>1 DEF Present, DiskShape
  <2>4. DiskShape' /\ Rest'
    BY <1>shape, <2>1, <2>2, <2>3, ShapeWith
  <2>5. ManifestCovers' /\ RunKnows' /\ RunOwns'
    BY <2>1, <2>2 DEF ManifestCovers, RunKnows, RunOwns, Union
  <2>6. AloneInv'
    BY <2>1, <2>2 DEF AloneInv, Turned, Union, RunKnows
  <2>7. QED BY <1>type, <2>4, <2>5, <2>6
<1>7. CASE EndWriting
  <2>1. Rest' /\ DiskShape'
    BY <1>7, <1>shape, <1>same DEF EndWriting, Stale
  <2>2. ManifestCovers' /\ RunKnows' /\ RunOwns'
    BY <1>7 DEF EndWriting, disk, ManifestCovers, RunKnows, RunOwns, Union
  <2>3. AloneInv'
    BY <1>7 DEF EndWriting, disk, AloneInv, Turned, Union
  <2>4. QED BY <1>type, <2>1, <2>2, <2>3
<1>8. CASE NextStale
  <2>1. PICK f \in left : left' = left \ {f} /\ climb' = Above[f]
    BY <1>8 DEF NextStale
  <2>2. UNCHANGED <<manifest, managed, disk, alone, stage, desired, previous>> /\ stage = "tidy"
    BY <1>8 DEF NextStale
  <2>3. Rest' /\ DiskShape'
    BY <1>shape, <1>same, <2>1, <2>2, AboveIsAbove
  <2>4. ManifestCovers' /\ RunKnows' /\ RunOwns'
    BY <2>2 DEF disk, ManifestCovers, RunKnows, RunOwns, Union
  <2>5. AloneInv'
    BY <2>2 DEF disk, AloneInv, Turned, Union
  <2>6. QED BY <1>type, <2>3, <2>4, <2>5
<1>9. CASE RemoveEmptyParent
  <2>1. PICK d \in climb : /\ dirs' = IF Removes(d) THEN dirs \ {d} ELSE dirs
                           /\ climb' = IF Removes(d) THEN climb \ {d} ELSE {}
    BY <1>9 DEF RemoveEmptyParent, Deepest
  <2>2. UNCHANGED <<manifest, managed, ours, theirs, alone, stage, desired, previous, left>>
        /\ stage = "tidy"
    BY <1>9 DEF RemoveEmptyParent
  <2>3. DiskShape'
    <3>1. CASE Removes(d)
      BY <1>shape, <2>1, <2>2, <3>1, ShapeAfterTaking
    <3>2. CASE ~Removes(d)
      BY <1>same, <2>1, <2>2, <3>2 DEF disk
    <3>3. QED BY <3>1, <3>2
  <2>4. Rest' /\ dirs' \subseteq dirs
    BY <1>shape, <2>1, <2>2
  <2>5. ManifestCovers' /\ RunKnows' /\ RunOwns'
    BY <2>2 DEF ManifestCovers, RunKnows, RunOwns, Union
  <2>6. AloneInv'
    BY <2>2, <2>4 DEF AloneInv, Turned, Union
  <2>7. QED BY <1>type, <2>3, <2>4, <2>5, <2>6
<1>10. CASE EndTidying
  <2>1. Rest' /\ DiskShape'
    BY <1>10, <1>shape, <1>same DEF EndTidying
  <2>2. ManifestCovers' /\ RunKnows' /\ RunOwns'
    BY <1>10 DEF EndTidying, disk, ManifestCovers, RunKnows, RunOwns, Union
  <2>3. AloneInv'
    BY <1>10 DEF EndTidying, disk, AloneInv, Turned, Union
  <2>4. QED BY <1>type, <2>1, <2>2, <2>3
\* Every new file is there, so none of them is a directory.
<1>11. CASE WriteFinal
  <2>1. Rest' /\ DiskShape'
    BY <1>11, <1>shape, <1>same DEF WriteFinal, WriteManifest, Forget
  <2>2. ManifestCovers' /\ RunKnows' /\ RunOwns'
    BY <1>11 DEF WriteFinal, WriteManifest, Forget, disk, ManifestCovers, RunKnows, RunOwns
  <2>3. alone => dirs \cap desired = {}
    BY <1>11, <1>shape DEF WriteFinal, AloneInv, DiskShape, Present
  <2>4. AloneInv'
    BY <1>11, <2>3 DEF WriteFinal, WriteManifest, Forget, disk, AloneInv, Turned
  <2>5. QED BY <1>type, <2>1, <2>2, <2>4
\* What the manifest names when a run ends early.
<1>names. stage # "idle" /\ manifest # "torn" =>
            \/ stage = "union" /\ managed = previous
            \/ stage # "union" /\ managed = Union
  BY <1>shape DEF RunKnows
<1>12. CASE InterruptStage
  <2>1. Rest' /\ DiskShape'
    BY <1>12, <1>shape, <1>same DEF InterruptStage, Forget
  <2>2. ManifestCovers' /\ RunKnows' /\ RunOwns'
    BY <1>12 DEF InterruptStage, Forget, disk, ManifestCovers, RunKnows, RunOwns
  <2>3. alone => Turned(managed)
    BY <1>12, <1>names, <1>shape DEF InterruptStage, AloneInv, Turned
  <2>4. AloneInv'
    BY <1>12, <2>3 DEF InterruptStage, Forget, disk, AloneInv, Turned
  <2>5. QED BY <1>type, <2>1, <2>2, <2>4
<1>13. CASE InterruptMkdir
  <2>1. PICK f \in left :
          \E d \in Above[f] : ParentsClear(f) /\ dirs' = dirs \cup Above[d] \cup {d}
    BY <1>13 DEF InterruptMkdir
  <2>pick. PICK d \in Above[f] : ParentsClear(f) /\ dirs' = dirs \cup Above[d] \cup {d}
    BY <2>1
  <2>2. /\ stage = "write" /\ f \in StageFiles /\ f \in desired
        /\ Forget /\ UNCHANGED <<manifest, managed, ours, theirs, alone>>
    BY <1>13, <1>shape DEF InterruptMkdir, RunOwns
  <2>3. DiskShape' /\ Rest'
    BY <1>shape, <2>pick, <2>2, ShapeWithParents DEF Forget
  <2>4. ManifestCovers' /\ RunKnows' /\ RunOwns'
    BY <2>2 DEF Forget, ManifestCovers, RunKnows, RunOwns
  <2>5. manifest = "written" /\ managed = Union /\ f \in managed
    BY <2>2 DEF RunKnows, Union
  <2>6. Above[d] \cup {d} \subseteq Above[f]
    BY <2>pick, <2>2, AboveIsAbove
  <2>7. alone => Turned(managed)'
    BY <2>pick, <2>2, <2>5, <2>6 DEF AloneInv, Turned
  <2>8. AloneInv'
    BY <2>2, <2>5, <2>7 DEF Forget, AloneInv
  <2>9. QED BY <1>type, <2>3, <2>4, <2>8
<1>14. ASSUME NEW p \in StageFiles, PutFile(p) PROVE StagingInv'
  <2>1. Present' = Present \cup {p} /\ ours' \cap theirs' = {}
    BY <1>14, <1>shape DEF PutFile, Present, DiskShape
  <2>2. DiskShape' /\ Rest'
    BY <1>14, <1>shape, <2>1, ShapeWith DEF PutFile
  <2>3. ManifestCovers' /\ RunKnows' /\ RunOwns' /\ AloneInv'
    BY <1>14 DEF PutFile, ManifestCovers, RunKnows, RunOwns, Union, AloneInv
  <2>4. QED BY <1>type, <2>2, <2>3
<1>15. ASSUME NEW p \in StageFiles, Take(p) PROVE StagingInv'
  <2>1. DiskShape' /\ Rest'
    BY <1>15, <1>shape, ShapeAfterTaking DEF Take
  <2>2. ours' \subseteq ours
    BY <1>15 DEF Take
  <2>3. ManifestCovers' /\ RunKnows' /\ RunOwns' /\ AloneInv'
    BY <1>15, <2>2 DEF Take, ManifestCovers, RunKnows, RunOwns, Union, AloneInv
  <2>4. QED BY <1>type, <2>1, <2>3
<1>16. CASE ClearDirectory
  <2>1. DiskShape' /\ Rest'
    BY <1>16, <1>shape DEF ClearDirectory, DiskShape, Present, DirsOf
  <2>2. ManifestCovers' /\ RunKnows' /\ RunOwns' /\ AloneInv'
    BY <1>16 DEF ClearDirectory, ManifestCovers, RunKnows, RunOwns, AloneInv, Turned
  <2>3. QED BY <1>type, <2>1, <2>2
<1>17. CASE UNCHANGED stagingVars
  <2>1. DiskShape' /\ Rest'
    BY <1>17, <1>shape, <1>same DEF stagingVars
  <2>2. ManifestCovers' /\ RunKnows' /\ RunOwns' /\ AloneInv'
    BY <1>17 DEF stagingVars, disk, ManifestCovers, RunKnows, RunOwns, Union, AloneInv, Turned,
                 Unclaimed, Present
  <2>3. QED BY <1>type, <2>1, <2>2
<1>18. QED
  BY <1>1, <1>2, <1>3, <1>4, <1>5, <1>6, <1>7, <1>8, <1>9, <1>10, <1>11, <1>12, <1>13, <1>14,
     <1>15, <1>16, <1>17
  DEF StagingNext

\* The files the tool left are all named, so nothing of its own is in its way unless
\* something changed its kind.
LEMMA InvResumes == StagingInv => StagingResumes
<1> SUFFICES ASSUME StagingInv, manifest # "torn" PROVE StagingResumes
  BY DEF StagingResumes
<1>1. ours \subseteq managed /\ (alone => Present = ours)
  BY DEF StagingInv, ManifestCovers, AloneInv, Present
<1>2. alone => ManifestAccepted
  BY <1>1 DEF StagingInv, StagingTypeOK, AloneInv, ManifestAccepted
<1>3. ASSUME alone, stage = "idle", NEW tree \in SourceTrees, KeepsKinds(tree)
      PROVE  Admitted(tree)
  BY <1>1, <1>2, <1>3 DEF KeepsKinds, Fits, Admitted, ParentsClear
<1>4. ASSUME alone, stage # "idle", Fits(Union)
      PROVE  Admitted(desired) /\ Unhindered
  <2>1. /\ managed \subseteq Union /\ desired \subseteq Union /\ previous \subseteq Union
        /\ stage = "union" => managed = previous
        /\ stage # "union" => desired \subseteq managed /\ Turned(Union)
    BY <1>4 DEF StagingInv, StagingTypeOK, RunKnows, AloneInv, Union
  <2>2. \A f \in Union : ParentsClear(f)
    BY <1>1, <1>4, <2>1 DEF Fits, ParentsClear
  <2>3. (desired \ managed) \cap (Present \cup dirs) = {}
    BY <1>4, <2>1 DEF StagingInv, AloneInv, Unclaimed
  <2>4. Admitted(desired)
    BY <1>2, <1>4, <2>1, <2>2, <2>3 DEF Admitted
  <2>5. ASSUME NEW f \in left, stage \in {"remove", "write"} PROVE f \in Union /\ f \notin dirs
    <3>1. f \in Union
      BY <2>5 DEF StagingInv, RunOwns, Union
    <3>2. QED BY <2>1, <2>5, <1>4, <3>1 DEF Turned, Fits
  <2>6. Unhindered
    BY <2>2, <2>5 DEF Unhindered, Removable, Writable
  <2>7. QED BY <2>4, <2>6
<1>5. QED
  BY <1>1, <1>3, <1>4 DEF StagingResumes

LEMMA StagingInvariant == StagingSpec => []StagingInv
<1>1. StagingInit => StagingInv
  BY StagingInit_Inv
<1>2. StagingInv /\ [StagingNext]_stagingVars => StagingInv'
  BY StagingStepInv
<1>3. QED
  BY <1>1, <1>2, PTL DEF StagingSpec

\* However often stage_application is interrupted, in a directory that nobody else
\* touches and unless the manifest itself is torn: its next run is admitted for every
\* tree that keeps the kinds of the paths, and a run that fits gets to its end or can
\* be repeated.
THEOREM StagingCanResume == StagingSpec => []StagingResumes
  BY StagingInvariant, InvResumes, PTL

-----------------------------------------------------------------------------
(***************************************************************************)
(* The specification the stores are checked in runs each of them: they     *)
(* share the clock, and no step of one touches the variables of another.   *)
(***************************************************************************)

LEMMA JointInit ==
  ASSUME Init
  PROVE  /\ clock = 0
         /\ ConnectionsInit /\ AttemptsInit /\ PlansInit /\ BackupsInit /\ StagingInit
  BY DEF Init

\* Whoever acts, each store takes a step of its own or none.
LEMMA JointStep ==
  ASSUME [Next]_vars
  PROVE  /\ [ConnectionsStep]_<<clock, connectionVars>>
         /\ [AttemptsStep]_<<clock, attemptVars>>
         /\ [PlansStep]_<<clock, planVars>>
         /\ [BackupsNext]_backupVars
         /\ [StagingNext]_stagingVars
<1>1. CASE PassTime /\ UNCHANGED <<storeVars, backupVars, stagingVars>>
  BY <1>1 DEF storeVars, ConnectionsStep, AttemptsStep, PlansStep
<1>2. CASE ConnectionsNext /\ UNCHANGED <<clock, attemptVars, planVars, backupVars, stagingVars>>
  BY <1>2 DEF ConnectionsStep
<1>3. CASE AttemptsNext /\ UNCHANGED <<clock, connectionVars, planVars, backupVars, stagingVars>>
  BY <1>3 DEF AttemptsStep
<1>4. CASE PlansNext /\ UNCHANGED <<clock, connectionVars, attemptVars, backupVars, stagingVars>>
  BY <1>4 DEF PlansStep
<1>5. CASE BackupsNext /\ UNCHANGED <<clock, storeVars, stagingVars>>
  BY <1>5 DEF storeVars
<1>6. CASE StagingNext /\ UNCHANGED <<clock, storeVars, backupVars>>
  BY <1>6 DEF storeVars
<1>7. CASE UNCHANGED vars
  BY <1>7 DEF vars, storeVars
<1>8. QED
  BY <1>1, <1>2, <1>3, <1>4, <1>5, <1>6, <1>7 DEF Next

\* A behaviour of the joint specification is one of every store, so what is proved of
\* the connections, the attempts, the plans, the backups and the staging holds in it.
THEOREM JointRunsTheStores ==
  Spec => ConnectionsSpec /\ AttemptsSpec /\ PlansSpec /\ BackupsSpec /\ StagingSpec
<1>1. Init => /\ clock = 0
              /\ ConnectionsInit /\ AttemptsInit /\ PlansInit /\ BackupsInit /\ StagingInit
  BY JointInit
<1>2. [Next]_vars => /\ [ConnectionsStep]_<<clock, connectionVars>>
                     /\ [AttemptsStep]_<<clock, attemptVars>>
                     /\ [PlansStep]_<<clock, planVars>>
                     /\ [BackupsNext]_backupVars
                     /\ [StagingNext]_stagingVars
  BY JointStep
<1>3. QED
  BY <1>1, <1>2, PTL
  DEF Spec, ConnectionsSpec, AttemptsSpec, PlansSpec, BackupsSpec, StagingSpec

\* Every table, file and call of the five keeps its type.
THEOREM StoresTypeCorrect == Spec => []TypeOK
<1>1. ConnectionsInv /\ AttemptsInv /\ PlansInv /\ BackupInv /\ StagingInv => TypeOK
  BY DEF TypeOK, ConnectionsInv, AttemptsInv, PlansInv, BackupInv, StagingInv
<1>2. QED
  BY <1>1, JointRunsTheStores, ConnectionsInvariant, AttemptsInvariant, PlansInvariant,
     BackupsInvariant, StagingInvariant, PTL
=============================================================================
