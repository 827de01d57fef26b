----------------------------- MODULE EdgeProofs ------------------------------
(***************************************************************************)
(* The edges of the system: a write through the provider adapter, the      *)
(* dashboard that reads from the server, and the specification that runs   *)
(* both beside the reading of playlists.                                   *)
(***************************************************************************)
EXTENDS MCEdges, PageProofs

-----------------------------------------------------------------------------
(***************************************************************************)
(* A write through the Spotify adapter implements WriterContract.  The     *)
(* argument: an answer stays true of the request it belongs to, because    *)
(* what was carried out stays carried out and what was dropped stays       *)
(* dropped; so a refusal is told only of a request that was never sent or  *)
(* was dropped, and a confirmation only of one that was carried out.       *)
(***************************************************************************)

\* Nothing is sent, answered or told before the checks are over.
NothingYet ==
  stage = "checking" => request = "unsent" /\ response = NULL

\* What was answered is true of the request.
AnswersHold ==
  response # NULL => Truthful(response.status, response.body)

\* What was refused is not carried out and never will be.
RefusalsHold ==
  writeVerdict \in Writer!Refusals => request \in {"unsent", "dropped"}

RequestInv == RequestTypeOK /\ NothingYet /\ AnswersHold /\ RefusalsHold

-----------------------------------------------------------------------------
(* What an answer is taken for *)

\* Every category has an outcome, and an inconclusive one is unknown.
LEMMA OutcomeType ==
  ASSUME NEW category \in Categories
  PROVE  /\ Outcome(category) \in Writer!Refusals \cup {"unknown_outcome"}
         /\ category \in Inconclusive => Outcome(category) = "unknown_outcome"
  BY DEF Outcome, Inconclusive, Categories, Writer!Refusals

\* The verdict on an answer: a confirmation needs the identity of what was written,
\* a refusal a client error.
LEMMA VerdictOnAnswer ==
  ASSUME NEW answer \in [status : Statuses, body : Bodies],
         NEW v \in VerdictsOn(answer)
  PROVE  /\ v \in Writer!Verdicts
         /\ v = "confirmed_success" => answer.status = Created /\ answer.body = "identity"
         /\ v \in Writer!Refusals => Rejects(answer.status)
<1> USE DEF Writer!Verdicts, Writer!WriteOutcomes, Writer!Refusals
<1>1. /\ Outcome("timeout") = "unknown_outcome"
      /\ Outcome("provider_contract_changed") = "unknown_outcome"
      /\ Outcome("unknown_write_outcome") = "unknown_outcome"
      /\ Outcome("provider_unavailable") = "unknown_outcome"
  BY OutcomeType DEF Inconclusive, Categories
<1>2. CASE Succeeds(answer.status)
  BY <1>1, <1>2 DEF VerdictsOn, OfSuccess
<1>3. CASE ~Succeeds(answer.status)
  <2>1. CategoryOf(answer.status) \in Categories
    BY DEF CategoryOf, Categories
  <2>2. answer.status \in Statuses /\ answer.status \in Nat
    BY DEF Statuses, Created
  <2>3. CASE Redirects(answer.status)
    BY <1>1, <1>3, <2>3 DEF VerdictsOn, OfError
  <2>4. CASE Rejects(answer.status)
    <3>1. ~Redirects(answer.status)
      BY <2>2, <2>4 DEF Rejects, Redirects
    <3>2. v \in {"exception", Outcome(CategoryOf(answer.status))}
      BY <1>3, <3>1 DEF VerdictsOn, OfError
    <3>3. Outcome(CategoryOf(answer.status)) \in Writer!Refusals \cup {"unknown_outcome"}
      BY <2>1, OutcomeType
    <3>4. QED BY <2>4, <3>2, <3>3
  <2>5. CASE answer.status >= 500
    <3>1. CategoryOf(answer.status) = "provider_unavailable"
      BY <2>2, <2>5 DEF CategoryOf
    <3>2. QED BY <1>1, <1>3, <3>1 DEF VerdictsOn, OfError
  <2>6. QED
    BY <1>3, <2>2, <2>3, <2>4, <2>5 DEF Statuses, Created, Succeeds, Redirects, Rejects
<1>4. QED BY <1>2, <1>3

-----------------------------------------------------------------------------
(* The invariant *)

LEMMA RequestInit_Inv == RequestInit => RequestInv
  BY DEF RequestInit, RequestInv, RequestTypeOK, NothingYet, AnswersHold, RefusalsHold,
         Writer!Refusals

\* The verdicts on a call of each kind, in the states in which it ends.
LEMMA ToldInv ==
  ASSUME RequestInv, NEW verdicts \in SUBSET Writer!Verdicts, ToldOne(verdicts),
         UNCHANGED request,
         \A v \in verdicts : v \in Writer!Refusals => request \in {"unsent", "dropped"}
  PROVE  RequestInv'
<1>1. /\ stage' = "told" /\ writeVerdict' \in verdicts
      /\ UNCHANGED <<response, request>>
  BY DEF ToldOne
<1>2. writeVerdict' # NULL
  BY <1>1, RequestAssumption
<1>3. QED
  BY <1>1, <1>2 DEF RequestInv, RequestTypeOK, NothingYet, AnswersHold, RefusalsHold, Truthful

-----------------------------------------------------------------------------
(* Every step keeps the invariant and maps to a step of the contract *)

\* A call that ends maps to Tell, if a confirmation is true.
LEMMA ToldTells ==
  ASSUME RequestInv, NEW verdicts \in SUBSET Writer!Verdicts, stage # "told",
         ToldOne(verdicts), UNCHANGED request,
         \A v \in verdicts : /\ v \in Writer!Refusals => request \in {"unsent", "dropped"}
                             /\ v = "confirmed_success" => request = "carried"
  PROVE  Writer!Next
<1>1. PICK v \in verdicts : writeVerdict' = v
  BY DEF ToldOne
<1>2. writeVerdict = NULL
  BY DEF RequestInv, RequestTypeOK
<1>3. /\ v = "confirmed_success" => request = "carried"
      /\ v \in Writer!Refusals => request # "carried"
  OBVIOUS
<1>4. UNCHANGED (request = "carried")
  BY Zenon
<1>5. Writer!Tell(v)
  BY <1>1, <1>2, <1>3, <1>4, Zenon DEF Writer!Tell
<1>6. v \in Writer!Verdicts
  OBVIOUS
<1>7. QED BY <1>5, <1>6, Zenon DEF Writer!Next

\* What a call that ends without an answer may be told.
LEMMA SilentVerdicts ==
  /\ {"exception"} \cup {Outcome(c) : c \in Categories} \in SUBSET Writer!Verdicts
  /\ "confirmed_success" \notin {"exception"} \cup {Outcome(c) : c \in Categories}
  /\ {Outcome("timeout"), Outcome("network_error"), "exception"}
       = {"unknown_outcome", "exception"}
<1>1. /\ Outcome("timeout") = "unknown_outcome"
      /\ Outcome("network_error") = "unknown_outcome"
  BY OutcomeType DEF Inconclusive, Categories
<1>2. \A c \in Categories : Outcome(c) \in Writer!Refusals \cup {"unknown_outcome"}
  BY OutcomeType
<1>3. QED
  BY <1>1, <1>2 DEF Writer!Verdicts, Writer!WriteOutcomes, Writer!Refusals

LEMMA StepRefines ==
  ASSUME RequestInv, [RequestNext]_requestVars
  PROVE  /\ RequestInv'
         /\ [Writer!Next]_<<request = "carried", writeVerdict>>
<1> USE DEF RequestInv, RequestTypeOK, NothingYet, AnswersHold, RefusalsHold
<1>1. CASE StopBeforeSending
  <2>1. request = "unsent" /\ stage # "told"
    BY <1>1 DEF StopBeforeSending
  <2>2. QED
    BY <1>1, <2>1, SilentVerdicts, ToldInv, ToldTells DEF StopBeforeSending
<1>2. CASE Send
  <2>1. writeVerdict = NULL /\ response = NULL /\ request = "unsent"
    BY <1>2 DEF Send
  <2>2. /\ stage' = "waiting" /\ request' = "underway"
        /\ response' = NULL /\ writeVerdict' = NULL
    BY <1>2, <2>1 DEF Send
  <2>3. NULL \notin Writer!Refusals
    BY RequestAssumption DEF Writer!Verdicts, Writer!WriteOutcomes
  <2>4. RequestInv'
    BY <2>1, <2>2, <2>3
  <2>5. UNCHANGED <<request = "carried", writeVerdict>>
    BY <2>1, <2>2
  <2>6. QED BY <2>4, <2>5
<1>3. CASE Receive
  <2>1. response \in [status : Statuses, body : Bodies] /\ stage # "told"
    BY <1>3 DEF Receive
  <2>2. Truthful(response.status, response.body)
    BY <1>3 DEF Receive
  <2>3. /\ VerdictsOn(response) \in SUBSET Writer!Verdicts
        /\ \A v \in VerdictsOn(response) :
             /\ v \in Writer!Refusals => request \in {"unsent", "dropped"}
             /\ v = "confirmed_success" => request = "carried"
    BY <2>1, <2>2, VerdictOnAnswer DEF Truthful
  <2>4. QED
    BY <1>3, <2>1, <2>3, ToldInv, ToldTells DEF Receive
<1>4. CASE GiveUp
  <2>1. /\ {"unknown_outcome", "exception"} \in SUBSET Writer!Verdicts
        /\ \A v \in {"unknown_outcome", "exception"} :
             v \notin Writer!Refusals /\ v # "confirmed_success"
    BY DEF Writer!Verdicts, Writer!WriteOutcomes, Writer!Refusals
  <2>2. ToldOne({"unknown_outcome", "exception"}) /\ UNCHANGED request /\ stage # "told"
    BY <1>4, SilentVerdicts DEF GiveUp
  <2>3. QED BY <2>1, <2>2, ToldInv, ToldTells
<1>5. CASE CarryOut
  <2>1. RequestInv'
    BY <1>5 DEF CarryOut, Truthful
  <2>2. Writer!Carry
    BY <1>5 DEF CarryOut, Writer!Carry
  <2>3. QED BY <2>1, <2>2 DEF Writer!Next
<1>6. CASE Drop
  BY <1>6 DEF Drop, Truthful
<1>7. CASE Respond
  BY <1>7 DEF Respond, Truthful
<1>8. CASE UNCHANGED requestVars
  BY <1>8 DEF requestVars, Truthful
<1>9. QED
  BY <1>1, <1>2, <1>3, <1>4, <1>5, <1>6, <1>7, <1>8 DEF RequestNext, Exchange

\* A write through the Spotify adapter implements the contract the copy executor
\* relies on: spotify_error_mapping.py never calls an outcome known that is not.
THEOREM AdapterKeepsContract == RequestSpec => WriterKeepsContract
<1>1. RequestInit => RequestInv /\ Writer!Init
  BY RequestInit_Inv DEF RequestInit, Writer!Init
<1>2. RequestInv /\ [RequestNext]_requestVars
        => RequestInv' /\ [Writer!Next]_<<request = "carried", writeVerdict>>
  BY StepRefines
<1>3. QED
  BY <1>1, <1>2, PTL DEF RequestSpec, WriterKeepsContract, Writer!Spec

-----------------------------------------------------------------------------
(***************************************************************************)
(* Late answers never move the dashboard, for any number of reads, changes *)
(* of the data, silent clients and restarts.  The argument: off the page   *)
(* no read counts; the read that counts is the newest one; and its answer  *)
(* is at least as new as what is shown, because it was served after that.  *)
(***************************************************************************)

\* What a read may be.
ReadStates == {Out, Settled, Failed} \cup {Answered(v) : v \in Versions}

\* The client's part of the type invariant.
ClientType ==
  /\ attached \in BOOLEAN
  /\ snapshot \in Versions \cup {NULL}
  /\ newest \in 0..MaxReads
  /\ reads \in [1..MaxReads -> ReadStates]
  /\ stored \in Versions

\* Only the newest read counts, and only on the page.
OnlyNewestCounts == generation = IF attached THEN newest ELSE 0

\* Nothing shown or answered is newer than the stored data.
NothingInvented ==
  /\ snapshot # NULL => snapshot <= stored
  /\ \A r \in 1..MaxReads, v \in Versions : reads[r] = Answered(v) /\ v # NULL => v <= stored

\* The answer that counts is not older than what is shown.
NewestIsNewer ==
  \A v \in Versions :
    attached /\ newest > 0 /\ reads[newest] = Answered(v) /\ snapshot # NULL /\ v # NULL
      => snapshot <= v

DashboardInv == ClientType /\ OnlyNewestCounts /\ NothingInvented /\ NewestIsNewer

\* The states of a read differ.
LEMMA ReadsDiffer ==
  /\ \A x : Answered(x) # Out /\ Answered(x) # Settled /\ Answered(x).version = x
            /\ Answered(x).stage = "answered"
  /\ \A x, y : Answered(x) = Answered(y) => x = y
  /\ Out # Settled /\ Out.stage # "answered" /\ Settled.stage # "answered"
  BY DEF Answered, Out, Settled

LEMMA DashboardInit_Inv == DashboardInit => DashboardInv
<1> SUFFICES ASSUME DashboardInit PROVE DashboardInv
  OBVIOUS
<1> USE DEF DashboardInit
<1>1. ClientType
  <2>1. Settled \in ReadStates
    BY DEF ReadStates
  <2>2. newest \in 0..MaxReads /\ stored \in Versions
    BY DashboardAssumption DEF Versions
  <2>3. QED BY <2>1, <2>2 DEF ClientType
<1>2. NothingInvented
  BY ReadsDiffer DEF NothingInvented
<1>3. QED
  BY <1>1, <1>2 DEF DashboardInv, OnlyNewestCounts, NewestIsNewer

\* An aborted read fails or keeps the answer it has.
LEMMA AbortedReads ==
  ASSUME ClientType
  PROVE  /\ Aborted \in [1..MaxReads -> ReadStates]
         /\ \A r \in 1..MaxReads : Aborted[r] = reads[r] \/ Aborted[r] = Failed
  BY DEF ClientType, Aborted, ReadStates

-----------------------------------------------------------------------------
(* The steps that change what is shown or what counts *)

\* A new read supersedes the others.
LEMMA RefreshInv ==
  ASSUME DashboardInv, Refresh, attached'
  PROVE  DashboardInv'
<1> USE DEF DashboardInv, ClientType
<1>1. /\ newest' = newest + 1 /\ newest' \in 1..MaxReads
      /\ generation' = newest' /\ UNCHANGED <<snapshot, stored>>
      /\ reads' = [Aborted EXCEPT ![newest'] = Out]
  BY DashboardAssumption DEF Refresh
<1>2. /\ reads' \in [1..MaxReads -> ReadStates]
      /\ reads'[newest'] = Out
      /\ \A r \in 1..MaxReads : reads'[r] \in {reads[r], Failed, Out}
  BY <1>1, AbortedReads DEF ReadStates
<1>3. NothingInvented'
  <2>1. ASSUME NEW r \in 1..MaxReads, NEW v \in Versions, reads'[r] = Answered(v),
               v # NULL
        PROVE  v <= stored
    <3>1. CASE reads'[r] = reads[r]
      BY <1>1, <2>1, <3>1 DEF NothingInvented
    <3>2. CASE reads'[r] = Failed
      BY <2>1, <3>2, ReadsDiffer DEF Failed
    <3>3. QED BY <1>2, <2>1, <3>1, <3>2, ReadsDiffer
  <2>2. QED BY <1>1, <2>1 DEF NothingInvented
<1>4. NewestIsNewer'
  BY <1>2, ReadsDiffer DEF NewestIsNewer
<1>5. QED
  BY <1>1, <1>2, <1>3, <1>4 DEF OnlyNewestCounts

\* Off the page nothing counts.
LEMMA DetachInv ==
  ASSUME DashboardInv, Detach
  PROVE  DashboardInv'
<1> USE DEF DashboardInv, ClientType
<1>1. /\ attached' = FALSE /\ generation' = 0 /\ reads' = Aborted
      /\ UNCHANGED <<snapshot, newest, stored>>
  BY DEF Detach, Cancel, serverVars
<1>2. NothingInvented'
  BY <1>1, AbortedReads, ReadsDiffer DEF NothingInvented, Failed
<1>3. QED
  BY <1>1, <1>2, AbortedReads DEF OnlyNewestCounts, NewestIsNewer

\* What an answered read is.
LEMMA AnsweredRead ==
  ASSUME DashboardInv, NEW r \in 1..MaxReads, reads[r].stage = "answered"
  PROVE  \/ reads[r] = Failed
         \/ /\ reads[r] # Failed
            /\ reads[r].version \in Versions /\ reads[r].version # NULL
            /\ reads[r] = Answered(reads[r].version)
            /\ reads[r].version <= stored
<1>1. reads[r] \in ReadStates
  BY DEF DashboardInv, ClientType
<1>2. reads[r] = Failed \/ \E v \in Versions : reads[r] = Answered(v)
  BY <1>1, ReadsDiffer DEF ReadStates
<1>3. QED
  BY <1>2, ReadsDiffer DEF DashboardInv, NothingInvented, Failed

\* What an answer does, given that it counts.
LEMMA CountingAnswer ==
  ASSUME DashboardInv, NEW r \in 1..MaxReads, Settle(r), r = generation
  PROVE  /\ attached /\ r = newest
         /\ snapshot # NULL => snapshot' # NULL /\ snapshot <= snapshot'
         /\ UNCHANGED snapshot \/ (snapshot' \in Versions /\ snapshot' # NULL /\ snapshot' <= stored)
         /\ view' \in Healthy => reads[r] = Answered(snapshot')
<1>1. attached /\ r = newest /\ newest > 0
  BY DEF DashboardInv, OnlyNewestCounts, ClientType
<1>2. reads[r].stage = "answered"
  BY DEF Settle
<1>3. CASE reads[r] = Failed
  BY <1>1, <1>3, AnsweredRead DEF Settle, Healthy, DashboardInv, ClientType, Versions
<1>4. CASE reads[r] # Failed
  <2>1. /\ reads[r].version \in Versions /\ reads[r].version # NULL
        /\ reads[r] = Answered(reads[r].version) /\ reads[r].version <= stored
    BY <1>2, <1>4, AnsweredRead
  <2>2. snapshot' = reads[r].version
    BY <1>4 DEF Settle
  <2>3. snapshot # NULL => snapshot <= snapshot'
    BY <1>1, <2>1, <2>2 DEF DashboardInv, NewestIsNewer
  <2>4. QED BY <1>1, <2>1, <2>2, <2>3
<1>5. QED BY <1>3, <1>4

LEMMA SettleInv ==
  ASSUME DashboardInv, NEW r \in 1..MaxReads, Settle(r)
  PROVE  DashboardInv'
<1> USE DEF DashboardInv, ClientType
<1>1. /\ reads' = [reads EXCEPT ![r] = Settled]
      /\ UNCHANGED <<attached, generation, newest, stored>>
  BY DEF Settle, serverVars
<1>2. /\ reads' \in [1..MaxReads -> ReadStates] /\ reads'[r] = Settled
      /\ \A q \in 1..MaxReads : reads'[q] \in {reads[q], Settled}
  BY <1>1 DEF ReadStates
<1>3. CASE r = generation
  <2>1. newest = r
    BY <1>3, CountingAnswer
  <2>2. NewestIsNewer'
    BY <1>1, <1>2, <2>1, ReadsDiffer DEF NewestIsNewer
  <2>3. NothingInvented' /\ snapshot' \in Versions \cup {NULL}
    BY <1>1, <1>2, <1>3, CountingAnswer, ReadsDiffer DEF NothingInvented
  <2>4. QED BY <1>1, <1>2, <2>2, <2>3 DEF OnlyNewestCounts
<1>4. CASE r # generation
  <2>1. UNCHANGED snapshot
    BY <1>4 DEF Settle
  <2>2. NewestIsNewer'
    BY <1>1, <1>2, <2>1, ReadsDiffer DEF NewestIsNewer
  <2>3. NothingInvented'
    BY <1>1, <1>2, <2>1, ReadsDiffer DEF NothingInvented
  <2>4. QED BY <1>1, <1>2, <2>1, <2>2, <2>3 DEF OnlyNewestCounts
<1>5. QED BY <1>3, <1>4

-----------------------------------------------------------------------------
(* The steps of the server and of others *)

\* A read is answered with what is stored when it is served.
LEMMA ServeInv ==
  ASSUME DashboardInv, Serve, backlog \in Seq(0..MaxReads)
  PROVE  DashboardInv'
<1> USE DEF DashboardInv, ClientType
<1> DEFINE r == Head(backlog)
<1>1. r \in 1..MaxReads
  BY DashboardAssumption DEF Serve, Stranger
<1>2. UNCHANGED <<attached, snapshot, generation, newest, stored>>
  BY DEF Serve, clientVars
<1>3. reads' = reads \/ \E answer \in Responses : reads' = [reads EXCEPT ![r] = answer]
  BY DEF Serve
<1>4. CASE reads' = reads
  BY <1>2, <1>4 DEF OnlyNewestCounts, NothingInvented, NewestIsNewer
<1>5. ASSUME NEW answer \in Responses, reads' = [reads EXCEPT ![r] = answer]
      PROVE  DashboardInv'
  <2>1. answer \in ReadStates
    BY DEF Responses, ReadStates
  <2>2. /\ reads' \in [1..MaxReads -> ReadStates]
        /\ \A q \in 1..MaxReads : reads'[q] \in {reads[q], Answered(stored), Failed}
    BY <1>1, <1>5, <2>1 DEF Responses
  <2>3. \A q \in 1..MaxReads, v \in Versions :
          reads'[q] = Answered(v) /\ v # NULL => reads[q] = Answered(v) \/ v = stored
    BY <2>2, ReadsDiffer DEF Failed
  <2>4. NothingInvented'
    BY <1>2, <2>3 DEF NothingInvented, Versions
  <2>5. NewestIsNewer'
    BY <1>2, <2>3 DEF NothingInvented, NewestIsNewer
  <2>6. QED BY <1>2, <2>2, <2>4, <2>5 DEF OnlyNewestCounts
<1>6. QED BY <1>3, <1>4, <1>5

LEMMA RestartInv ==
  ASSUME DashboardInv, Restart
  PROVE  DashboardInv'
<1> USE DEF DashboardInv, ClientType
<1>1. /\ reads' = Aborted
      /\ UNCHANGED <<attached, snapshot, generation, newest, stored>>
  BY DEF Restart, clientVars
<1>2. NothingInvented'
  BY <1>1, AbortedReads, ReadsDiffer DEF NothingInvented, Failed
<1>3. NewestIsNewer'
  BY <1>1, AbortedReads, ReadsDiffer DEF NewestIsNewer, Failed
<1>4. QED
  BY <1>1, <1>2, <1>3, AbortedReads DEF OnlyNewestCounts

LEMMA StoreDataInv ==
  ASSUME DashboardInv, StoreData
  PROVE  DashboardInv'
  BY DashboardAssumption
  DEF DashboardInv, ClientType, StoreData, clientVars, OnlyNewestCounts, NothingInvented,
      NewestIsNewer, Versions

\* The backlog holds reads and strangers.
LEMMA BacklogStep ==
  ASSUME backlog \in Seq(0..MaxReads), newest \in 0..MaxReads,
         [DashboardNext]_dashboardVars
  PROVE  backlog' \in Seq(0..MaxReads)
<1>1. ASSUME Refresh PROVE backlog' \in Seq(0..MaxReads)
  <2>1. newest' \in 0..MaxReads /\ backlog' = Append(backlog, newest')
    BY <1>1, DashboardAssumption DEF Refresh
  <2>2. QED BY <2>1
<1>2. CASE Serve \/ DropStranger
  BY <1>2 DEF Serve, DropStranger, TimesOut
<1>3. CASE ConnectSilently
  <2>1. Stranger \in 0..MaxReads
    BY DashboardAssumption DEF Stranger
  <2>2. QED BY <1>3, <2>1 DEF ConnectSilently
<1>4. CASE Restart
  BY <1>4 DEF Restart
<1>5. CASE StoreData
  BY <1>5 DEF StoreData
<1>6. CASE SettleAny
  BY <1>6 DEF SettleAny, Settle, serverVars
<1>7. CASE Attach \/ PressRefresh
  BY <1>1, <1>7 DEF Attach, PressRefresh
<1>8. CASE Detach
  BY <1>8 DEF Detach, serverVars
<1>9. CASE UNCHANGED dashboardVars
  BY <1>9 DEF dashboardVars, serverVars
<1>10. QED
  BY <1>2, <1>3, <1>4, <1>5, <1>6, <1>7, <1>8, <1>9 DEF DashboardNext

-----------------------------------------------------------------------------
(* One step *)

Fenced ==
  /\ ~attached /\ ~attached' => UNCHANGED <<view, snapshot>>
  /\ snapshot # NULL => snapshot' # NULL /\ snapshot' >= snapshot
  /\ view \notin Healthy /\ view' \in Healthy =>
       reads[newest] = Answered(snapshot') /\ reads'[newest] = Settled

LEMMA QuietStep ==
  ASSUME DashboardInv, UNCHANGED <<view, snapshot>>
  PROVE  Fenced
  BY DEF Fenced, DashboardInv, ClientType, Versions

LEMMA StepFenced ==
  ASSUME DashboardInv, backlog \in Seq(0..MaxReads), [DashboardNext]_dashboardVars
  PROVE  DashboardInv' /\ Fenced
<1>1. CASE Attach
  <2>1. attached' /\ UNCHANGED snapshot /\ view' \notin Healthy
    BY <1>1 DEF Attach, Refresh, Healthy
  <2>2. Fenced
    BY <2>1 DEF Fenced, DashboardInv, ClientType, Versions
  <2>3. QED BY <1>1, <2>1, <2>2, RefreshInv DEF Attach
<1>2. CASE PressRefresh
  <2>1. attached' /\ UNCHANGED snapshot /\ view' \notin Healthy
    BY <1>2 DEF PressRefresh, Refresh, Healthy
  <2>2. Fenced
    BY <2>1 DEF Fenced, DashboardInv, ClientType, Versions
  <2>3. QED BY <1>2, <2>1, <2>2, RefreshInv DEF PressRefresh
<1>3. CASE Detach
  BY <1>3, DetachInv, QuietStep DEF Detach
<1>4. ASSUME NEW r \in 1..MaxReads, Settle(r) PROVE DashboardInv' /\ Fenced
  <2>1. CASE r # generation
    BY <1>4, <2>1, SettleInv, QuietStep DEF Settle
  <2>2. CASE r = generation
    <3>1. attached /\ r = newest /\ reads'[r] = Settled
      BY <1>4, <2>2, CountingAnswer DEF Settle, DashboardInv, ClientType
    <3>2. snapshot # NULL => snapshot' # NULL /\ snapshot' >= snapshot
      BY <1>4, <2>2, CountingAnswer DEF DashboardInv, ClientType, Versions
    <3>3. QED
      BY <1>4, <2>2, <3>1, <3>2, CountingAnswer, SettleInv DEF Fenced
  <2>3. QED BY <2>1, <2>2
<1>5. CASE Serve
  BY <1>5, ServeInv, QuietStep DEF Serve, clientVars
<1>6. CASE Restart
  BY <1>6, RestartInv, QuietStep DEF Restart, clientVars
<1>7. CASE StoreData
  BY <1>7, StoreDataInv, QuietStep DEF StoreData, clientVars
<1>8. CASE DropStranger \/ ConnectSilently \/ UNCHANGED dashboardVars
  <2>1. UNCHANGED <<clientVars, newest, reads, stored>>
    BY <1>8 DEF DropStranger, ConnectSilently, dashboardVars, serverVars
  <2>2. QED
    BY <2>1, QuietStep
    DEF clientVars, DashboardInv, ClientType, OnlyNewestCounts, NothingInvented, NewestIsNewer
<1>9. QED
  BY <1>1, <1>2, <1>3, <1>4, <1>5, <1>6, <1>7, <1>8 DEF DashboardNext, SettleAny

\* The client's part and the server's.
PageInv ==
  /\ DashboardInv
  /\ backlog \in Seq(0..MaxReads)
  /\ view \in Views
  /\ strangers \in 0..MaxStrangers /\ restarts \in 0..MaxRestarts

LEMMA PageInit_Inv == DashboardInit => PageInv
  BY DashboardInit_Inv, DashboardAssumption DEF DashboardInit, PageInv, Views

LEMMA CountersStep ==
  ASSUME view \in Views, strangers \in 0..MaxStrangers, restarts \in 0..MaxRestarts,
         [DashboardNext]_dashboardVars
  PROVE  view' \in Views /\ strangers' \in 0..MaxStrangers /\ restarts' \in 0..MaxRestarts
<1> USE DashboardAssumption
<1>1. CASE Attach \/ PressRefresh
  BY <1>1 DEF Attach, PressRefresh, Refresh, Views
<1>2. CASE Detach \/ Serve \/ DropStranger \/ StoreData
  BY <1>2 DEF Detach, Serve, DropStranger, StoreData, clientVars, serverVars
<1>3. CASE SettleAny
  BY <1>3 DEF SettleAny, Settle, serverVars, Views
<1>4. CASE ConnectSilently \/ Restart
  BY <1>4 DEF ConnectSilently, Restart, clientVars
<1>5. CASE UNCHANGED dashboardVars
  BY <1>5 DEF dashboardVars, clientVars, serverVars
<1>6. QED
  BY <1>1, <1>2, <1>3, <1>4, <1>5 DEF DashboardNext

LEMMA PageStep ==
  ASSUME PageInv, [DashboardNext]_dashboardVars
  PROVE  PageInv' /\ Fenced
  BY StepFenced, BacklogStep, CountersStep DEF PageInv, DashboardInv, ClientType

LEMMA PageInvariant == DashboardSpec => []PageInv
<1>1. DashboardInit => PageInv
  BY PageInit_Inv
<1>2. PageInv /\ [DashboardNext]_dashboardVars => PageInv'
  BY PageStep
<1>3. QED
  BY <1>1, <1>2, PTL DEF DashboardSpec

\* No order of answers, removals and restarts makes DashboardStore show older data,
\* move while it is off the page, or turn healthy by another answer than the newest.
THEOREM DashboardIsFenced == DashboardSpec => LateAnswersAreFenced
<1>1. PageInv /\ [DashboardNext]_dashboardVars => [Fenced]_dashboardVars
  BY PageStep
<1>2. QED
  BY <1>1, PageInvariant, PTL DEF DashboardSpec, LateAnswersAreFenced, Fenced

-----------------------------------------------------------------------------
(***************************************************************************)
(* The specification the edges are checked in runs each of them.  Where    *)
(* the reading does not act it is over from the start, so its part of the  *)
(* invariant is established for both ways to begin.                        *)
(***************************************************************************)

\* Whoever acts, each edge takes a step of its own or none.
LEMMA JointStep ==
  ASSUME [Next]_vars
  PROVE  /\ [ReadingNext]_readingVars
         /\ [RequestNext]_requestVars
         /\ [DashboardNext]_dashboardVars
         /\ UNCHANGED acting
  BY DEF Next, vars

\* A behaviour of the joint specification is one of the request and of the dashboard,
\* and one of the reading if that is what acts: what is proved of them holds in it.
THEOREM JointRunsTheEdges ==
  Spec => RequestSpec /\ DashboardSpec /\ (acting = "reading" => ReadingSpec)
<1>1. Init => /\ RequestInit /\ DashboardInit
              /\ acting = "reading" => ReadingInit
  BY DEF Init
<1>2. [Next]_vars => /\ [ReadingNext]_readingVars
                     /\ [RequestNext]_requestVars
                     /\ [DashboardNext]_dashboardVars
  BY JointStep
<1>3. QED
  BY <1>1, <1>2, PTL DEF Spec, RequestSpec, DashboardSpec, ReadingSpec

\* A read that is over satisfies what a read that begins does.
LEMMA OverInv ==
  ASSUME ReadingOver
  PROVE  ReaderInv /\ ShapeInv
<1>1. content \in Seq(Items) /\ content = <<>> /\ pages = <<>> /\ Len(<<>>) = 0
  BY EmptySeq DEF ReadingOver
<1>2. Listing(pages)
  BY <1>1, EmptySeq DEF Listing, IsTuple
<1>3. ToSet(content) = {} /\ ToSet(pages) = {}
  BY <1>1 DEF ToSet
<1>4. /\ phase = "refused" /\ at.page = 1 /\ at \in [page : Nat, entry : Nat]
      /\ result.complete \in BOOLEAN /\ result.issues \subseteq Issues
  BY DEF ReadingOver, Start, Nothing
<1>5. ReaderInv
  BY <1>1, <1>2, <1>4 DEF ReaderInv, CompleteMeansWhole, Done
<1>6. ShapeInv
  <2>1. /\ adapter = "any" /\ honest \in BOOLEAN /\ edits = 0
        /\ MaxPages \in Nat /\ MaxEdits \in Nat
    BY PageAssumption DEF ReadingOver, PageAssumption
  <2>2. Len(pages) = 0
    BY <1>1
  <2>3. ToSet(content) \subseteq Items /\ \A page \in ToSet(pages) : Constructed(page)
    BY <1>3
  <2>4. QED BY <1>4, <2>1, <2>2, <2>3 DEF ShapeInv, ReadingTypeOK
<1>7. QED
  BY <1>5, <1>6

LEMMA RequestInvariant == RequestSpec => []RequestInv
<1>1. RequestInit => RequestInv
  BY RequestInit_Inv
<1>2. RequestInv /\ [RequestNext]_requestVars => RequestInv'
  BY StepRefines
<1>3. QED
  BY <1>1, <1>2, PTL DEF RequestSpec

\* Reads, requests and the dashboard keep their types.
THEOREM EdgesTypeCorrect == Spec => []TypeOK
<1>1. Init => ReaderInv /\ ShapeInv
  BY OverInv, ReaderInit, ShapeInit DEF Init
<1>2. ReaderInv /\ ShapeInv /\ [Next]_vars => ReaderInv' /\ ShapeInv'
  BY JointStep, ReaderStep, ShapeKept, PageAssumption
<1>3. ShapeInv /\ RequestInv /\ PageInv => TypeOK
  <2>1. PageInv => DashboardTypeOK
    BY DEF PageInv, DashboardInv, ClientType, OnlyNewestCounts, ReadStates, DashboardTypeOK
  <2>2. QED
    BY <2>1 DEF TypeOK, ShapeInv, RequestInv
<1>4. QED
  BY <1>1, <1>2, <1>3, JointRunsTheEdges, RequestInvariant, PageInvariant, PTL DEF Spec
=============================================================================
