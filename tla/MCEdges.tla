------------------------------ MODULE MCEdges ------------------------------
(***************************************************************************)
(* The edges of the system for TLC: reading a playlist, writing to a       *)
(* provider, and the dashboard.  They share nothing, so one of them acts   *)
(* in a behaviour, chosen at the start, and the others wait; the state     *)
(* spaces add up instead of multiplying.                                   *)
(*                                                                         *)
(* Playlists of up to seven items in pages of two, of which three may be   *)
(* read; any small answers of a provider that is wrong; and every sequence *)
(* of up to three small pages for the adapter of kind "any".               *)
(***************************************************************************)
EXTENDS PageReading, ProviderRequests, DashboardStore

VARIABLE acting

vars == <<readingVars, requestVars, dashboardVars, acting>>

\* A read that is over.
ReadingOver ==
  /\ adapter = "any" /\ honest = FALSE
  /\ content = <<>> /\ edits = 0 /\ asked = NULL /\ seen = {}
  /\ pages = <<>> /\ phase = "refused" /\ at = Start /\ result = Nothing

Init ==
  /\ acting \in {"reading", "request", "dashboard"}
  /\ IF acting = "reading" THEN ReadingInit ELSE ReadingOver
  /\ RequestInit /\ DashboardInit

Next ==
  /\ UNCHANGED acting
  /\ \/ /\ acting = "reading" /\ ReadingNext
        /\ UNCHANGED <<requestVars, dashboardVars>>
     \/ /\ acting = "request" /\ RequestNext
        /\ UNCHANGED <<readingVars, dashboardVars>>
     \/ /\ acting = "dashboard" /\ DashboardNext
        /\ UNCHANGED <<readingVars, requestVars>>

Spec == Init /\ [][Next]_vars /\ ReadingFairness /\ DashboardFairness

\* The types of all three.
TypeOK == ReadingTypeOK /\ RequestTypeOK /\ DashboardTypeOK

AllItems == <<"a", "b", "c", "d", "e", "f", "g">>

MCItems == ToSet(AllItems)

MCStrays == {"a", "b"}

MCPlaylists == {SubSeq(AllItems, 1, k) : k \in 0..7}

Entry(i, p) == [id |-> i, position |-> p, track |-> "a"]

MCEntries ==
  {<<>>, <<Entry(0, 0)>>, <<Entry(1, 1)>>, <<Entry(0, 1)>>, <<Entry(0, 0), Entry(1, 1)>>}

MCAnyPages ==
  {p \in [entries : MCEntries, cursor : {NULL, 1}, next : {NULL, 1}, complete : BOOLEAN] :
     p.complete => p.next = NULL}
=============================================================================
