------------------------------ MODULE MCStores ------------------------------
(***************************************************************************)
(* The connection, authorization and plan stores, the backup of all        *)
(* stores and the staging of the App for TLC.  They share the clock and    *)
(* nothing else: no call reads or writes two of the stores, and a backup   *)
(* copies them as one file.  A behaviour of all of them is therefore one   *)
(* of each, interleaved, and it is enough to let one of them act in a      *)
(* behaviour, chosen at the start, and the others wait; the state spaces   *)
(* add up instead of multiplying.                                          *)
(***************************************************************************)
EXTENDS ProviderConnections, AuthorizationAttempts, CopyPlans, StoreBackup, AppStaging

VARIABLE acting

storeVars == <<connectionVars, attemptVars, planVars>>

vars == <<clock, storeVars, backupVars, stagingVars, acting>>

Init ==
  /\ clock = 0
  /\ acting \in {"connections", "attempts", "plans", "backups", "staging"}
  /\ ConnectionsInit /\ AttemptsInit /\ PlansInit /\ BackupsInit /\ StagingInit
  /\ acting # "backups" => destination = NULL
  /\ acting # "staging" => theirs = {}

Next ==
  /\ UNCHANGED acting
  /\ \/ /\ acting \in {"connections", "attempts", "plans"} /\ PassTime
        /\ UNCHANGED <<storeVars, backupVars, stagingVars>>
     \/ /\ acting = "connections" /\ ConnectionsNext
        /\ UNCHANGED <<clock, attemptVars, planVars, backupVars, stagingVars>>
     \/ /\ acting = "attempts" /\ AttemptsNext
        /\ UNCHANGED <<clock, connectionVars, planVars, backupVars, stagingVars>>
     \/ /\ acting = "plans" /\ PlansNext
        /\ UNCHANGED <<clock, connectionVars, attemptVars, backupVars, stagingVars>>
     \/ /\ acting = "backups" /\ BackupsNext
        /\ UNCHANGED <<clock, storeVars, stagingVars>>
     \/ /\ acting = "staging" /\ StagingNext
        /\ UNCHANGED <<clock, storeVars, backupVars>>

Spec == Init /\ [][Next]_vars

\* The types of all of them.
TypeOK ==
  ConnectionsTypeOK /\ AttemptsTypeOK /\ PlansTypeOK /\ BackupsTypeOK /\ StagingTypeOK

MCSnapshots == {<<"ready">>, <<"ready", "ambiguous">>}

MCPaths == {"a", "a/b", "a/b/c", "x"}

\* Two levels of directories, each of which may be a file as well.
MCAbove ==
  [p \in MCPaths |-> IF p = "a/b" THEN {"a"} ELSE IF p = "a/b/c" THEN {"a", "a/b"} ELSE {}]

MCOffers == {NULL, {"create_playlist"}, {"create_playlist", "add_playlist_entries"}}
=============================================================================
