----------------------------- MODULE AppStaging -----------------------------
(***************************************************************************)
(* Staging the App for the Home Assistant devcontainer                     *)
(* (tools/stage_ha_local_app.py): the files of the source tree are copied  *)
(* into a directory of their own; a manifest records which files of that   *)
(* directory belong to the tool.  The source tree changes between two      *)
(* runs, what was a file there may be a directory next time, a run may be  *)
(* interrupted anywhere, and a user may put files into the directory and   *)
(* take files and directories away.                                        *)
(***************************************************************************)
EXTENDS Integers, FiniteSets

CONSTANTS
  StageFiles,   \* paths below the target directory, of files and directories
  Above         \* path -> the paths of the directories it lies in

ASSUME AboveAssumption ==
  /\ Above \in [StageFiles -> SUBSET StageFiles]
  /\ \A f \in StageFiles : f \notin Above[f]
  /\ \A f \in StageFiles : \A d, e \in Above[f] :
       Above[d] \subseteq Above[f] /\ (d = e \/ d \in Above[e] \/ e \in Above[d])

VARIABLES
  manifest,   \* "absent", "written", or "torn": not written to its end
  managed,    \* the paths in a manifest that is written
  ours,       \* files in the directory that the tool wrote
  theirs,     \* files in the directory that somebody else wrote
  dirs,       \* directories in the directory
  alone,      \* history: did nobody else touch it?
  stage,      \* what the run does next; "idle" when none is active
  desired,    \* the run's source tree
  previous,   \* the paths the run found in the manifest
  left,       \* paths the current loop still has to handle
  climb       \* parents of a stale path that may still be removed

disk == <<ours, theirs, dirs>>

stagingVars ==
  <<manifest, managed, disk, alone, stage, desired, previous, left, climb>>

Present == ours \cup theirs

\* No path is a file for one of them and a directory for another.
Fits(paths) == \A f \in paths : Above[f] \cap paths = {}

\* _desired_files: regular files only, so none lies below another.
SourceTrees == {tree \in SUBSET StageFiles : tree # {} /\ Fits(tree)}

DirsOf(files) == UNION {Above[f] : f \in files}

StagingInit ==
  /\ manifest = "absent" /\ managed = {}
  /\ ours = {} /\ theirs \in SourceTrees \cup {{}} /\ dirs = DirsOf(theirs)
  /\ alone = (theirs = {})
  /\ stage = "idle" /\ desired = {} /\ previous = {} /\ left = {} /\ climb = {}

\* _managed_files: a directory without a manifest must be empty.
ManifestAccepted ==
  /\ manifest # "torn"
  /\ manifest = "absent" => Present \cup dirs = {}

\* _ensure_no_symlink_parents: no file stands where a directory is needed.
ParentsClear(f) == Above[f] \cap Present = {}

\* _validate_managed_paths: new paths must not be there already, not even as a
\* directory.
Admitted(tree) ==
  /\ ManifestAccepted
  /\ \A f \in managed \cup tree : ParentsClear(f)
  /\ (tree \ managed) \cap (Present \cup dirs) = {}

BeginStage(tree) ==
  /\ stage = "idle" /\ Admitted(tree)
  /\ stage' = "union"
  /\ desired' = tree /\ previous' = managed /\ left' = {}
  /\ UNCHANGED <<manifest, managed, disk, alone, climb>>

\* Path.write_text empties the file before it writes.
EmptyManifest ==
  /\ stage \in {"union", "final"} /\ manifest # "torn"
  /\ manifest' = "torn" /\ managed' = {}
  /\ UNCHANGED <<disk, alone, stage, desired, previous, left, climb>>

\* Fault: the manifest names the new files only.
NewOnly == desired

\* "Record the union first so an interrupted stage can be safely resumed."
Union == previous \cup desired

Stale == previous \ desired

WriteManifest(paths) ==
  /\ manifest = "torn"
  /\ manifest' = "written" /\ managed' = paths

WriteUnion ==
  /\ stage = "union"
  /\ WriteManifest(Union)
  /\ stage' = "remove" /\ left' = Stale
  /\ UNCHANGED <<disk, alone, desired, previous, climb>>

Deepest(paths) ==
  {f \in paths : \A g \in paths : Cardinality(Above[g]) <= Cardinality(Above[f])}

\* What the loop over the stale files can pass without raising.
Removable(f) == f \notin dirs

\* _remove_stale_files.
RemoveStale ==
  /\ stage = "remove"
  /\ \E f \in Deepest(left) :
       /\ Removable(f)
       /\ left' = left \ {f}
       /\ ours' = ours \ {f} /\ theirs' = theirs \ {f}
  /\ UNCHANGED <<manifest, managed, dirs, alone, stage, desired, previous, climb>>

BeginWriting ==
  /\ stage = "remove" /\ left = {}
  /\ stage' = "write" /\ left' = desired
  /\ UNCHANGED <<manifest, managed, disk, alone, desired, previous, climb>>

\* What mkdir and write_bytes can do without raising.
Writable(f) == f \notin dirs /\ ParentsClear(f)

\* _write_desired_files: a file and the directories it needs.
WriteDesired ==
  /\ stage = "write"
  /\ \E f \in left :
       /\ Writable(f)
       /\ left' = left \ {f}
       /\ ours' = ours \cup {f} /\ theirs' = theirs \ {f}
       /\ dirs' = dirs \cup Above[f]
  /\ UNCHANGED <<manifest, managed, alone, stage, desired, previous, climb>>

EndWriting ==
  /\ stage = "write" /\ left = {}
  /\ stage' = "tidy" /\ left' = Stale
  /\ UNCHANGED <<manifest, managed, disk, alone, desired, previous, climb>>

\* _remove_empty_parents: from each stale path upwards, until rmdir refuses.
NextStale ==
  /\ stage = "tidy" /\ climb = {}
  /\ \E f \in left : left' = left \ {f} /\ climb' = Above[f]
  /\ UNCHANGED <<manifest, managed, disk, alone, stage, desired, previous>>

Removes(d) == d \in dirs /\ \A p \in Present \cup dirs : d \notin Above[p]

RemoveEmptyParent ==
  /\ stage = "tidy"
  /\ \E d \in Deepest(climb) :
       /\ dirs' = IF Removes(d) THEN dirs \ {d} ELSE dirs
       /\ climb' = IF Removes(d) THEN climb \ {d} ELSE {}
  /\ UNCHANGED <<manifest, managed, ours, theirs, alone, stage, desired, previous, left>>

EndTidying ==
  /\ stage = "tidy" /\ left = {} /\ climb = {}
  /\ stage' = "final"
  /\ UNCHANGED <<manifest, managed, disk, alone, desired, previous, left, climb>>

Forget ==
  stage' = "idle" /\ desired' = {} /\ previous' = {} /\ left' = {} /\ climb' = {}

WriteFinal ==
  /\ stage = "final"
  /\ WriteManifest(desired)
  /\ Forget
  /\ UNCHANGED <<disk, alone>>

\* The run raises or dies.
InterruptStage ==
  /\ stage # "idle"
  /\ Forget
  /\ UNCHANGED <<manifest, managed, disk, alone>>

\* It dies when some of the directories of a file are made.
InterruptMkdir ==
  /\ stage = "write"
  /\ \E f \in left : \E d \in Above[f] :
       ParentsClear(f) /\ dirs' = dirs \cup Above[d] \cup {d}
  /\ Forget
  /\ UNCHANGED <<manifest, managed, ours, theirs, alone>>

\* Somebody else at work in the directory.
PutFile(f) ==
  /\ f \notin Present \cup dirs /\ ParentsClear(f)
  /\ theirs' = theirs \cup {f} /\ dirs' = dirs \cup Above[f]
  /\ alone' = FALSE
  /\ UNCHANGED <<manifest, managed, ours, stage, desired, previous, left, climb>>

\* A file, or a directory with what is in it.
Take(p) ==
  LET kept(paths) == {q \in paths : q # p /\ p \notin Above[q]} IN
  /\ p \in Present \cup dirs
  /\ ours' = kept(ours) /\ theirs' = kept(theirs) /\ dirs' = kept(dirs)
  /\ alone' = FALSE
  /\ UNCHANGED <<manifest, managed, stage, desired, previous, left, climb>>

\* The way past a manifest that no run accepts.
ClearDirectory ==
  /\ stage = "idle" /\ manifest # "absent"
  /\ manifest' = "absent" /\ managed' = {}
  /\ ours' = {} /\ theirs' = {} /\ dirs' = {} /\ alone' = TRUE
  /\ UNCHANGED <<stage, desired, previous, left, climb>>

StagingNext ==
  \/ \E tree \in SourceTrees : BeginStage(tree)
  \/ EmptyManifest \/ WriteUnion \/ RemoveStale \/ BeginWriting
  \/ WriteDesired \/ EndWriting \/ NextStale \/ RemoveEmptyParent \/ EndTidying
  \/ WriteFinal \/ InterruptStage \/ InterruptMkdir
  \/ \E p \in StageFiles : PutFile(p) \/ Take(p)
  \/ ClearDirectory

StagingSpec == StagingInit /\ [][StagingNext]_stagingVars

-----------------------------------------------------------------------------
(* Properties *)

\* With the shape of a file system: what lies in a directory has one to lie in.
StagingTypeOK ==
  /\ manifest \in {"absent", "written", "torn"}
  /\ managed \subseteq StageFiles /\ (manifest # "written" => managed = {})
  /\ ours \subseteq StageFiles /\ theirs \subseteq StageFiles /\ ours \cap theirs = {}
  /\ dirs \subseteq StageFiles /\ dirs \cap Present = {}
  /\ DirsOf(Present \cup dirs) \subseteq dirs
  /\ alone \in BOOLEAN
  /\ stage \in {"idle", "union", "remove", "write", "tidy", "final"}
  /\ desired \in SourceTrees \cup {{}} /\ previous \subseteq StageFiles
  /\ left \subseteq StageFiles /\ climb \subseteq StageFiles

\* Nothing turns from a file into a directory or back, and no name is taken by a
\* directory that an interrupted run left.
KeepsKinds(tree) == Fits(managed \cup tree) /\ (tree \ managed) \cap dirs = {}

\* What is left of the loops does not raise.
Unhindered ==
  \A f \in left : /\ stage = "remove" => Removable(f)
                  /\ stage = "write"  => Writable(f)

\* Whatever a run was interrupted in, short of writing the manifest, the manifest
\* still names every file the tool has left behind.  So in a directory that nobody
\* else touches the next run is admitted for every source tree that keeps the kinds
\* of the paths; and a run whose tree fits what it found gets to its end, or, when it
\* is interrupted, can be repeated.
StagingResumes ==
  manifest # "torn" =>
    /\ ours \subseteq managed
    /\ alone /\ stage = "idle" => \A tree \in SourceTrees : KeepsKinds(tree) => Admitted(tree)
    /\ alone /\ stage # "idle" /\ Fits(Union) => Admitted(desired) /\ Unhindered

\* What the comment on the union says: a run interrupted now, in a directory that
\* nobody else touches, can be repeated.
InterruptedStageResumes ==
  alone /\ stage # "idle" /\ manifest # "torn" => Admitted(desired)
=============================================================================
