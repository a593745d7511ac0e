--------------------------- MODULE SessionCreation ---------------------------
(***************************************************************************)
(* Journalled creation of Sessions under one parent node: the creation     *)
(* record of the workspace catalog, the staging directory, its rename to   *)
(* the date bucket, the publication of the node, and the abort that moves  *)
(* the prepared directory to quarantine.                                   *)
(*                                                                         *)
(* SQLite commits are durable.  A rename is durable once its directories   *)
(* are fsynced: the process may die and leave it in the page cache, and a  *)
(* power loss may then undo it.                                            *)
(***************************************************************************)
EXTENDS Naturals

CONSTANTS
    Sessions,       \* one creation key and one frozen session_id each
    Forks,          \* context_fork creations: recovered after a restart, while
                    \* the random key of a normal creation is never used again
    MaxRevision,    \* bound on the changes of the parent node
    MaxCrashes,     \* bound on process deaths
    MaxPowerLosses, \* bound on power losses
    MaxFaults       \* bound on I/O errors of a directory fsync and on fork
                    \* materialisations that fail

ASSUME ForksAssumption == Forks \subseteq Sessions
ASSUME BoundAssumption ==
    {MaxRevision, MaxCrashes, MaxPowerLosses, MaxFaults} \subseteq Nat

VARIABLES
    parent,     \* state and revision of the parent node
    record,     \* state of each creation record, with the frozen revision
    node,       \* Sessions with a published node
    dir,        \* where the directory of each Session is, whether it is
                \* complete, whether its last rename is durable, and where it
                \* came from
    orphan,     \* Sessions with a directory in quarantine
    capture,    \* the capture of a fork's source context
    pc,         \* where the coroutine that holds the key lock is
    crashes, losses, faults

bounds == <<crashes, losses, faults>>
fork == <<orphan, capture>>
vars == <<parent, record, node, dir, fork, pc, bounds>>

RecordStates == {"none", "preparing", "published", "aborted"}
Places == {"none", "staging", "bucket"}
CaptureStates == {"none", "captured", "aborted"}
Pcs == {"idle", "stage", "fill", "ready", "rename", "sync", "publish",
        "failed", "isolate", "barrier", "abort"}

Init ==
    /\ parent = [state |-> "active", revision |-> 0]
    /\ record = [s \in Sessions |-> [state |-> "none", revision |-> 0]]
    /\ node = {}
    /\ dir = [s \in Sessions |->
                [place |-> "none", complete |-> FALSE, synced |-> TRUE, from |-> "none"]]
    /\ orphan = {}
    /\ capture = [s \in Sessions |-> "none"]
    /\ pc = [s \in Sessions |-> "idle"]
    /\ crashes = 0 /\ losses = 0 /\ faults = 0

Goto(s, l) == pc' = [pc EXCEPT ![s] = l]

-----------------------------------------------------------------------------
(* prepare *)

(* create_or_get_creation_record for a new key: the parent is active and   *)
(* its revision is frozen.                                                 *)
CreateRecord(s) ==
    /\ pc[s] = "idle" /\ record[s].state = "none"
    /\ parent.state = "active"
    /\ record' = [record EXCEPT ![s] = [state |-> "preparing", revision |-> parent.revision]]
    /\ Goto(s, "stage")
    /\ UNCHANGED <<parent, node, dir, fork, bounds>>

(* Mutant: the recovery takes up published forks too.                      *)
ResumePublished(s) ==
    /\ s \in Forks
    /\ pc[s] = "idle" /\ record[s].state \in {"preparing", "published"}
    /\ Goto(s, "ready")
    /\ UNCHANGED <<parent, record, node, dir, fork, bounds>>

(* The startup recovery of a fork: a capture that was aborted only has its *)
(* cleanup finished, one that exists owns the prepared directory, and      *)
(* without one prepare is entered again with the same key.                 *)
ResumeRecord(s) ==
    /\ s \in Forks
    /\ pc[s] = "idle" /\ record[s].state = "preparing"
    /\ Goto(s, CASE capture[s] = "aborted"  -> "isolate"
                 [] capture[s] = "captured" -> "ready"
                 [] OTHER                   -> "stage")
    /\ UNCHANGED <<parent, record, node, dir, fork, bounds>>

(* _prepare_staging: mkdir, then the files and their barrier.              *)
MakeStaging(s) ==
    /\ pc[s] = "stage" /\ dir[s].place = "none"
    /\ dir' = [dir EXCEPT ![s] =
                 [place |-> "staging", complete |-> FALSE, synced |-> TRUE, from |-> "none"]]
    /\ Goto(s, "fill")
    /\ UNCHANGED <<parent, record, node, fork, bounds>>

FillStaging(s) ==
    /\ pc[s] = "fill"
    /\ dir' = [dir EXCEPT ![s].complete = TRUE]
    /\ Goto(s, "ready")
    /\ UNCHANGED <<parent, record, node, fork, bounds>>

(* Mutant: a directory that is there counts as prepared.                   *)
ReuseUnverified(s) ==
    /\ pc[s] = "stage" /\ dir[s].place # "none"
    /\ Goto(s, "ready")
    /\ UNCHANGED <<parent, record, node, dir, fork, bounds>>

(* A staging or bucket directory of an earlier attempt is verified file by *)
(* file and used, or refused.                                              *)
ReusePrepared(s) ==
    /\ pc[s] = "stage" /\ dir[s].place # "none"
    /\ Goto(s, IF dir[s].complete THEN "ready" ELSE "failed")
    /\ UNCHANGED <<parent, record, node, dir, fork, bounds>>

(* A fork captures its source and materialises it in the directory.        *)
Materialize(s) ==
    /\ pc[s] = "ready" /\ s \in Forks
    /\ capture' = [capture EXCEPT ![s] = "captured"]
    /\ Goto(s, "rename")
    /\ UNCHANGED <<parent, record, node, dir, orphan, bounds>>

MaterializeFails(s) ==
    /\ pc[s] = "ready" /\ s \in Forks /\ faults < MaxFaults
    /\ faults' = faults + 1
    /\ \E c \in {capture[s], "captured"} : capture' = [capture EXCEPT ![s] = c]
    /\ Goto(s, "failed")
    /\ UNCHANGED <<parent, record, node, dir, orphan, crashes, losses>>

-----------------------------------------------------------------------------
(* publish_prepared *)

MayRename(s) == IF s \in Forks THEN pc[s] = "rename" ELSE pc[s] = "ready"

RenameToBucket(s) ==
    /\ MayRename(s) /\ dir[s].place = "staging"
    /\ dir' = [dir EXCEPT ![s] =
                 [@ EXCEPT !.place = "bucket", !.synced = FALSE, !.from = "staging"]]
    /\ Goto(s, "sync")
    /\ UNCHANGED <<parent, record, node, fork, bounds>>

SyncRename(s) ==
    /\ pc[s] = "sync"
    /\ dir' = [dir EXCEPT ![s].synced = TRUE]
    /\ Goto(s, "publish")
    /\ UNCHANGED <<parent, record, node, fork, bounds>>

(* An OSError of the fsync: a normal creation passes it on, a fork aborts. *)
SyncFault(s) ==
    /\ pc[s] = "sync" /\ faults < MaxFaults
    /\ faults' = faults + 1
    /\ Goto(s, IF s \in Forks THEN "failed" ELSE "idle")
    /\ UNCHANGED <<parent, record, node, dir, fork, crashes, losses>>

(* The directory is in the bucket already: no rename and no barrier.       *)
SkipRename(s) ==
    /\ MayRename(s) /\ dir[s].place = "bucket"
    /\ Goto(s, "publish")
    /\ UNCHANGED <<parent, record, node, dir, fork, bounds>>

(* publish_creation_record: the CAS on the parent, or the error that keeps *)
(* record and directory.                                                   *)
ParentUnchanged(s) == parent = [state |-> "active", revision |-> record[s].revision]

Publish(s) ==
    /\ pc[s] = "publish"
    /\ \/ /\ ParentUnchanged(s)
          /\ node' = node \cup {s}
          /\ record' = [record EXCEPT ![s].state = "published"]
          /\ Goto(s, "idle")
       \/ /\ ~ParentUnchanged(s)
          /\ Goto(s, "failed")
          /\ UNCHANGED <<node, record>>
    /\ UNCHANGED <<parent, dir, fork, bounds>>

-----------------------------------------------------------------------------
(* _abort_if_unpublished and abort_prepared: the capture of a fork, then   *)
(* the quarantine, then the record                                         *)

AbortCapture(s) ==
    /\ pc[s] = "failed"
    /\ capture' = [capture EXCEPT ![s] = IF @ = "captured" THEN "aborted" ELSE @]
    /\ Goto(s, "isolate")
    /\ UNCHANGED <<parent, record, node, dir, orphan, bounds>>

(* Mutant: an abort whose directory has gone is an error.                  *)
QuarantineNeedsDirectory(s) ==
    /\ pc[s] = "isolate"
    /\ \/ /\ dir[s].place = "none"
          /\ Goto(s, "idle")
          /\ UNCHANGED <<dir, orphan>>
       \/ /\ dir[s].place # "none" /\ s \notin orphan
          /\ dir' = [dir EXCEPT ![s].place = "none"]
          /\ orphan' = orphan \cup {s}
          /\ Goto(s, "barrier")
    /\ UNCHANGED <<parent, record, node, capture, bounds>>

(* A quarantine that is occupied is not overwritten: the abort is refused. *)
Quarantine(s) ==
    /\ pc[s] = "isolate"
    /\ \/ /\ dir[s].place = "none"
          /\ Goto(s, "abort")
          /\ UNCHANGED <<dir, orphan>>
       \/ /\ dir[s].place # "none" /\ s \notin orphan
          /\ dir' = [dir EXCEPT ![s] =
                       [@ EXCEPT !.place = "none", !.synced = FALSE, !.from = dir[s].place]]
          /\ orphan' = orphan \cup {s}
          /\ Goto(s, "barrier")
       \/ /\ dir[s].place # "none" /\ s \in orphan
          /\ Goto(s, "idle")
          /\ UNCHANGED <<dir, orphan>>
    /\ UNCHANGED <<parent, record, node, capture, bounds>>

SyncQuarantine(s) ==
    /\ pc[s] = "barrier"
    /\ dir' = [dir EXCEPT ![s].synced = TRUE]
    /\ Goto(s, "abort")
    /\ UNCHANGED <<parent, record, node, fork, bounds>>

AbortRecord(s) ==
    /\ pc[s] = "abort"
    /\ record' = [record EXCEPT ![s].state = "aborted"]
    /\ Goto(s, "idle")
    /\ UNCHANGED <<parent, node, dir, fork, bounds>>

-----------------------------------------------------------------------------
(* Environment: the parent is renamed, moved or deleted; the process dies; *)
(* the power fails and takes renames that were never fsynced with it.      *)

ChangeParent ==
    /\ parent.state = "active" /\ parent.revision < MaxRevision
    /\ \E st \in {"active", "deleting"} :
        parent' = [state |-> st, revision |-> parent.revision + 1]
    /\ UNCHANGED <<record, node, dir, fork, pc, bounds>>

ProcessDies ==
    /\ crashes < MaxCrashes
    /\ crashes' = crashes + 1
    /\ pc' = [s \in Sessions |-> "idle"]
    /\ UNCHANGED <<parent, record, node, dir, fork, losses, faults>>

PowerFails ==
    /\ losses < MaxPowerLosses
    /\ losses' = losses + 1
    /\ pc' = [s \in Sessions |-> "idle"]
    /\ \E undone \in SUBSET {s \in Sessions : ~dir[s].synced} :
        /\ dir' = [s \in Sessions |->
                     IF s \in undone THEN [dir[s] EXCEPT !.place = dir[s].from, !.synced = TRUE]
                     ELSE [dir[s] EXCEPT !.synced = TRUE]]
        /\ orphan' = orphan \ {s \in undone : dir[s].place = "none"}
    /\ UNCHANGED <<parent, record, node, capture, crashes, faults>>

Step(s) ==
    \/ MakeStaging(s) \/ FillStaging(s) \/ ReusePrepared(s) \/ Materialize(s)
    \/ RenameToBucket(s) \/ SyncRename(s) \/ SkipRename(s) \/ Publish(s)
    \/ AbortCapture(s) \/ Quarantine(s) \/ SyncQuarantine(s) \/ AbortRecord(s)

Next ==
    \/ \E s \in Sessions : CreateRecord(s) \/ ResumeRecord(s) \/ Step(s)
                            \/ SyncFault(s) \/ MaterializeFails(s)
    \/ ChangeParent \/ ProcessDies \/ PowerFails

Spec == Init /\ [][Next]_vars

(* A coroutine goes on, and the startup recovery takes up every fork.      *)
Fairness == \A s \in Sessions : WF_vars(Step(s)) /\ WF_vars(ResumeRecord(s))

FairSpec == Spec /\ Fairness

-----------------------------------------------------------------------------
(* Properties *)

TypeOK ==
    /\ parent \in [state : {"active", "deleting"}, revision : 0..MaxRevision]
    /\ record \in [Sessions -> [state : RecordStates, revision : 0..MaxRevision]]
    /\ node \subseteq Sessions
    /\ dir \in [Sessions -> [place : Places, complete : BOOLEAN,
                             synced : BOOLEAN, from : Places]]
    /\ orphan \subseteq Sessions /\ capture \in [Sessions -> CaptureStates]
    /\ pc \in [Sessions -> Pcs]
    /\ crashes \in 0..MaxCrashes /\ losses \in 0..MaxPowerLosses /\ faults \in 0..MaxFaults

(* Deaths of the process alone, or power losses alone.  After a death a    *)
(* retry trusts a rename it finds done and skips its barrier; a later      *)
(* power loss may then take the rename back.                               *)
OneKindOfFailure == crashes = 0 \/ losses = 0

(* A reader of the catalog sees no Session or a whole one: the directory   *)
(* of a published node is complete and, over failures of one kind, at its  *)
(* locator.                                                                *)
PublishedIsWhole ==
    \A s \in node :
        dir[s].complete /\ (OneKindOfFailure => dir[s].place = "bucket")

(* An aborted creation is never published and, over failures of one kind,  *)
(* leaves nothing at the locator or in staging.                            *)
AbortedIsIsolated ==
    \A s \in Sessions : record[s].state = "aborted" =>
        s \notin node /\ (OneKindOfFailure => dir[s].place = "none")

(* The state invariant: what is visible is whole, what was given up is out of *)
(* the way.                                                                *)
CreationInv ==
    /\ TypeOK
    /\ PublishedIsWhole
    /\ AbortedIsIsolated

(* A creation is decided once, whoever retries it: a published or aborted  *)
(* record never changes.                                                   *)
DecidedOnce ==
    [][\A s \in Sessions :
        record[s].state \in {"published", "aborted"} => record'[s] = record[s]]_vars

(* Every fork creation is eventually published or aborted, over crashes,   *)
(* power losses, I/O errors and changes of the parent, unless its abort is *)
(* refused because an earlier attempt already left a directory in          *)
(* quarantine.                                                             *)
ForksConverge ==
    \A s \in Forks :
        record[s].state = "preparing" ~>
            \/ record[s].state \in {"published", "aborted"}
            \/ s \in orphan /\ dir[s].place # "none"
=============================================================================
