------------------------ MODULE SessionCreationProofs ------------------------
(***************************************************************************)
(* What is published is whole, what was given up is out of the way, and a  *)
(* creation is decided once: for every set of Sessions and of forks, and   *)
(* any number of deaths, power losses, faults and changes of the parent.   *)
(*                                                                         *)
(* A power loss undoes what was renamed and never fsynced, so the argument *)
(* has to say where a creation may stand while its directory is in that    *)
(* state: that is what BarrierSound does.                                  *)
(***************************************************************************)
EXTENDS SessionCreation, TLAPS

(* Which renames can still be undone, and that what comes back at a        *)
(* locator is complete.                                                    *)
DirectorySound(s) ==
    /\ dir[s].place = "staging" => dir[s].synced
    /\ ~dir[s].synced =>
        \/ dir[s].place = "bucket" /\ dir[s].from = "staging"
        \/ dir[s].place = "none" /\ dir[s].from \in {"staging", "bucket"}
    /\ dir[s].place = "bucket" \/ (~dir[s].synced /\ dir[s].from = "bucket") => dir[s].complete

(* A capture owns a complete directory, and a fork is renamed only after   *)
(* its capture.                                                            *)
CaptureSound(s) ==
    /\ capture[s] = "captured" => dir[s].place # "none" /\ dir[s].complete
    /\ s \in Forks /\ capture[s] = "none" =>
        dir[s].place # "bucket" /\ (dir[s].synced \/ dir[s].from # "bucket")

(* A coroutine works on an undecided record only.                          *)
RecordSound(s) ==
    /\ pc[s] # "idle" => record[s].state = "preparing"
    /\ s \in node <=> record[s].state = "published"
    /\ record[s].state = "none" => dir[s].place = "none" /\ dir[s].synced /\ capture[s] = "none"

(* What the coroutine relies on where it is.                               *)
PlaceSound(s) ==
    /\ pc[s] \in {"stage", "fill"} => capture[s] = "none"
    /\ pc[s] = "stage" /\ s \notin Forks => dir[s].place = "none"
    /\ pc[s] = "fill" => dir[s].place = "staging"
    /\ pc[s] \in {"ready", "rename"} => dir[s].place # "none" /\ dir[s].complete
    /\ pc[s] \in {"sync", "publish"} => dir[s].place = "bucket"
    /\ pc[s] \in {"rename", "sync", "publish"} /\ s \in Forks => capture[s] = "captured"
    /\ pc[s] = "failed" => dir[s].place # "none"
    /\ pc[s] \in {"isolate", "barrier", "abort"} => capture[s] # "captured"
    /\ pc[s] \in {"barrier", "abort"} => dir[s].place = "none"

(* Where a creation stands between a rename and its barrier.               *)
BeforeBarrier(s) ==
    \/ dir[s].place = "none" /\ pc[s] = "barrier"
    \/ /\ dir[s].place = "bucket"
       /\ \/ pc[s] \in {"sync", "failed", "isolate"}
          \/ /\ pc[s] = "idle" /\ record[s].state = "preparing"
             /\ s \notin Forks \/ capture[s] = "aborted"

(* While the process has not died, no decided creation has a rename that   *)
(* can be undone.                                                          *)
BarrierSound(s) == crashes = 0 /\ ~dir[s].synced => BeforeBarrier(s)

Visible(s) ==
    /\ record[s].state = "published" =>
        dir[s].complete /\ (OneKindOfFailure => dir[s].place = "bucket")
    /\ record[s].state = "aborted" => (OneKindOfFailure => dir[s].place = "none")

SessionSound(s) ==
    /\ DirectorySound(s) /\ CaptureSound(s) /\ RecordSound(s)
    /\ PlaceSound(s) /\ BarrierSound(s) /\ Visible(s)

CInv == TypeOK /\ \A s \in Sessions : SessionSound(s)

DirShape == [place : Places, complete : BOOLEAN, synced : BOOLEAN, from : Places]
RecordShape == [state : RecordStates, revision : 0..MaxRevision]

Limits ==
    /\ parent \in [state : {"active", "deleting"}, revision : 0..MaxRevision]
    /\ crashes \in 0..MaxCrashes /\ losses \in 0..MaxPowerLosses /\ faults \in 0..MaxFaults

Maps ==
    /\ record \in [Sessions -> RecordShape] /\ dir \in [Sessions -> DirShape]
    /\ capture \in [Sessions -> CaptureStates] /\ pc \in [Sessions -> Pcs]
    /\ node \subseteq Sessions /\ orphan \subseteq Sessions

USE DEF Places, RecordStates, CaptureStates, Pcs

LEMMA TypeParts == TypeOK <=> Limits /\ Maps
  BY DEF TypeOK, Limits, Maps, DirShape, RecordShape

LEMMA InitSound == Init => CInv
  BY BoundAssumption DEF Init, CInv, TypeOK, SessionSound, DirectorySound, CaptureSound,
     RecordSound, PlaceSound, BarrierSound, Visible

(* A step of one creation leaves the others alone.                         *)
Elsewhere(s) ==
    /\ \A q \in Sessions \ {s} :
        /\ record'[q] = record[q] /\ dir'[q] = dir[q]
        /\ capture'[q] = capture[q] /\ pc'[q] = pc[q]
        /\ q \in node' <=> q \in node
    /\ UNCHANGED <<crashes, losses>>

LEMMA OneSession ==
  ASSUME CInv, Limits', Maps', NEW s \in Sessions, Elsewhere(s), SessionSound(s)'
  PROVE  CInv'
<1>1. ASSUME NEW q \in Sessions \ {s}
      PROVE  SessionSound(q)'
  <2>1. SessionSound(q) /\ q \in Sessions
    BY DEF CInv
  <2>. QED  BY <2>1 DEF Elsewhere, SessionSound, DirectorySound, CaptureSound, RecordSound,
            PlaceSound, BarrierSound, BeforeBarrier, Visible, OneKindOfFailure
<1>2. TypeOK'
  BY DEF TypeOK, Limits, Maps, DirShape, RecordShape
<1>. QED  BY <1>1, <1>2 DEF CInv

(* What is known of a creation when it takes a step.                       *)
LEMMA Known ==
  ASSUME CInv, NEW s \in Sessions
  PROVE  /\ Limits /\ Maps /\ SessionSound(s)
         /\ dir[s] \in DirShape /\ record[s] \in RecordShape /\ capture[s] \in CaptureStates
  BY TypeParts DEF CInv, Maps

USE DEF Goto, fork, bounds

USE DEF SessionSound, DirectorySound, CaptureSound, RecordSound, PlaceSound, BarrierSound,
        BeforeBarrier, Visible, OneKindOfFailure

-----------------------------------------------------------------------------
(* Steps that move the coroutine, and perhaps the capture.                 *)
LEMMA Moving ==
  ASSUME CInv, NEW s \in Sessions, NEW l \in Pcs, NEW c \in CaptureStates,
         pc' = [pc EXCEPT ![s] = l], capture' = [capture EXCEPT ![s] = c],
         UNCHANGED <<record, node, dir, orphan, crashes, losses>>
  PROVE  Maps' /\ Elsewhere(s) /\ pc'[s] = l /\ capture'[s] = c
  BY Known DEF Maps, Elsewhere

LEMMA MovingSound ==
  ASSUME CInv, NEW s \in Sessions,
         \/ ResumeRecord(s) \/ ReusePrepared(s) \/ Materialize(s) \/ MaterializeFails(s)
         \/ SyncFault(s) \/ SkipRename(s) \/ AbortCapture(s)
  PROVE  CInv'
<1>. USE Known
<1>0. Limits'
  <2>1. faults' = faults \/ (faults < MaxFaults /\ faults' = faults + 1)
    BY DEF ResumeRecord, ReusePrepared, Materialize, MaterializeFails, SyncFault, SkipRename,
       AbortCapture
  <2>2. faults' \in 0..MaxFaults
    BY <2>1, BoundAssumption DEF Limits
  <2>3. UNCHANGED <<parent, crashes, losses>>
    BY DEF ResumeRecord, ReusePrepared, Materialize, MaterializeFails, SyncFault, SkipRename,
       AbortCapture
  <2>. QED  BY <2>2, <2>3 DEF Limits
<1>00. capture = [capture EXCEPT ![s] = capture[s]]
  BY DEF Maps
<1>1. CASE ResumeRecord(s)
  <2>1. PICK l \in {"isolate", "ready", "stage"} :
          /\ pc' = [pc EXCEPT ![s] = l]
          /\ l = "isolate" => capture[s] = "aborted"
          /\ l = "ready" => capture[s] = "captured"
          /\ l = "stage" => capture[s] = "none"
    BY <1>1 DEF ResumeRecord
  <2>2. Maps' /\ Elsewhere(s) /\ pc'[s] = l /\ capture' = capture
    BY <1>00, <1>1, <2>1, Moving, ZenonT(60) DEF ResumeRecord
  <2>3. SessionSound(s)'
    BY <1>1, <2>1, <2>2 DEF ResumeRecord
  <2>. QED  BY <1>0, <2>2, <2>3, OneSession
<1>2. CASE ReusePrepared(s)
  <2>1. PICK l \in {"ready", "failed"} :
          pc' = [pc EXCEPT ![s] = l] /\ (l = "ready" => dir[s].complete)
    BY <1>2 DEF ReusePrepared
  <2>2. Maps' /\ Elsewhere(s) /\ pc'[s] = l /\ capture' = capture
    BY <1>00, <1>2, <2>1, Moving DEF ReusePrepared
  <2>3. SessionSound(s)'
    BY <1>2, <2>1, <2>2 DEF ReusePrepared
  <2>. QED  BY <1>0, <2>2, <2>3, OneSession
<1>3. CASE Materialize(s)
  <2>1. Maps' /\ Elsewhere(s) /\ pc'[s] = "rename" /\ capture'[s] = "captured"
    BY <1>3, Moving DEF Materialize
  <2>2. SessionSound(s)'
    BY <1>3, <2>1 DEF Materialize
  <2>. QED  BY <1>0, <2>1, <2>2, OneSession
<1>4. CASE MaterializeFails(s)
  <2>1. PICK c \in CaptureStates :
          c \in {capture[s], "captured"} /\ capture' = [capture EXCEPT ![s] = c]
    BY <1>4, ZenonT(60) DEF MaterializeFails
  <2>2. Maps' /\ Elsewhere(s) /\ pc'[s] = "failed" /\ capture'[s] = c
    BY <1>4, <2>1, Moving DEF MaterializeFails
  <2>3. SessionSound(s)'
    BY <1>4, <2>1, <2>2 DEF MaterializeFails
  <2>. QED  BY <1>0, <2>2, <2>3, OneSession
<1>5. CASE SyncFault(s)
  <2>1. PICK l \in {"failed", "idle"} :
          pc' = [pc EXCEPT ![s] = l] /\ (l = "idle" => s \notin Forks)
    BY <1>5 DEF SyncFault
  <2>2. Maps' /\ Elsewhere(s) /\ pc'[s] = l /\ capture' = capture
    BY <1>00, <1>5, <2>1, Moving, ZenonT(60) DEF SyncFault
  <2>3. SessionSound(s)'
    BY <1>5, <2>1, <2>2 DEF SyncFault
  <2>. QED  BY <1>0, <2>2, <2>3, OneSession
<1>6. CASE SkipRename(s)
  <2>1. Maps' /\ Elsewhere(s) /\ pc'[s] = "publish" /\ capture' = capture
    BY <1>00, <1>6, Moving DEF SkipRename
  <2>2. SessionSound(s)'
    BY <1>6, <2>1 DEF SkipRename, MayRename
  <2>. QED  BY <1>0, <2>1, <2>2, OneSession
<1>7. CASE AbortCapture(s)
  <2>1. PICK c \in CaptureStates :
          /\ capture' = [capture EXCEPT ![s] = c] /\ c # "captured"
          /\ c = "none" <=> capture[s] = "none"
    BY <1>7 DEF AbortCapture, Maps
  <2>2. Maps' /\ Elsewhere(s) /\ pc'[s] = "isolate" /\ capture'[s] = c
    BY <1>7, <2>1, Moving, ZenonT(60) DEF AbortCapture
  <2>3. SessionSound(s)'
    BY <1>7, <2>1, <2>2 DEF AbortCapture
  <2>. QED  BY <1>0, <2>2, <2>3, OneSession
<1>. QED  BY <1>1, <1>2, <1>3, <1>4, <1>5, <1>6, <1>7

-----------------------------------------------------------------------------
(* Steps that decide a record.                                             *)
LEMMA RecordingSound ==
  ASSUME CInv, NEW s \in Sessions, CreateRecord(s) \/ Publish(s) \/ AbortRecord(s)
  PROVE  CInv'
<1>. USE Known
<1>0. Limits' /\ dir' = dir /\ capture' = capture
  BY DEF CreateRecord, Publish, AbortRecord, Limits
<1>1. CASE CreateRecord(s)
  <2>1. record' \in [Sessions -> RecordShape] /\ record'[s].state = "preparing"
    BY <1>1 DEF CreateRecord, Maps, Limits, RecordShape
  <2>2. Maps' /\ Elsewhere(s) /\ pc'[s] = "stage"
    BY <1>0, <1>1, <2>1 DEF CreateRecord, Maps, Elsewhere
  <2>3. SessionSound(s)'
    BY <1>0, <1>1, <2>1, <2>2 DEF CreateRecord, Elsewhere
  <2>. QED  BY <1>0, <2>2, <2>3, OneSession
<1>2. CASE Publish(s)
  <2>1. CASE /\ node' = node \cup {s}
             /\ record' = [record EXCEPT ![s].state = "published"]
             /\ pc' = [pc EXCEPT ![s] = "idle"]
    <3>1. record' \in [Sessions -> RecordShape] /\ record'[s].state = "published"
      BY <2>1 DEF Maps, RecordShape
    <3>2. Maps' /\ Elsewhere(s) /\ pc'[s] = "idle" /\ s \in node'
      BY <1>0, <1>2, <2>1, <3>1 DEF Publish, Maps, Elsewhere
    <3>3. SessionSound(s)'
      BY <1>0, <1>2, <3>1, <3>2 DEF Publish, Elsewhere
    <3>. QED  BY <1>0, <3>2, <3>3, OneSession
  <2>2. CASE pc' = [pc EXCEPT ![s] = "failed"] /\ UNCHANGED <<node, record>>
    <3>1. Maps' /\ Elsewhere(s) /\ pc'[s] = "failed"
      BY <1>0, <1>2, <2>2 DEF Publish, Maps, Elsewhere
    <3>2. SessionSound(s)'
      BY <1>0, <1>2, <2>2, <3>1 DEF Publish, Elsewhere
    <3>. QED  BY <1>0, <3>1, <3>2, OneSession
  <2>. QED  BY <1>2, <2>1, <2>2 DEF Publish
<1>3. CASE AbortRecord(s)
  <2>1. record' \in [Sessions -> RecordShape] /\ record'[s].state = "aborted"
    BY <1>3 DEF AbortRecord, Maps, RecordShape
  <2>2. Maps' /\ Elsewhere(s) /\ pc'[s] = "idle"
    BY <1>0, <1>3, <2>1 DEF AbortRecord, Maps, Elsewhere
  <2>3. SessionSound(s)'
    BY <1>0, <1>3, <2>1, <2>2 DEF AbortRecord, Elsewhere
  <2>. QED  BY <1>0, <2>2, <2>3, OneSession
<1>. QED  BY <1>1, <1>2, <1>3

-----------------------------------------------------------------------------
(* Steps that make, rename and sync the directory.                         *)
LEMMA DirectoryStep ==
  ASSUME CInv, NEW s \in Sessions, NEW d \in DirShape, NEW l \in Pcs,
         dir' = [dir EXCEPT ![s] = d], pc' = [pc EXCEPT ![s] = l],
         orphan' \in {orphan, orphan \cup {s}},
         UNCHANGED <<record, node, capture, crashes, losses>>
  PROVE  Maps' /\ Elsewhere(s) /\ dir'[s] = d /\ pc'[s] = l
  BY Known DEF Maps, Elsewhere

LEMMA RenamingSound ==
  ASSUME CInv, NEW s \in Sessions,
         \/ MakeStaging(s) \/ FillStaging(s) \/ RenameToBucket(s) \/ SyncRename(s)
         \/ Quarantine(s) \/ SyncQuarantine(s)
  PROVE  CInv'
<1>. USE Known
<1>0. Limits' /\ UNCHANGED <<record, node, capture, crashes, losses>>
  BY DEF MakeStaging, FillStaging, RenameToBucket, SyncRename, Quarantine, SyncQuarantine, Limits
<1>1. CASE MakeStaging(s)
  <2>. DEFINE d == [place |-> "staging", complete |-> FALSE, synced |-> TRUE, from |-> "none"]
  <2>1. d \in DirShape
    BY DEF DirShape
  <2>2. Maps' /\ Elsewhere(s) /\ dir'[s] = d /\ pc'[s] = "fill"
    BY <1>0, <1>1, <2>1, DirectoryStep DEF MakeStaging
  <2>3. SessionSound(s)'
    BY <1>0, <1>1, <2>2 DEF MakeStaging
  <2>. QED  BY <1>0, <2>2, <2>3, OneSession
<1>2. CASE FillStaging(s)
  <2>. DEFINE d == [dir[s] EXCEPT !.complete = TRUE]
  <2>1. /\ d \in DirShape
        /\ d.complete /\ d.place = dir[s].place /\ d.synced = dir[s].synced /\ d.from = dir[s].from
    BY ZenonT(60) DEF DirShape
  <2>2. dir' = [dir EXCEPT ![s] = d]
    BY <1>2 DEF FillStaging, Maps
  <2>. HIDE DEF d
  <2>3. Maps' /\ Elsewhere(s) /\ dir'[s] = d /\ pc'[s] = "ready"
    BY <1>0, <1>2, <2>1, <2>2, DirectoryStep, ZenonT(60) DEF FillStaging
  <2>4. SessionSound(s)'
    BY <1>0, <1>2, <2>1, <2>3 DEF FillStaging
  <2>. QED  BY <1>0, <2>3, <2>4, OneSession
<1>3. CASE RenameToBucket(s)
  <2>. DEFINE d == [dir[s] EXCEPT !.place = "bucket", !.synced = FALSE, !.from = "staging"]
  <2>1. /\ d \in DirShape
        /\ d.complete = dir[s].complete /\ d.place = "bucket" /\ ~d.synced /\ d.from = "staging"
    BY ZenonT(60) DEF DirShape
  <2>2. dir' = [dir EXCEPT ![s] = d]
    BY <1>3 DEF RenameToBucket, Maps
  <2>. HIDE DEF d
  <2>3. Maps' /\ Elsewhere(s) /\ dir'[s] = d /\ pc'[s] = "sync"
    BY <1>0, <1>3, <2>1, <2>2, DirectoryStep DEF RenameToBucket
  <2>4. SessionSound(s)'
    BY <1>0, <1>3, <2>1, <2>3 DEF RenameToBucket, MayRename
  <2>. QED  BY <1>0, <2>3, <2>4, OneSession
<1>4. CASE SyncRename(s) \/ SyncQuarantine(s)
  <2>. DEFINE d == [dir[s] EXCEPT !.synced = TRUE]
  <2>1. /\ d \in DirShape
        /\ d.complete = dir[s].complete /\ d.place = dir[s].place /\ d.synced
    BY ZenonT(60) DEF DirShape
  <2>2. dir' = [dir EXCEPT ![s] = d]
    BY <1>4 DEF SyncRename, SyncQuarantine, Maps
  <2>. HIDE DEF d
  <2>3. /\ Maps' /\ Elsewhere(s) /\ dir'[s] = d
        /\ \/ pc[s] = "sync" /\ pc'[s] = "publish"
           \/ pc[s] = "barrier" /\ pc'[s] = "abort"
    <3>1. CASE SyncRename(s)
      BY <1>0, <2>1, <2>2, <3>1, DirectoryStep, ZenonT(60) DEF SyncRename
    <3>2. CASE SyncQuarantine(s)
      BY <1>0, <2>1, <2>2, <3>2, DirectoryStep, ZenonT(60) DEF SyncQuarantine
    <3>. QED  BY <1>4, <3>1, <3>2
  <2>4. SessionSound(s)'
    BY <1>0, <2>1, <2>3
  <2>. QED  BY <1>0, <2>3, <2>4, OneSession
<1>5. CASE Quarantine(s)
  <2>1. CASE dir[s].place = "none" /\ pc' = [pc EXCEPT ![s] = "abort"] /\ UNCHANGED <<dir, orphan>>
    <3>1. Maps' /\ Elsewhere(s) /\ pc'[s] = "abort"
      BY <1>0, <2>1 DEF Maps, Elsewhere
    <3>2. SessionSound(s)'
      BY <1>0, <1>5, <2>1, <3>1 DEF Quarantine
    <3>. QED  BY <1>0, <3>1, <3>2, OneSession
  <2>2. CASE /\ dir[s].place # "none" /\ orphan' = orphan \cup {s}
             /\ dir' = [dir EXCEPT ![s] =
                          [@ EXCEPT !.place = "none", !.synced = FALSE, !.from = dir[s].place]]
             /\ pc' = [pc EXCEPT ![s] = "barrier"]
    <3>. DEFINE d == [dir[s] EXCEPT !.place = "none", !.synced = FALSE, !.from = dir[s].place]
    <3>1. /\ d \in DirShape
          /\ d.complete = dir[s].complete /\ d.place = "none" /\ ~d.synced
          /\ d.from = dir[s].place
      BY ZenonT(60) DEF DirShape
    <3>2. dir' = [dir EXCEPT ![s] = d]
      BY <2>2 DEF Maps
    <3>. HIDE DEF d
    <3>3. Maps' /\ Elsewhere(s) /\ dir'[s] = d /\ pc'[s] = "barrier"
      BY <1>0, <2>2, <3>1, <3>2, DirectoryStep
    <3>4. SessionSound(s)'
      BY <1>0, <1>5, <2>2, <3>1, <3>3 DEF Quarantine, DirShape
    <3>. QED  BY <1>0, <3>3, <3>4, OneSession
  <2>3. CASE dir[s].place # "none" /\ pc' = [pc EXCEPT ![s] = "idle"] /\ UNCHANGED <<dir, orphan>>
    <3>1. Maps' /\ Elsewhere(s) /\ pc'[s] = "idle"
      BY <1>0, <2>3 DEF Maps, Elsewhere
    <3>2. SessionSound(s)'
      BY <1>0, <1>5, <2>3, <3>1 DEF Quarantine
    <3>. QED  BY <1>0, <3>1, <3>2, OneSession
  <2>. QED  BY <1>5, <2>1, <2>2, <2>3 DEF Quarantine
<1>. QED  BY <1>1, <1>2, <1>3, <1>4, <1>5

-----------------------------------------------------------------------------
(* The environment. *)

LEMMA ParentSound ==
  ASSUME CInv, ChangeParent \/ UNCHANGED vars
  PROVE  CInv'
<1>1. UNCHANGED <<record, node, dir, orphan, capture, pc, bounds>>
  BY DEF ChangeParent, vars
<1>2. parent' \in [state : {"active", "deleting"}, revision : 0..MaxRevision]
  <2>1. CASE ChangeParent
    <3>1. PICK st \in {"active", "deleting"} :
            parent' = [state |-> st, revision |-> parent.revision + 1]
      BY <2>1 DEF ChangeParent
    <3>2. parent.revision + 1 \in 0..MaxRevision
      BY <2>1, BoundAssumption DEF ChangeParent, CInv, TypeOK
    <3>. QED  BY <3>1, <3>2
  <2>2. CASE UNCHANGED vars
    BY <2>2 DEF vars, CInv, TypeOK
  <2>. QED  BY <2>1, <2>2
<1>3. TypeOK'
  BY <1>1, <1>2 DEF CInv, TypeOK
<1>4. \A s \in Sessions : SessionSound(s)'
  BY <1>1 DEF CInv
<1>. QED  BY <1>3, <1>4 DEF CInv

LEMMA DeathSound ==
  ASSUME CInv, ProcessDies
  PROVE  CInv'
<1>1. /\ pc' = [s \in Sessions |-> "idle"] /\ crashes' = crashes + 1 /\ crashes < MaxCrashes
      /\ UNCHANGED <<parent, record, node, dir, orphan, capture, losses, faults>>
  BY DEF ProcessDies
<1>2. crashes' \in 0..MaxCrashes /\ crashes' # 0
  BY <1>1, BoundAssumption DEF CInv, TypeOK
<1>3. TypeOK'
  BY <1>1, <1>2 DEF CInv, TypeOK
<1>4. ASSUME NEW s \in Sessions
      PROVE  SessionSound(s)'
  BY <1>1, <1>2 DEF CInv
<1>. QED  BY <1>3, <1>4 DEF CInv

(* What a power loss leaves of a directory: its rename is undone, or       *)
(* durable.                                                                *)
LEMMA PowerLossSound ==
  ASSUME CInv, PowerFails
  PROVE  CInv'
<1>. USE Known
<1>1. /\ pc' = [s \in Sessions |-> "idle"] /\ losses' = losses + 1 /\ losses < MaxPowerLosses
      /\ UNCHANGED <<parent, record, node, capture, crashes, faults>>
  BY DEF PowerFails
<1>2. losses' \in 0..MaxPowerLosses /\ losses' # 0
  BY <1>1, BoundAssumption DEF CInv, TypeOK
<1>3. PICK undone \in SUBSET {s \in Sessions : ~dir[s].synced} :
        /\ dir' = [s \in Sessions |->
                     IF s \in undone THEN [dir[s] EXCEPT !.place = dir[s].from, !.synced = TRUE]
                     ELSE [dir[s] EXCEPT !.synced = TRUE]]
        /\ orphan' = orphan \ {s \in undone : dir[s].place = "none"}
  BY DEF PowerFails
<1>4. ASSUME NEW s \in Sessions
      PROVE  /\ dir'[s] \in DirShape /\ dir'[s].synced /\ dir'[s].complete = dir[s].complete
             /\ \/ dir'[s].place = dir[s].place
                \/ ~dir[s].synced /\ dir'[s].place = dir[s].from
  <2>1. dir[s] \in DirShape
    OBVIOUS
  <2>2. CASE s \in undone
    BY <1>3, <2>1, <2>2 DEF DirShape
  <2>3. CASE s \notin undone
    BY <1>3, <2>1, <2>3 DEF DirShape
  <2>. QED  BY <2>2, <2>3
<1>5. dir' \in [Sessions -> DirShape] /\ orphan' \subseteq Sessions
  <2>1. dir' = [s \in Sessions |-> dir'[s]]
    BY <1>3
  <2>. QED  BY <1>3, <1>4, <2>1 DEF CInv, TypeOK
<1>6. TypeOK'
  BY <1>1, <1>2, <1>5 DEF CInv, TypeOK, DirShape
<1>7. ASSUME NEW s \in Sessions
      PROVE  SessionSound(s)'
  <2>1. SessionSound(s) /\ pc'[s] = "idle"
    BY <1>1
  <2>2. DirectorySound(s)' /\ BarrierSound(s)' /\ PlaceSound(s)'
    BY <1>1, <1>4, <2>1
  <2>3. CaptureSound(s)' /\ RecordSound(s)'
    BY <1>1, <1>4, <2>1
  <2>4. Visible(s)'
    BY <1>1, <1>2, <1>4, <2>1
  <2>. QED  BY <2>2, <2>3, <2>4
<1>. QED  BY <1>6, <1>7 DEF CInv

LEMMA StepSound ==
  ASSUME CInv, [Next]_vars
  PROVE  CInv'
  BY MovingSound, RecordingSound, RenamingSound, ParentSound, DeathSound, PowerLossSound
     DEF Next, Step

(* Where the directory of a creation is, whether its rename is durable,    *)
(* and what its record says agree, over all failures.                      *)
THEOREM CreationIsSound == Spec => []CInv
  BY InitSound, StepSound, PTL DEF Spec

(* A published Session is whole and an aborted one is out of the way: the  *)
(* protocol of session_creation.py keeps this over any number of deaths or *)
(* any number of power losses.                                             *)
THEOREM CreationInvariance == Spec => []CreationInv
<1>1. CInv => CreationInv
  BY DEF CInv, CreationInv, PublishedIsWhole, AbortedIsIsolated, TypeOK
<1>. QED  BY <1>1, CreationIsSound, PTL

-----------------------------------------------------------------------------
LEMMA DecisionStays ==
  ASSUME CInv, [Next]_vars, NEW s \in Sessions, record[s].state \in {"published", "aborted"}
  PROVE  record'[s] = record[s]
<1>1. CInv /\ TypeOK /\ pc[s] = "idle"
  BY DEF CInv
<1>2. ASSUME NEW q \in Sessions, CreateRecord(q) \/ Publish(q) \/ AbortRecord(q)
      PROVE  q # s /\ record'[s] = record[s]
  BY <1>1, <1>2 DEF CreateRecord, Publish, AbortRecord, TypeOK
<1>3. CASE UNCHANGED record
  BY <1>3
<1>4. ASSUME NEW q \in Sessions,
             \/ ResumeRecord(q) \/ ReusePrepared(q) \/ Materialize(q) \/ MaterializeFails(q)
             \/ SyncFault(q) \/ SkipRename(q) \/ AbortCapture(q)
             \/ MakeStaging(q) \/ FillStaging(q) \/ RenameToBucket(q) \/ SyncRename(q)
             \/ Quarantine(q) \/ SyncQuarantine(q)
      PROVE  UNCHANGED record
  BY <1>4 DEF ResumeRecord, ReusePrepared, Materialize, MaterializeFails, SyncFault, SkipRename,
     AbortCapture, MakeStaging, FillStaging, RenameToBucket, SyncRename, Quarantine, SyncQuarantine
<1>5. CASE ChangeParent \/ ProcessDies \/ PowerFails \/ UNCHANGED vars
  BY <1>5 DEF ChangeParent, ProcessDies, PowerFails, vars
<1>. QED  BY <1>2, <1>3, <1>4, <1>5 DEF Next, Step

(* No retry, recovery or abort changes a creation that was published or    *)
(* aborted: no coroutine is left on it, whatever died.                     *)
THEOREM DecisionIsFinal == Spec => DecidedOnce
<1>1. CInv /\ [Next]_vars =>
        [\A s \in Sessions :
            record[s].state \in {"published", "aborted"} => record'[s] = record[s]]_vars
  BY DecisionStays
<1>. QED  BY <1>1, CreationIsSound, PTL DEF Spec, DecidedOnce
=============================================================================
