---------------------------- MODULE SubtreeDelete ----------------------------
(***************************************************************************)
(* Deletion of a subtree of the Session catalog: the record that freezes   *)
(* the subtree, the transaction that marks it deleting, the drain of each  *)
(* frozen Session (retention release, wait for its users, fence, rename to *)
(* isolation, barrier, progress) and the removal of the rows; with the     *)
(* navigation mutations, publications, fork claims and users that run      *)
(* beside it, and the recovery after a death at any point.                 *)
(***************************************************************************)
EXTENDS Naturals, FiniteSets

CONSTANTS
    Folders,        \* folder nodes
    Sessions,       \* Session nodes
    Ops,            \* deletion operations, one idempotency key each
    Top,            \* the parent of the nodes at the top level
    InitialParent,  \* the tree at the start: a function on some of the nodes
    MaxRevision,    \* bound on the revision of a node
    MaxBeside,      \* bound on the moved active nodes, on the claims and on
                    \* the users at a time
    MaxUpsets       \* bound on failing drain callbacks, process deaths and
                    \* power losses together

Nodes == Folders \cup Sessions

ASSUME TreeAssumption ==
    /\ Top \notin Nodes /\ Folders \cap Sessions = {}
    /\ DOMAIN InitialParent \subseteq Nodes
    /\ \A n \in DOMAIN InitialParent : InitialParent[n] \in DOMAIN InitialParent \cup {Top}
ASSUME OpsAssumption == "free" \notin Ops
ASSUME BoundAssumption == {MaxRevision, MaxBeside, MaxUpsets} \subseteq Nat

VARIABLES
    cat,      \* the nodes table: state, parent and revision of each node
    rec,      \* the deletion records: state, root, frozen nodes, progress
    claims,   \* unreleased fork retention claims <<source, target>>
    disk,     \* place, fence and durability of each Session directory
    users,    \* Sessions with a reader or writer inside the Session gate
    gate,     \* the operation in the exclusive topology section, or "free"
    pc,       \* where the coroutine of each operation is, and at which Session
    upsets    \* how many drains failed, processes died and powers were lost

vars == <<cat, rec, claims, disk, users, gate, pc, upsets>>

Absent == [state |-> "absent", parent |-> Top, rev |-> 0]
NoRecord == [state |-> "none", root |-> Top, frozen |-> {}, drained |-> {}]
Idle == [at |-> "idle", s |-> Top]
Marked == {"deleting", "draining"}

Init ==
    /\ cat = [n \in Nodes |->
                IF n \in DOMAIN InitialParent
                THEN [state |-> "active", parent |-> InitialParent[n], rev |-> 0]
                ELSE Absent]
    /\ rec = [o \in Ops |-> NoRecord]
    /\ claims = {}
    /\ disk = [s \in Sessions |-> [place |-> "bucket", fence |-> "active", synced |-> TRUE]]
    /\ users = {}
    /\ gate = "free"
    /\ pc = [o \in Ops |-> Idle]
    /\ upsets = [fault |-> 0, crash |-> 0, power |-> 0]

Upset(kind) ==
    /\ upsets.fault + upsets.crash + upsets.power < MaxUpsets
    /\ upsets' = [upsets EXCEPT ![kind] = @ + 1]

Goto(o, l, s) == pc' = [pc EXCEPT ![o] = [at |-> l, s |-> s]]

-----------------------------------------------------------------------------
(* The tree *)

(* The subtree of r is the least set that holds r and, with a node, its    *)
(* children.                                                               *)
ClosedBelow(ns) == \A n \in Nodes : cat[n].state # "absent" /\ cat[n].parent \in ns => n \in ns

Subtree(r) ==
    {n \in Nodes : /\ cat[n].state # "absent"
                   /\ \A ns \in SUBSET Nodes : r \in ns /\ ClosedBelow(ns) => n \in ns}

Mutable(p) == p \in {Top} \cup {n \in Nodes : cat[n].state = "active"}
FrozenNodes(o) == {f[1] : f \in rec[o].frozen}
FrozenSessions(o) == FrozenNodes(o) \cap Sessions

-----------------------------------------------------------------------------
(* Beside the deletion: publications and navigation mutations take the     *)
(* topology gate exclusively; claims are one catalog transaction; users    *)
(* pass the topology gate shared and check the node under the Session gate *)

(* A node is published once; the revision of the parent does not change.   *)
Publish(n, p) ==
    /\ gate = "free"
    /\ cat[n] = Absent /\ n \notin UNION {FrozenNodes(o) : o \in Ops}
    /\ Mutable(p)
    /\ cat' = [cat EXCEPT ![n] = [state |-> "active", parent |-> p, rev |-> 0]]
    /\ UNCHANGED <<rec, claims, disk, users, gate, pc, upsets>>

Move(n, p) ==
    /\ gate = "free"
    /\ cat[n].state = "active" /\ cat[n].rev < MaxRevision
    /\ Cardinality({m \in Nodes : cat[m].state = "active" /\ cat[m].rev > 0}) < MaxBeside
    /\ Mutable(p) /\ p \notin Subtree(n)
    /\ cat' = [cat EXCEPT ![n] = [state |-> "active", parent |-> p, rev |-> cat[n].rev + 1]]
    /\ UNCHANGED <<rec, claims, disk, users, gate, pc, upsets>>

(* Mutant: a claim on a Session that is being deleted.                     *)
ClaimPresent(s, t) ==
    /\ s # t /\ cat[s].state # "absent" /\ cat[t].state # "absent"
    /\ Cardinality(claims) < MaxBeside
    /\ claims' = claims \cup {<<s, t>>}
    /\ UNCHANGED <<cat, rec, disk, users, gate, pc, upsets>>

(* _register_fork_retention_claim: the source is active.                   *)
Claim(s, t) ==
    /\ s # t /\ cat[s].state = "active" /\ cat[t].state = "active"
    /\ Cardinality(claims) < MaxBeside
    /\ claims' = claims \cup {<<s, t>>}
    /\ UNCHANGED <<cat, rec, disk, users, gate, pc, upsets>>

Enter(s) ==
    /\ gate = "free"
    /\ cat[s].state = "active" /\ s \notin users /\ Cardinality(users) < MaxBeside
    /\ \A o \in Ops : pc[o].s = s => pc[o].at \notin {"fence", "rename", "sync"}
    /\ users' = users \cup {s}
    /\ UNCHANGED <<cat, rec, claims, disk, gate, pc, upsets>>

Leave(s) ==
    /\ s \in users
    /\ users' = users \ {s}
    /\ UNCHANGED <<cat, rec, claims, disk, gate, pc, upsets>>

-----------------------------------------------------------------------------
(* delete: record and mark in one exclusive section *)

Freezable(r) == \A n \in Subtree(r) \cup {r} : cat[n].state = "active"

CreateRecord(o, r) ==
    /\ pc[o] = Idle /\ gate = "free"
    /\ rec[o] = NoRecord
    /\ Freezable(r)
    /\ rec' = [rec EXCEPT ![o] =
                 [state |-> "preparing", root |-> r, drained |-> {},
                  frozen |-> {<<n, cat[n].rev>> : n \in Subtree(r)}]]
    /\ gate' = o
    /\ Goto(o, "mark", Top)
    /\ UNCHANGED <<cat, claims, disk, users, upsets>>

(* The same key again, by a client or by the recovery.                     *)
Retry(o) ==
    /\ pc[o] = Idle /\ gate = "free"
    /\ rec[o].state \in {"preparing"} \cup Marked
    /\ \/ /\ rec[o].state = "preparing" /\ gate' = o /\ Goto(o, "mark", Top)
       \/ /\ rec[o].state \in Marked /\ Goto(o, "drain", Top) /\ UNCHANGED gate
    /\ UNCHANGED <<cat, rec, claims, disk, users, upsets>>

(* Mutant: the nodes are not looked at.                                    *)
MayMarkBlindly(o) ==
    \A s \in FrozenSessions(o), t \in Sessions : <<s, t>> \notin claims

(* No pinned claim on a frozen Session; every frozen node is unchanged.    *)
MayMark(o) ==
    /\ \A s \in FrozenSessions(o), t \in Sessions : <<s, t>> \notin claims
    /\ \A f \in rec[o].frozen : cat[f[1]].state = "active" /\ cat[f[1]].rev = f[2]

Mark(o) ==
    /\ pc[o].at = "mark" /\ MayMark(o)
    /\ cat' = [n \in Nodes |->
                 IF n \in FrozenNodes(o)
                 THEN [cat[n] EXCEPT !.state = "deleting", !.rev = @ + 1] ELSE cat[n]]
    /\ rec' = [rec EXCEPT ![o].state = "deleting"]
    /\ gate' = "free"
    /\ Goto(o, "drain", Top)
    /\ UNCHANGED <<claims, disk, users, upsets>>

(* SubtreeDeleteMarkRejectedError: the record is aborted.                  *)
RejectMark(o) ==
    /\ pc[o].at = "mark" /\ ~MayMark(o)
    /\ rec' = [rec EXCEPT ![o].state = "aborted"]
    /\ gate' = "free"
    /\ Goto(o, "idle", Top)
    /\ UNCHANGED <<cat, claims, disk, users, upsets>>

-----------------------------------------------------------------------------
(* _drain: one frozen Session after the other *)

(* Mutant: only a directory in its date bucket is drained.                 *)
DrainNextFresh(o, s) ==
    /\ pc[o] = [at |-> "drain", s |-> Top]
    /\ s \in FrozenSessions(o) \ rec[o].drained /\ disk[s].place = "bucket"
    /\ claims' = {c \in claims : c[2] # s}
    /\ Goto(o, "wait", s)
    /\ UNCHANGED <<cat, rec, disk, users, gate, upsets>>

(* A directory that is isolated already only has its barrier repeated; for *)
(* another one the claims it holds as a target are released first.         *)
DrainNext(o, s) ==
    /\ pc[o] = [at |-> "drain", s |-> Top]
    /\ s \in FrozenSessions(o) \ rec[o].drained
    /\ \/ /\ disk[s].place = "isolated"
          /\ Goto(o, "sync", s)
          /\ UNCHANGED claims
       \/ /\ disk[s].place = "bucket"
          /\ claims' = {c \in claims : c[2] # s}
          /\ Goto(o, "wait", s)
    /\ UNCHANGED <<cat, rec, disk, users, gate, upsets>>

(* Mutant: the drain does not wait for the Session gate.                   *)
EnterGateAtOnce(o) ==
    /\ pc[o].at = "wait"
    /\ Goto(o, "fence", pc[o].s)
    /\ UNCHANGED <<cat, rec, claims, disk, users, gate, upsets>>

(* The holders and the exclusive Session gate.                             *)
EnterGate(o) ==
    /\ pc[o].at = "wait" /\ pc[o].s \notin users
    /\ Goto(o, "fence", pc[o].s)
    /\ UNCHANGED <<cat, rec, claims, disk, users, gate, upsets>>

(* The drain callback raises: everything is kept for the next attempt.     *)
DrainFails(o) ==
    /\ pc[o].at = "fence"
    /\ Upset("fault")
    /\ Goto(o, "idle", Top)
    /\ UNCHANGED <<cat, rec, claims, disk, users, gate>>

CloseFence(o) ==
    /\ pc[o].at = "fence"
    /\ disk' = [disk EXCEPT ![pc[o].s].fence = "deleting"]
    /\ Goto(o, "rename", pc[o].s)
    /\ UNCHANGED <<cat, rec, claims, users, gate, upsets>>

Isolate(o) ==
    /\ pc[o].at = "rename"
    /\ disk' = [disk EXCEPT ![pc[o].s].place = "isolated", ![pc[o].s].synced = FALSE]
    /\ Goto(o, "sync", pc[o].s)
    /\ UNCHANGED <<cat, rec, claims, users, gate, upsets>>

Barrier(o) ==
    /\ pc[o].at = "sync"
    /\ disk' = [disk EXCEPT ![pc[o].s].synced = TRUE]
    /\ Goto(o, "progress", pc[o].s)
    /\ UNCHANGED <<cat, rec, claims, users, gate, upsets>>

RecordProgress(o) ==
    /\ pc[o].at = "progress"
    /\ rec' = [rec EXCEPT ![o].state = "draining", ![o].drained = @ \cup {pc[o].s}]
    /\ Goto(o, "drain", Top)
    /\ UNCHANGED <<cat, claims, disk, users, gate, upsets>>

-----------------------------------------------------------------------------
(* finish_subtree_delete: the rows go; a row that still has a child which  *)
(* is not frozen cannot be deleted (the foreign key on parent_node_id)     *)

Stray(o) ==
    {n \in Nodes \ FrozenNodes(o) : cat[n].state # "absent" /\ cat[n].parent \in FrozenNodes(o)}

DrainComplete(o) == rec[o].drained = FrozenSessions(o)

Finish(o) ==
    /\ pc[o] = [at |-> "drain", s |-> Top] /\ gate = "free"
    /\ DrainComplete(o)
    /\ \/ /\ Stray(o) = {}
          /\ cat' = [n \in Nodes |-> IF n \in FrozenNodes(o) THEN Absent ELSE cat[n]]
          /\ rec' = [rec EXCEPT ![o].state = "completed"]
       \/ /\ Stray(o) # {}
          /\ UNCHANGED <<cat, rec>>
    /\ Goto(o, "idle", Top)
    /\ UNCHANGED <<claims, disk, users, gate, upsets>>

-----------------------------------------------------------------------------
(* Faults *)

Die(kind) ==
    /\ Upset(kind)
    /\ users' = {}
    /\ gate' = "free"
    /\ pc' = [o \in Ops |-> Idle]

ProcessDies ==
    /\ Die("crash")
    /\ UNCHANGED <<cat, rec, claims, disk>>

(* A rename whose directories were not fsynced may be undone.              *)
PowerFails ==
    /\ Die("power")
    /\ \E undone \in SUBSET {s \in Sessions : ~disk[s].synced} :
        disk' = [s \in Sessions |->
                   [disk[s] EXCEPT !.synced = TRUE,
                                   !.place = IF s \in undone THEN "bucket" ELSE @]]
    /\ UNCHANGED <<cat, rec, claims>>

Step(o) ==
    \/ Mark(o) \/ RejectMark(o)
    \/ \E s \in Sessions : DrainNext(o, s)
    \/ EnterGate(o) \/ CloseFence(o) \/ Isolate(o) \/ Barrier(o) \/ RecordProgress(o)
    \/ Finish(o)

Environment ==
    \/ \E n \in Nodes, p \in Nodes \cup {Top} : Publish(n, p) \/ Move(n, p)
    \/ \E s, t \in Sessions : Claim(s, t)
    \/ \E s \in Sessions : Enter(s) \/ Leave(s)
    \/ ProcessDies \/ PowerFails

Next ==
    \/ \E o \in Ops, r \in Nodes : CreateRecord(o, r)
    \/ \E o \in Ops : Retry(o) \/ Step(o) \/ DrainFails(o)
    \/ Environment

Spec == Init /\ [][Next]_vars

(* A coroutine goes on, the recovery retries an unfinished record at every *)
(* start, and readers and writers leave the Session gate.                  *)
Fairness ==
    /\ \A o \in Ops : WF_vars(Step(o) \/ Retry(o))
    /\ \A s \in Sessions : WF_vars(Leave(s))

FairSpec == Spec /\ Fairness

-----------------------------------------------------------------------------
(* Properties *)

TypeOK ==
    /\ cat \in [Nodes -> [state : {"absent", "active", "deleting"},
                          parent : Nodes \cup {Top}, rev : 0..MaxRevision + 1]]
    /\ \A o \in Ops :
        /\ rec[o].state \in {"none", "preparing", "deleting", "draining", "completed", "aborted"}
        /\ rec[o].root \in Nodes \cup {Top}
        /\ rec[o].frozen \subseteq Nodes \X (0..MaxRevision)
        /\ rec[o].drained \subseteq FrozenSessions(o)
        /\ pc[o].at \in {"idle", "mark", "drain", "wait", "fence", "rename", "sync", "progress"}
        /\ pc[o].s \in Sessions \cup {Top}
    /\ claims \subseteq Sessions \X Sessions
    /\ disk \in [Sessions -> [place : {"bucket", "isolated"}, fence : {"active", "deleting"},
                              synced : BOOLEAN]]
    /\ users \subseteq Sessions /\ gate \in Ops \cup {"free"}

(* A frozen subtree closes at once and belongs to one deletion: every node *)
(* a marked record froze is deleting, and a deleting node was frozen by    *)
(* exactly one marked record.                                              *)
ClosedAtOnce ==
    /\ \A o \in Ops : rec[o].state \in Marked =>
        \A n \in FrozenNodes(o) : cat[n].state = "deleting"
    /\ \A n \in Nodes : cat[n].state = "deleting" =>
        Cardinality({o \in Ops : rec[o].state \in Marked /\ n \in FrozenNodes(o)}) = 1

(* Nobody is inside a Session whose fence is closed or whose directory has *)
(* been moved away.                                                        *)
UsersAreSafe ==
    \A s \in users : disk[s].place = "bucket" /\ disk[s].fence = "active"

(* A Session that a fork still retains is neither deleting nor gone.       *)
RetainedIsActive == \A c \in claims : cat[c[1]].state = "active"

(* The progress only tells what a power loss cannot take back, and a row   *)
(* is only gone when its directory is isolated behind a closed fence.      *)
ProgressIsDurable ==
    \A o \in Ops :
        /\ \A s \in rec[o].drained :
            disk[s] = [place |-> "isolated", fence |-> "deleting", synced |-> TRUE]
        /\ rec[o].state = "completed" => FrozenSessions(o) \subseteq rec[o].drained

(* The subtree is closed: an active node is never below a removed one, and *)
(* below a deleting one only when the process died, in which case a retry  *)
(* marks the frozen set of its first attempt.                              *)
SubtreeIsClosed ==
    \A n \in Nodes : cat[n].state = "active" =>
        /\ cat[n].parent # Top => cat[cat[n].parent].state # "absent"
        /\ ~Mutable(cat[n].parent) => upsets.crash + upsets.power > 0

(* The state invariant: catalog, records, claims and progress agree, whatever *)
(* died between two of their transactions.                                 *)
DeletionInv ==
    /\ TypeOK
    /\ ClosedAtOnce
    /\ RetainedIsActive
    /\ ProgressIsDurable
    /\ SubtreeIsClosed

(* A marked deletion is completed, over failing drains, users that come    *)
(* late, deaths and power losses, unless a node was published below it.    *)
MarkedCompletes ==
    \A o \in Ops :
        rec[o].state \in Marked ~> rec[o].state = "completed" \/ Stray(o) # {}
=============================================================================
