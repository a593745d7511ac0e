------------------------- MODULE SubtreeDeleteProofs -------------------------
(***************************************************************************)
(* Proofs about the deletion of subtrees: for every tree, every set of     *)
(* operations and every bound, catalog, records, claims, disk and progress *)
(* agree after every interleaving, failing drain, process death and power  *)
(* loss, and nobody is inside a Session whose directory has gone.          *)
(*                                                                         *)
(* DeletionInv is not inductive: it does not say which Session a drain is  *)
(* busy with, nor why no other deletion touches it.  The inductive         *)
(* invariant DInv adds what each coroutine knows at each line (PcSound),   *)
(* what each record says of its nodes (RecSound, Owned) and whose deletion *)
(* a closed fence or a moved directory belongs to (DiskSound).             *)
(***************************************************************************)
EXTENDS SubtreeDelete, FiniteSetTheorems, TLAPS

Records == [state : {"none", "preparing", "deleting", "draining", "completed", "aborted"},
            root : Nodes \cup {Top}, frozen : SUBSET (Nodes \X (0..MaxRevision)),
            drained : SUBSET Sessions]
Places == [at : {"idle", "mark", "drain", "wait", "fence", "rename", "sync", "progress"},
           s : Sessions \cup {Top}]
Rows == [state : {"absent", "active", "deleting"}, parent : Nodes \cup {Top},
         rev : 0..MaxRevision + 1]
Directories == [place : {"bucket", "isolated"}, fence : {"active", "deleting"},
                synced : BOOLEAN]

Typed ==
    /\ cat \in [Nodes -> Rows]
    /\ rec \in [Ops -> Records]
    /\ claims \subseteq Sessions \X Sessions
    /\ disk \in [Sessions -> Directories]
    /\ users \subseteq Sessions /\ gate \in Ops \cup {"free"}
    /\ pc \in [Ops -> Places]
    /\ upsets \in [fault : Nat, crash : Nat, power : Nat]

NoDeath == upsets.crash = 0 /\ upsets.power = 0

(* A directory whose fence is closed or that has been moved away.          *)
Touched(s) == disk[s].fence = "deleting" \/ disk[s].place = "isolated"

Gone == [place |-> "isolated", fence |-> "deleting", synced |-> TRUE]

NodeSound(n) ==
    cat[n].state = "active" => cat[n].rev <= MaxRevision

(* What a record says of its nodes and of the disk.                        *)
RecSound(o) ==
    /\ rec[o].drained \subseteq FrozenSessions(o)
    /\ rec[o].state \notin Marked \cup {"completed"} => rec[o].drained = {}
    /\ rec[o].state \in Marked => \A n \in FrozenNodes(o) : cat[n].state = "deleting"
    /\ rec[o].state = "completed" => /\ \A n \in FrozenNodes(o) : cat[n].state = "absent"
                                     /\ FrozenSessions(o) \subseteq rec[o].drained
    /\ \A s \in rec[o].drained : disk[s] = Gone

(* A deleting node belongs to one marked record.                           *)
Owned ==
    /\ \A n \in Nodes : cat[n].state = "deleting" =>
        \E o \in Ops : rec[o].state \in Marked /\ n \in FrozenNodes(o)
    /\ \A o, q \in Ops : \A n \in FrozenNodes(o) \cap FrozenNodes(q) :
        rec[o].state \in Marked /\ rec[q].state \in Marked => o = q

(* What the coroutine of o knows at each of its lines.                     *)
PcSound(o) ==
    /\ pc[o].at = "mark" <=> gate = o
    /\ pc[o].at = "mark" => rec[o].state = "preparing"
    /\ pc[o].at \notin {"idle", "mark"} => rec[o].state \in Marked
    /\ pc[o].at \in {"wait", "fence", "rename", "sync", "progress"} =>
        pc[o].s \in FrozenSessions(o) \ rec[o].drained
    /\ pc[o].at \in {"fence", "rename", "sync", "progress"} => pc[o].s \notin users
    /\ pc[o].at \in {"rename", "sync", "progress"} => disk[pc[o].s].fence = "deleting"
    /\ pc[o].at \in {"sync", "progress"} => disk[pc[o].s].place = "isolated"
    /\ pc[o].at = "progress" => disk[pc[o].s].synced

(* Unless something died, record and mark are one section, and the frozen  *)
(* set is still closed under children when the nodes are marked.           *)
OneSection(o) ==
    NoDeath =>
        /\ rec[o].state = "preparing" => pc[o].at = "mark"
        /\ pc[o].at = "mark" => ClosedBelow(FrozenNodes(o))

(* A touched directory is outside every user's reach, for good.            *)
DiskSound(s) ==
    /\ disk[s].place = "isolated" => disk[s].fence = "deleting"
    /\ Touched(s) =>
        /\ s \notin users
        /\ \E o \in Ops : rec[o].state \in Marked \cup {"completed"} /\ s \in FrozenNodes(o)

DInv ==
    /\ Typed
    /\ \A n \in Nodes : NodeSound(n)
    /\ \A o \in Ops : RecSound(o)
    /\ Owned
    /\ \A o \in Ops : PcSound(o)
    /\ \A o \in Ops : OneSection(o)
    /\ \A s \in Sessions : DiskSound(s)
    /\ RetainedIsActive
    /\ SubtreeIsClosed

-----------------------------------------------------------------------------
(* Types *)

(* A row of the catalog that an action writes is one.                      *)
LEMMA RowsWritten ==
    ASSUME Typed, NEW n \in Nodes, NEW st \in {"absent", "active", "deleting"},
           NEW p \in Nodes \cup {Top}, NEW k \in 0..MaxRevision + 1
    PROVE  [state |-> st, parent |-> p, rev |-> k] \in Rows
BY DEF Rows

(* The initial state has the types of the module.                          *)
LEMMA InitTyped == Init => Typed
<1> SUFFICES ASSUME Init PROVE Typed  OBVIOUS
<1>1. MaxRevision \in Nat  BY BoundAssumption
<1>2. cat \in [Nodes -> Rows]
  <2>1. ASSUME NEW n \in Nodes, n \in DOMAIN InitialParent
        PROVE  [state |-> "active", parent |-> InitialParent[n], rev |-> 0] \in Rows
    <3>1. InitialParent[n] \in Nodes \cup {Top}  BY <2>1, TreeAssumption
    <3>. QED  BY <3>1, <1>1 DEF Rows
  <2>2. Absent \in Rows  BY <1>1 DEF Absent, Rows
  <2>. QED  BY <2>1, <2>2 DEF Init
<1>3. rec \in [Ops -> Records]  BY <1>1 DEF Init, NoRecord, Records
<1>4. pc \in [Ops -> Places]  BY DEF Init, Idle, Places
<1>5. disk \in [Sessions -> Directories]  BY DEF Init, Directories
<1>. QED  BY <1>2, <1>3, <1>4, <1>5 DEF Init, Typed

(* Going to a place keeps pc a function to places.                         *)
LEMMA GotoTyped ==
    ASSUME Typed, NEW o \in Ops, NEW s \in Sessions \cup {Top},
           NEW l \in {"idle", "mark", "drain", "wait", "fence", "rename", "sync", "progress"},
           Goto(o, l, s)
    PROVE  /\ pc' \in [Ops -> Places]
           /\ pc'[o] = [at |-> l, s |-> s]
           /\ \A q \in Ops \ {o} : pc'[q] = pc[q]
<1>1. [at |-> l, s |-> s] \in Places  BY DEF Places
<1>. QED  BY <1>1 DEF Goto, Typed

(* A failure or a death keeps the counters natural numbers.                *)
LEMMA UpsetTyped ==
    ASSUME Typed, NEW kind \in {"fault", "crash", "power"}, Upset(kind)
    PROVE  /\ upsets' \in [fault : Nat, crash : Nat, power : Nat]
           /\ NoDeath' => NoDeath
           /\ kind # "fault" => ~NoDeath'
<1>1. upsets[kind] \in Nat /\ upsets[kind] + 1 \in Nat /\ upsets[kind] + 1 # 0
  BY DEF Typed
<1>2. upsets' = [upsets EXCEPT ![kind] = @ + 1]  BY DEF Upset
<1>3. upsets' \in [fault : Nat, crash : Nat, power : Nat]
  BY <1>1, <1>2 DEF Typed
<1>4. upsets'[kind] = upsets[kind] + 1  BY <1>2 DEF Typed
<1>5. CASE kind = "fault"
  BY <1>2, <1>3, <1>5 DEF Typed, NoDeath
<1>6. CASE kind = "crash"
  <2>1. upsets'.crash # 0  BY <1>1, <1>4, <1>6
  <2>. QED  BY <2>1, <1>3 DEF NoDeath
<1>7. CASE kind = "power"
  <2>1. upsets'.power # 0  BY <1>1, <1>4, <1>7
  <2>. QED  BY <2>1, <1>3 DEF NoDeath
<1>. QED  BY <1>5, <1>6, <1>7

(* The records of a step that changes one of them.                         *)
LEMMA RecordTyped ==
    ASSUME Typed, NEW o \in Ops, NEW r \in Records, rec' = [rec EXCEPT ![o] = r]
    PROVE  /\ rec' \in [Ops -> Records]
           /\ rec'[o] = r
           /\ \A q \in Ops \ {o} : rec'[q] = rec[q]
BY DEF Typed

(* The frozen nodes of a typed record are nodes.                           *)
LEMMA FrozenAreNodes ==
    ASSUME Typed, NEW o \in Ops
    PROVE  FrozenNodes(o) \subseteq Nodes /\ FrozenSessions(o) \subseteq Sessions
BY DEF Typed, Records, FrozenNodes, FrozenSessions

(* A record that keeps its frozen pairs keeps its frozen nodes.            *)
LEMMA SameFrozen ==
    ASSUME NEW o, rec'[o].frozen = rec[o].frozen
    PROVE  FrozenNodes(o)' = FrozenNodes(o) /\ FrozenSessions(o)' = FrozenSessions(o)
BY DEF FrozenNodes, FrozenSessions

-----------------------------------------------------------------------------
(* Beside the deletion *)

(* A node is published or moved below a mutable parent while nobody is in  *)
(* the exclusive section.                                                  *)
LEMMA NodeStep ==
    ASSUME DInv, NEW n0 \in Nodes, NEW p \in Nodes \cup {Top}, NEW k \in 0..MaxRevision,
           Mutable(p), gate = "free",
           cat[n0].state # "deleting",
           cat[n0].state = "absent" => \A o \in Ops : n0 \notin FrozenNodes(o),
           cat' = [cat EXCEPT ![n0] = [state |-> "active", parent |-> p, rev |-> k]],
           UNCHANGED <<rec, claims, disk, users, gate, pc, upsets>>
    PROVE  DInv'
<1> USE DEF DInv
<1>0. MaxRevision \in Nat  BY BoundAssumption
<1>1. Typed'
  <2>1. [state |-> "active", parent |-> p, rev |-> k] \in Rows  BY <1>0, RowsWritten
  <2>. QED  BY <2>1 DEF Typed
<1>2. /\ cat'[n0] = [state |-> "active", parent |-> p, rev |-> k]
      /\ \A n \in Nodes \ {n0} : cat'[n] = cat[n]
  BY DEF Typed
<1>3. \A n \in Nodes : NodeSound(n)'
  BY <1>0, <1>2 DEF NodeSound
<1>4. \A o \in Ops : FrozenNodes(o)' = FrozenNodes(o) /\ FrozenSessions(o)' = FrozenSessions(o)
  BY SameFrozen
<1>5. ASSUME NEW o \in Ops PROVE RecSound(o)'
  <2>1. FrozenNodes(o) \subseteq Nodes  BY FrozenAreNodes
  <2>2. RecSound(o)  OBVIOUS
  <2>3. ASSUME rec[o].state \in Marked \cup {"completed"} PROVE n0 \notin FrozenNodes(o)
    BY <2>2, <2>3 DEF RecSound
  <2>4. rec[o].state \in Marked => \A n \in FrozenNodes(o) : cat'[n].state = "deleting"
    BY <1>2, <2>1, <2>2, <2>3 DEF RecSound
  <2>5. rec[o].state = "completed" => \A n \in FrozenNodes(o) : cat'[n].state = "absent"
    BY <1>2, <2>1, <2>2, <2>3 DEF RecSound
  <2>. QED  BY <1>4, <2>2, <2>4, <2>5 DEF RecSound
<1>6. Owned'
  <2>1. \A n \in Nodes : cat'[n].state = "deleting" => cat[n].state = "deleting"
    BY <1>2
  <2>. QED  BY <1>4, <2>1 DEF Owned
<1>7. \A o \in Ops : PcSound(o)'  BY <1>4 DEF PcSound
<1>8. \A o \in Ops : OneSection(o)'
  <2>1. \A o \in Ops : pc[o].at # "mark"  BY OpsAssumption DEF PcSound
  <2>. QED  BY <2>1 DEF OneSection, NoDeath
<1>9. \A s \in Sessions : DiskSound(s)'  BY <1>4 DEF DiskSound, Touched
<1>10. RetainedIsActive'
  <2>1. \A c \in claims : c[1] \in Nodes  BY DEF Typed, Nodes
  <2>. QED  BY <1>2, <2>1 DEF RetainedIsActive
<1>11. SubtreeIsClosed'
  <2>1. \A q \in Nodes : cat[q].state = "active" => cat'[q].state = "active"  BY <1>2
  <2>2. \A q \in Nodes \cup {Top} : Mutable(q) => Mutable(q)'  BY <2>1 DEF Mutable
  <2>3. ASSUME NEW n \in Nodes, cat'[n].state = "active",
               NEW m \in Nodes \cup {Top}, m = cat'[n].parent
        PROVE  /\ m # Top => cat'[m].state # "absent"
               /\ ~Mutable(m)' => upsets'.crash + upsets'.power > 0
    <3>1. CASE n = n0
      <4>1. m = p  BY <1>2, <2>3, <3>1
      <4>2. Mutable(m)'  BY <2>2, <4>1
      <4>. QED  BY <4>2 DEF Mutable
    <3>2. CASE n # n0
      <4>1. cat'[n] = cat[n]  BY <1>2, <3>2
      <4>2. /\ m # Top => cat[m].state # "absent"
            /\ ~Mutable(m) => upsets.crash + upsets.power > 0
        BY <2>3, <4>1 DEF SubtreeIsClosed
      <4>3. m # Top => cat'[m].state # "absent"
        BY <1>2, <4>2
      <4>. QED  BY <2>2, <4>2, <4>3
    <3>. QED  BY <3>1, <3>2
  <2>4. \A n \in Nodes : cat'[n].parent \in Nodes \cup {Top}  BY <1>1 DEF Typed, Rows
  <2>. QED  BY <2>3, <2>4 DEF SubtreeIsClosed, Mutable
<1>. QED  BY <1>1, <1>3, <1>5, <1>6, <1>7, <1>8, <1>9, <1>10, <1>11

(* Publications.                                                           *)
LEMMA PublishSound ==
    ASSUME DInv, NEW n \in Nodes, NEW p \in Nodes \cup {Top}, Publish(n, p)
    PROVE  DInv'
<1>1. 0 \in 0..MaxRevision  BY BoundAssumption
<1>2. cat[n].state = "absent"  BY DEF Publish, Absent
<1>3. \A o \in Ops : n \notin FrozenNodes(o)  BY DEF Publish
<1>4. /\ Mutable(p) /\ gate = "free"
      /\ cat' = [cat EXCEPT ![n] = [state |-> "active", parent |-> p, rev |-> 0]]
      /\ UNCHANGED <<rec, claims, disk, users, gate, pc, upsets>>
  BY DEF Publish
<1>. QED  BY <1>1, <1>2, <1>3, <1>4, NodeStep

(* Moves.                                                                  *)
LEMMA MoveSound ==
    ASSUME DInv, NEW n \in Nodes, NEW p \in Nodes \cup {Top}, Move(n, p)
    PROVE  DInv'
<1>1. cat[n] \in Rows /\ cat[n].state = "active"  BY DEF DInv, Typed, Move
<1>2. cat[n].rev + 1 \in 0..MaxRevision  BY <1>1, BoundAssumption DEF Move, Rows
<1>4. cat' = [cat EXCEPT ![n] = [state |-> "active", parent |-> p, rev |-> cat[n].rev + 1]]
  BY DEF Move
<1>5. /\ Mutable(p) /\ gate = "free"
      /\ UNCHANGED <<rec, claims, disk, users, gate, pc, upsets>>
  BY DEF Move
<1>6. PICK k \in 0..MaxRevision : k = cat[n].rev + 1  BY <1>2
<1>. QED  BY <1>1, <1>4, <1>5, <1>6, NodeStep

(* What does not touch the catalog or the upsets keeps the tree closed.    *)
LEMMA SameTree ==
    ASSUME cat' = cat, upsets' = upsets, SubtreeIsClosed
    PROVE  SubtreeIsClosed'
BY DEF SubtreeIsClosed, Mutable

(* Fork retention claims.                                                  *)
LEMMA ClaimSound ==
    ASSUME DInv, NEW s \in Sessions, NEW t \in Sessions, Claim(s, t)
    PROVE  DInv'
<1> USE DEF DInv
<1>0. UNCHANGED <<cat, rec, disk, users, gate, pc, upsets>> /\ claims' = claims \cup {<<s, t>>}
  BY DEF Claim
<1>1. Typed'  BY <1>0 DEF Typed
<1>2. \A n \in Nodes : NodeSound(n)'  BY <1>0 DEF NodeSound
<1>3. \A o \in Ops : FrozenNodes(o)' = FrozenNodes(o) /\ FrozenSessions(o)' = FrozenSessions(o)
  BY <1>0, SameFrozen
<1>4. \A o \in Ops : RecSound(o)'  BY <1>0, <1>3 DEF RecSound
<1>5. Owned'  BY <1>0, <1>3 DEF Owned
<1>6. \A o \in Ops : PcSound(o)'  BY <1>0, <1>3 DEF PcSound
<1>7. \A o \in Ops : OneSection(o)'  BY <1>0, <1>3 DEF OneSection, NoDeath, ClosedBelow
<1>8. \A q \in Sessions : DiskSound(q)'  BY <1>0, <1>3 DEF DiskSound, Touched
<1>9. RetainedIsActive'  BY <1>0 DEF RetainedIsActive, Claim
<1>10. SubtreeIsClosed'  BY <1>0, SameTree
<1>. QED  BY <1>1, <1>2, <1>4, <1>5, <1>6, <1>7, <1>8, <1>9, <1>10

(* A frozen node of a marked or completed record is not active.            *)
LEMMA FrozenIsClosed ==
    ASSUME DInv, NEW o \in Ops, rec[o].state \in Marked \cup {"completed"},
           NEW n \in FrozenNodes(o)
    PROVE  cat[n].state # "active"
BY DEF DInv, RecSound

(* A user that enters is in no Session of a marked or completed record.    *)
LEMMA UsersSound ==
    ASSUME DInv, NEW s \in Sessions, Enter(s) \/ Leave(s)
    PROVE  DInv'
<1> USE DEF DInv
<1>0. UNCHANGED <<cat, rec, claims, disk, gate, pc, upsets>>  BY DEF Enter, Leave
<1>1. users' \subseteq users \cup {s}  BY DEF Enter, Leave
<1>2. ASSUME NEW o \in Ops, rec[o].state \in Marked \cup {"completed"}, NEW q \in FrozenNodes(o),
             q \notin users
      PROVE  q \notin users'
  <2>1. cat[q].state # "active"  BY <1>2, FrozenIsClosed
  <2>. QED  BY <1>2, <2>1 DEF Enter, Leave
<1>3. Typed'  BY <1>0, <1>1 DEF Typed
<1>4. \A n \in Nodes : NodeSound(n)'  BY <1>0 DEF NodeSound
<1>5. \A o \in Ops : FrozenNodes(o)' = FrozenNodes(o) /\ FrozenSessions(o)' = FrozenSessions(o)
  BY <1>0, SameFrozen
<1>6. \A o \in Ops : RecSound(o)'  BY <1>0, <1>5 DEF RecSound
<1>7. Owned'  BY <1>0, <1>5 DEF Owned
<1>8. ASSUME NEW o \in Ops PROVE PcSound(o)'
  <2>1. PcSound(o)  OBVIOUS
  <2>2. pc[o].at \in {"fence", "rename", "sync", "progress"} => pc[o].s \notin users'
    <3>1. SUFFICES ASSUME pc[o].at \in {"fence", "rename", "sync", "progress"}
                   PROVE  pc[o].s \notin users'
      OBVIOUS
    <3>2. rec[o].state \in Marked /\ pc[o].s \in FrozenNodes(o) /\ pc[o].s \notin users
      BY <2>1, <3>1 DEF PcSound, FrozenSessions
    <3>. QED  BY <1>2, <3>2
  <2>. QED  BY <1>0, <1>5, <2>1, <2>2 DEF PcSound
<1>9. \A o \in Ops : OneSection(o)'  BY <1>0, <1>5 DEF OneSection, NoDeath, ClosedBelow
<1>10. ASSUME NEW q \in Sessions PROVE DiskSound(q)'
  <2>1. DiskSound(q)  OBVIOUS
  <2>2. Touched(q) => q \notin users'  BY <1>2, <2>1 DEF DiskSound
  <2>. QED  BY <1>0, <1>5, <2>1, <2>2 DEF DiskSound, Touched
<1>11. RetainedIsActive'  BY <1>0 DEF RetainedIsActive
<1>12. SubtreeIsClosed'  BY <1>0, SameTree
<1>. QED  BY <1>3, <1>4, <1>6, <1>7, <1>8, <1>9, <1>10, <1>11, <1>12

-----------------------------------------------------------------------------
(* Record and mark *)

(* The subtree of a node is closed under children.                         *)
LEMMA SubtreeClosed ==
    ASSUME NEW r
    PROVE  ClosedBelow(Subtree(r))
<1> SUFFICES ASSUME NEW n \in Nodes, cat[n].state # "absent", cat[n].parent \in Subtree(r),
                    NEW ns \in SUBSET Nodes, r \in ns, ClosedBelow(ns)
             PROVE  n \in ns
  BY DEF ClosedBelow, Subtree
<1>1. cat[n].parent \in ns  BY DEF Subtree
<1>. QED  BY <1>1 DEF ClosedBelow

LEMMA CreateRecordSound ==
    ASSUME DInv, NEW o \in Ops, NEW r \in Nodes, CreateRecord(o, r)
    PROVE  DInv'
<1> USE DEF DInv
<1>0. UNCHANGED <<cat, claims, disk, users, upsets>> /\ gate' = o /\ gate = "free"
  BY DEF CreateRecord
<1> DEFINE pairs == {<<n, cat[n].rev>> : n \in Subtree(r)}
           new == [state |-> "preparing", root |-> r, drained |-> {}, frozen |-> pairs]
<1>1. pairs \subseteq Nodes \X (0..MaxRevision)
  <2>1. \A n \in Subtree(r) : n \in Nodes /\ cat[n].state = "active"
    BY DEF CreateRecord, Freezable, Subtree
  <2>2. \A n \in Subtree(r) : cat[n].rev \in 0..MaxRevision
    BY <2>1, BoundAssumption DEF NodeSound, Typed, Rows
  <2>. QED  BY <2>1, <2>2
<1>2. {f[1] : f \in pairs} = Subtree(r)
  <2>1. \A f \in pairs : f[1] \in Subtree(r)  OBVIOUS
  <2>2. ASSUME NEW n \in Subtree(r) PROVE n \in {f[1] : f \in pairs}
    <3>1. <<n, cat[n].rev>> \in pairs /\ <<n, cat[n].rev>>[1] = n  OBVIOUS
    <3>. QED  BY <3>1
  <2>. QED  BY <2>1, <2>2
<1>3. new \in Records  BY <1>1 DEF Records
<1>4. new.state = "preparing" /\ new.drained = {} /\ new.frozen = pairs  OBVIOUS
<1>5. rec' = [rec EXCEPT ![o] = new]  BY Zenon DEF CreateRecord
<1> HIDE DEF pairs, new
<1>6. rec' \in [Ops -> Records] /\ rec'[o] = new /\ \A q \in Ops \ {o} : rec'[q] = rec[q]
  BY <1>3, <1>5, RecordTyped
<1>7. pc' \in [Ops -> Places] /\ pc'[o].at = "mark" /\ \A q \in Ops \ {o} : pc'[q] = pc[q]
  <2>1. Goto(o, "mark", Top)  BY DEF CreateRecord
  <2>2. pc'[o] = [at |-> "mark", s |-> Top]  BY <2>1, GotoTyped
  <2>3. pc' \in [Ops -> Places] /\ \A q \in Ops \ {o} : pc'[q] = pc[q]
    BY <2>1, GotoTyped
  <2>. QED  BY <2>2, <2>3
<1>8. Typed'  BY <1>0, <1>6, <1>7 DEF Typed
<1>9. \A n \in Nodes : NodeSound(n)'  BY <1>0 DEF NodeSound
<1>10. FrozenNodes(o)' = Subtree(r)  BY <1>2, <1>4, <1>6 DEF FrozenNodes
<1>11. \A q \in Ops \ {o} : FrozenNodes(q)' = FrozenNodes(q) /\ FrozenSessions(q)' = FrozenSessions(q)
  BY <1>6, SameFrozen
<1>12. rec'[o].state = "preparing" /\ rec'[o].drained = {}  BY <1>4, <1>6
<1>13. rec[o].state = "none"  BY DEF CreateRecord, NoRecord
<1>14. ASSUME NEW q \in Ops PROVE RecSound(q)'
  <2>1. CASE q = o  BY <1>12, <2>1 DEF RecSound, Marked
  <2>2. CASE q # o  BY <1>0, <1>6, <1>11, <2>2 DEF RecSound
  <2>. QED  BY <2>1, <2>2
<1>15. Owned'
  <2>1. \A n \in Nodes : cat'[n].state = "deleting" =>
          \E q \in Ops : rec'[q].state \in Marked /\ n \in FrozenNodes(q)'
    BY <1>0, <1>6, <1>11, <1>13 DEF Owned, Marked
  <2>2. rec'[o].state \notin Marked  BY <1>12 DEF Marked
  <2>3. \A p, q \in Ops : \A n \in FrozenNodes(p)' \cap FrozenNodes(q)' :
          rec'[p].state \in Marked /\ rec'[q].state \in Marked => p = q
    BY <1>6, <1>11, <2>2 DEF Owned
  <2>. QED  BY <2>1, <2>3 DEF Owned
<1>16. ASSUME NEW q \in Ops PROVE PcSound(q)'
  <2>1. CASE q = o  BY <1>0, <1>7, <1>12, <2>1 DEF PcSound
  <2>2. CASE q # o
    <3>1. gate # q /\ gate' # q  BY <1>0, <2>2, OpsAssumption
    <3>. QED  BY <1>0, <1>6, <1>7, <1>11, <2>2, <3>1 DEF PcSound
  <2>. QED  BY <2>1, <2>2
<1>17. ASSUME NEW q \in Ops PROVE OneSection(q)'
  <2>1. CASE q = o
    <3>1. ClosedBelow(Subtree(r))  BY SubtreeClosed
    <3>2. ClosedBelow(FrozenNodes(o))'  BY <1>0, <1>10, <3>1 DEF ClosedBelow
    <3>. QED  BY <1>7, <2>1, <3>2 DEF OneSection
  <2>2. CASE q # o
    BY <1>0, <1>6, <1>7, <1>11, <2>2 DEF OneSection, NoDeath, ClosedBelow
  <2>. QED  BY <2>1, <2>2
<1>18. ASSUME NEW s \in Sessions PROVE DiskSound(s)'
  <2>1. DiskSound(s)  OBVIOUS
  <2>2. ASSUME NEW q \in Ops, rec[q].state \in Marked \cup {"completed"}, s \in FrozenNodes(q)
        PROVE  rec'[q].state \in Marked \cup {"completed"} /\ s \in FrozenNodes(q)'
    <3>1. q # o  BY <1>13, <2>2 DEF Marked
    <3>. QED  BY <1>6, <1>11, <2>2, <3>1
  <2>. QED  BY <1>0, <2>1, <2>2 DEF DiskSound, Touched
<1>19. RetainedIsActive'  BY <1>0 DEF RetainedIsActive
<1>20. SubtreeIsClosed'  BY <1>0, SameTree
<1>. QED  BY <1>8, <1>9, <1>14, <1>15, <1>16, <1>17, <1>18, <1>19, <1>20

-----------------------------------------------------------------------------
(* The drain: one step of the coroutine of a marked record, which may      *)
(* change its own record and place, release claims, and touch the          *)
(* directory of a frozen Session of its own that nobody uses.              *)

LEMMA CoroutineStep ==
    ASSUME DInv, NEW o \in Ops, rec[o].state \in Marked,
           UNCHANGED <<cat, users, gate>>, claims' \subseteq claims,
           rec' \in [Ops -> Records], \A q \in Ops \ {o} : rec'[q] = rec[q],
           rec'[o].frozen = rec[o].frozen, rec'[o].state \in Marked,
           rec'[o].drained \subseteq FrozenSessions(o),
           \A s \in rec'[o].drained : disk'[s] = Gone,
           pc' \in [Ops -> Places], \A q \in Ops \ {o} : pc'[q] = pc[q],
           pc'[o].at # "mark", PcSound(o)',
           disk' \in [Sessions -> Directories],
           \A s \in Sessions : \/ disk'[s] = disk[s]
                               \/ /\ s \in FrozenSessions(o) \ rec[o].drained /\ s \notin users
                                  /\ disk'[s].fence = "deleting",
           upsets' \in [fault : Nat, crash : Nat, power : Nat],
           upsets'.crash = upsets.crash, upsets'.power = upsets.power
    PROVE  DInv'
<1> USE DEF DInv
<1>1. Typed'  BY DEF Typed
<1>2. \A q \in Ops : FrozenNodes(q)' = FrozenNodes(q) /\ FrozenSessions(q)' = FrozenSessions(q)
  BY SameFrozen
<1>3. \A q \in Ops : rec'[q].state \in Marked <=> rec[q].state \in Marked  OBVIOUS
<1>4. ASSUME NEW q \in Ops, q # o, rec[q].state \in Marked \cup {"completed"},
             NEW s \in FrozenSessions(q)
      PROVE  disk'[s] = disk[s]
  <2>1. s \in Sessions /\ s \in FrozenNodes(q)  BY DEF FrozenSessions
  <2>2. ASSUME s \in FrozenNodes(o) PROVE FALSE
    <3>1. CASE rec[q].state \in Marked  BY <1>4, <2>1, <2>2, <3>1 DEF Owned
    <3>2. CASE rec[q].state = "completed"
      <4>1. RecSound(q) /\ RecSound(o)  OBVIOUS
      <4>2. cat[s].state = "absent" /\ cat[s].state = "deleting"
        BY <2>1, <2>2, <3>2, <4>1 DEF RecSound
      <4>. QED  BY <4>2
    <3>. QED  BY <1>4, <3>1, <3>2
  <2>. QED  BY <2>1, <2>2 DEF FrozenSessions
<1>5. \A n \in Nodes : NodeSound(n)'  BY DEF NodeSound
<1>6. ASSUME NEW q \in Ops PROVE RecSound(q)'
  <2>0. RecSound(q)  OBVIOUS
  <2>1. CASE q = o
    <3>1. rec'[o].state \notin {"completed"}  BY DEF Marked
    <3>. QED  BY <1>2, <2>0, <2>1, <3>1 DEF RecSound
  <2>2. CASE q # o
    <3>1. rec'[q] = rec[q]  BY <2>2
    <3>2. \A s \in rec[q].drained : disk'[s] = Gone
      <4>1. SUFFICES ASSUME NEW s \in rec[q].drained PROVE disk'[s] = Gone  OBVIOUS
      <4>2. rec[q].state \in Marked \cup {"completed"} /\ s \in FrozenSessions(q) /\ disk[s] = Gone
        BY <2>0 DEF RecSound
      <4>. QED  BY <1>4, <2>2, <4>2
    <3>. QED  BY <1>2, <2>0, <3>1, <3>2 DEF RecSound
  <2>. QED  BY <2>1, <2>2
<1>7. Owned'
  <2>1. \A n \in Nodes : cat'[n].state = "deleting" =>
          \E q \in Ops : rec'[q].state \in Marked /\ n \in FrozenNodes(q)'
    BY <1>2, <1>3 DEF Owned
  <2>2. \A p, q \in Ops : \A n \in FrozenNodes(p)' \cap FrozenNodes(q)' :
          rec'[p].state \in Marked /\ rec'[q].state \in Marked => p = q
    BY <1>2, <1>3 DEF Owned
  <2>. QED  BY <2>1, <2>2 DEF Owned
<1>8. ASSUME NEW q \in Ops PROVE PcSound(q)'
  <2>1. CASE q = o  BY <2>1
  <2>2. CASE q # o
    <3>0. PcSound(q)  OBVIOUS
    <3>1. rec'[q] = rec[q] /\ pc'[q] = pc[q]  BY <2>2
    <3>2. ASSUME pc[q].at \in {"rename", "sync", "progress"} PROVE disk'[pc[q].s] = disk[pc[q].s]
      <4>1. rec[q].state \in Marked /\ pc[q].s \in FrozenSessions(q)
        BY <3>0, <3>2 DEF PcSound
      <4>. QED  BY <1>4, <2>2, <4>1
    <3>3. pc[q].at \in {"rename", "sync", "progress"} => disk'[pc[q].s].fence = "deleting"
      BY <3>0, <3>2 DEF PcSound
    <3>4. pc[q].at \in {"sync", "progress"} => disk'[pc[q].s].place = "isolated"
      BY <3>0, <3>2 DEF PcSound
    <3>5. pc[q].at = "progress" => disk'[pc[q].s].synced
      BY <3>0, <3>2, Zenon DEF PcSound
    <3>. QED  BY <1>2, <3>0, <3>1, <3>3, <3>4, <3>5 DEF PcSound
  <2>. QED  BY <2>1, <2>2
<1>9. ASSUME NEW q \in Ops PROVE OneSection(q)'
  <2>1. NoDeath' => NoDeath  BY DEF NoDeath
  <2>2. CASE q = o  BY <2>2 DEF OneSection, Marked
  <2>3. CASE q # o  BY <1>2, <2>1, <2>3 DEF OneSection, ClosedBelow
  <2>. QED  BY <2>2, <2>3
<1>10. ASSUME NEW s \in Sessions PROVE DiskSound(s)'
  <2>0. DiskSound(s)  OBVIOUS
  <2>1. \A q \in Ops : rec[q].state \in Marked \cup {"completed"} /\ s \in FrozenNodes(q) =>
          rec'[q].state \in Marked \cup {"completed"} /\ s \in FrozenNodes(q)'
    BY <1>2
  <2>2. CASE disk'[s] = disk[s]
    BY <2>0, <2>1, <2>2 DEF DiskSound, Touched
  <2>3. CASE s \in FrozenSessions(o) /\ s \notin users /\ disk'[s].fence = "deleting"
    BY <1>2, <2>3 DEF DiskSound, Touched, FrozenSessions
  <2>. QED  BY <2>2, <2>3
<1>11. RetainedIsActive'  BY DEF RetainedIsActive
<1>12. SubtreeIsClosed'  BY DEF SubtreeIsClosed, Mutable
<1>. QED  BY <1>1, <1>5, <1>6, <1>7, <1>8, <1>9, <1>10, <1>11, <1>12

(* What only moves the coroutine of a marked record, or releases claims.   *)
LEMMA OnlyMoves ==
    ASSUME DInv, NEW o \in Ops, rec[o].state \in Marked, gate # o,
           UNCHANGED <<cat, rec, disk, users, gate>>, claims' \subseteq claims,
           NEW s \in Sessions \cup {Top},
           NEW l \in {"idle", "drain", "wait", "fence", "sync"}, Goto(o, l, s),
           l \in {"wait", "fence", "sync"} => s \in FrozenSessions(o) \ rec[o].drained,
           l \in {"fence", "sync"} => s \notin users,
           l = "sync" => disk[s].fence = "deleting" /\ disk[s].place = "isolated",
           upsets' \in [fault : Nat, crash : Nat, power : Nat],
           upsets'.crash = upsets.crash, upsets'.power = upsets.power
    PROVE  DInv'
<1>0. Typed /\ RecSound(o)  BY DEF DInv
<1>1. /\ pc' \in [Ops -> Places] /\ pc'[o] = [at |-> l, s |-> s]
      /\ \A q \in Ops \ {o} : pc'[q] = pc[q]
  <2>1. l \in {"idle", "mark", "drain", "wait", "fence", "rename", "sync", "progress"}
    OBVIOUS
  <2>2. pc' = [pc EXCEPT ![o] = [at |-> l, s |-> s]] /\ pc \in [Ops -> Places]
    BY <1>0 DEF Goto, Typed
  <2>3. [at |-> l, s |-> s] \in Places  BY <2>1 DEF Places
  <2>. QED  BY <2>2, <2>3
<1>2. pc'[o].at = l /\ pc'[o].s = s  BY <1>1
<1>3. FrozenSessions(o)' = FrozenSessions(o)  BY SameFrozen
<1>4. PcSound(o)'  BY <1>2, <1>3 DEF PcSound
<1>5. rec' \in [Ops -> Records] /\ disk' \in [Sessions -> Directories]  BY <1>0 DEF Typed
<1>6. /\ rec'[o].drained \subseteq FrozenSessions(o)
      /\ \A q \in rec'[o].drained : disk'[q] = Gone
  BY <1>0 DEF RecSound
<1>7. pc'[o].at # "mark"  BY <1>2
<1>. QED  BY <1>1, <1>4, <1>5, <1>6, <1>7, CoroutineStep

(* A coroutine behind the mark belongs to a marked record and is outside   *)
(* the exclusive section.                                                  *)
LEMMA Draining ==
    ASSUME DInv, NEW o \in Ops, pc[o].at \notin {"idle", "mark"}
    PROVE  rec[o].state \in Marked /\ gate # o /\ RecSound(o) /\ PcSound(o) /\ Typed
BY DEF DInv, PcSound

LEMMA DrainNextSound ==
    ASSUME DInv, NEW o \in Ops, NEW s \in Sessions, DrainNext(o, s)
    PROVE  DInv'
<1>0. pc[o].at = "drain" /\ UNCHANGED <<cat, rec, disk, users, gate, upsets>>
  BY DEF DrainNext
<1>1. rec[o].state \in Marked /\ gate # o /\ Typed  BY <1>0, Draining
<1>2. s \in FrozenSessions(o) \ rec[o].drained  BY DEF DrainNext
<1>3. /\ upsets' \in [fault : Nat, crash : Nat, power : Nat]
      /\ upsets'.crash = upsets.crash /\ upsets'.power = upsets.power
  BY <1>0, <1>1 DEF Typed
<1>4. CASE disk[s].place = "isolated" /\ Goto(o, "sync", s) /\ UNCHANGED claims
  <2>1. DiskSound(s)  BY DEF DInv
  <2>2. s \notin users /\ disk[s].fence = "deleting"  BY <1>4, <2>1 DEF DiskSound, Touched
  <2>3. claims' \subseteq claims  BY <1>4
  <2>. QED  BY <1>0, <1>1, <1>2, <1>3, <1>4, <2>2, <2>3, OnlyMoves
<1>5. CASE claims' = {c \in claims : c[2] # s} /\ Goto(o, "wait", s)
  <2>1. claims' \subseteq claims  BY <1>5
  <2>. QED  BY <1>0, <1>1, <1>2, <1>3, <1>5, <2>1, OnlyMoves
<1>. QED  BY <1>4, <1>5 DEF DrainNext

LEMMA EnterGateSound ==
    ASSUME DInv, NEW o \in Ops, EnterGate(o)
    PROVE  DInv'
<1>0. pc[o].at = "wait" /\ pc[o].s \notin users
      /\ UNCHANGED <<cat, rec, claims, disk, users, gate, upsets>>
  BY DEF EnterGate
<1>1. rec[o].state \in Marked /\ gate # o /\ Typed /\ PcSound(o)  BY <1>0, Draining
<1>2. PICK s \in Sessions : s = pc[o].s
  BY <1>0, <1>1 DEF PcSound, FrozenSessions
<1>3. s \in FrozenSessions(o) \ rec[o].drained /\ s \notin users
  BY <1>0, <1>1, <1>2 DEF PcSound
<1>4. Goto(o, "fence", s)  BY <1>2 DEF EnterGate
<1>5. /\ upsets' \in [fault : Nat, crash : Nat, power : Nat]
      /\ upsets'.crash = upsets.crash /\ upsets'.power = upsets.power
  BY <1>0, <1>1 DEF Typed
<1>6. claims' \subseteq claims  BY <1>0
<1>. QED  BY <1>0, <1>1, <1>3, <1>4, <1>5, <1>6, OnlyMoves

LEMMA DrainFailsSound ==
    ASSUME DInv, NEW o \in Ops, DrainFails(o)
    PROVE  DInv'
<1>0. pc[o].at = "fence" /\ UNCHANGED <<cat, rec, claims, disk, users, gate>>
      /\ Upset("fault") /\ Goto(o, "idle", Top)
  BY DEF DrainFails
<1>1. rec[o].state \in Marked /\ gate # o /\ Typed  BY <1>0, Draining
<1>2. /\ upsets' \in [fault : Nat, crash : Nat, power : Nat]
      /\ upsets'.crash = upsets.crash /\ upsets'.power = upsets.power
  BY <1>0, <1>1, UpsetTyped DEF Upset, Typed
<1>3. claims' \subseteq claims  BY <1>0
<1>. QED  BY <1>0, <1>1, <1>2, <1>3, OnlyMoves

(* A step of the drain that changes the directory of its Session.          *)
LEMMA DirectoryStep ==
    ASSUME DInv, NEW o \in Ops, pc[o].at \in {"fence", "rename", "sync"},
           UNCHANGED <<cat, rec, claims, users, gate, upsets>>,
           disk' \in [Sessions -> Directories],
           \A q \in Sessions \ {pc[o].s} : disk'[q] = disk[q],
           disk'[pc[o].s].fence = "deleting",
           NEW l \in {"rename", "sync", "progress"}, Goto(o, l, pc[o].s),
           l \in {"sync", "progress"} => disk'[pc[o].s].place = "isolated",
           l = "progress" => disk'[pc[o].s].synced
    PROVE  DInv'
<1>1. /\ rec[o].state \in Marked /\ gate # o /\ Typed /\ PcSound(o) /\ RecSound(o)
  BY Draining
<1>2. PICK s \in Sessions : s = pc[o].s
  BY <1>1 DEF PcSound, FrozenSessions
<1>3. s \in FrozenSessions(o) \ rec[o].drained /\ s \notin users
  BY <1>1, <1>2 DEF PcSound
<1>4. /\ pc' \in [Ops -> Places] /\ pc'[o] = [at |-> l, s |-> s]
      /\ \A q \in Ops \ {o} : pc'[q] = pc[q]
  <2>0. l \in {"idle", "mark", "drain", "wait", "fence", "rename", "sync", "progress"}
    OBVIOUS
  <2>1. Goto(o, l, s)  BY <1>2
  <2>2. pc' = [pc EXCEPT ![o] = [at |-> l, s |-> s]] /\ pc \in [Ops -> Places]
    BY <1>1, <2>1 DEF Goto, Typed
  <2>3. [at |-> l, s |-> s] \in Places  BY <2>0 DEF Places
  <2>. QED  BY <2>2, <2>3
<1>5. pc'[o].at = l /\ pc'[o].s = s  BY <1>4
<1>6. \A q \in Sessions \ {s} : disk'[q] = disk[q]  BY <1>2
<1>7. FrozenSessions(o)' = FrozenSessions(o)  BY SameFrozen
<1>8. PcSound(o)'
  <2>1. rec'[o].state \in Marked /\ gate' # o  BY <1>1
  <2>2. s \in FrozenSessions(o)' \ rec'[o].drained /\ s \notin users'  BY <1>3, <1>7
  <2>3. disk'[s].fence = "deleting"  BY <1>2
  <2>4. l \in {"sync", "progress"} => disk'[s].place = "isolated"  BY <1>2
  <2>5. l = "progress" => disk'[s].synced  BY <1>2
  <2>. QED  BY <1>5, <2>1, <2>2, <2>3, <2>4, <2>5 DEF PcSound
<1>9. \A q \in rec'[o].drained : disk'[q] = Gone
  BY <1>1, <1>3, <1>6 DEF RecSound, FrozenSessions, Typed, Records
<1>10. rec' \in [Ops -> Records] /\ rec'[o].drained \subseteq FrozenSessions(o)
  BY <1>1 DEF Typed, RecSound
<1>11. \A q \in Sessions : \/ disk'[q] = disk[q]
                           \/ /\ q \in FrozenSessions(o) \ rec[o].drained /\ q \notin users
                              /\ disk'[q].fence = "deleting"
  BY <1>2, <1>3, <1>6
<1>12. upsets' \in [fault : Nat, crash : Nat, power : Nat]  BY <1>1 DEF Typed
<1>13. pc'[o].at # "mark"  BY <1>5
<1>. QED  BY <1>1, <1>4, <1>6, <1>8, <1>9, <1>10, <1>11, <1>12, <1>13, CoroutineStep

LEMMA CloseFenceSound ==
    ASSUME DInv, NEW o \in Ops, CloseFence(o)
    PROVE  DInv'
<1>0. pc[o].at = "fence" /\ UNCHANGED <<cat, rec, claims, users, gate, upsets>>
      /\ disk' = [disk EXCEPT ![pc[o].s].fence = "deleting"]
      /\ Goto(o, "rename", pc[o].s)
  BY DEF CloseFence
<1>1. Typed /\ pc[o].s \in Sessions  BY <1>0, Draining DEF PcSound, FrozenSessions
<1>2. /\ disk' \in [Sessions -> Directories] /\ disk'[pc[o].s].fence = "deleting"
      /\ \A q \in Sessions \ {pc[o].s} : disk'[q] = disk[q]
  BY <1>0, <1>1, SMTT(40) DEF Typed, Directories
<1>. QED  BY <1>0, <1>2, DirectoryStep

LEMMA IsolateSound ==
    ASSUME DInv, NEW o \in Ops, Isolate(o)
    PROVE  DInv'
<1>0. pc[o].at = "rename" /\ UNCHANGED <<cat, rec, claims, users, gate, upsets>>
      /\ disk' = [disk EXCEPT ![pc[o].s].place = "isolated", ![pc[o].s].synced = FALSE]
      /\ Goto(o, "sync", pc[o].s)
  BY DEF Isolate
<1>1. Typed /\ pc[o].s \in Sessions /\ disk[pc[o].s].fence = "deleting"
  BY <1>0, Draining DEF PcSound, FrozenSessions
<1>2. /\ disk' \in [Sessions -> Directories]
      /\ disk'[pc[o].s].fence = "deleting" /\ disk'[pc[o].s].place = "isolated"
      /\ \A q \in Sessions \ {pc[o].s} : disk'[q] = disk[q]
  BY <1>0, <1>1 DEF Typed, Directories
<1>. QED  BY <1>0, <1>2, DirectoryStep

LEMMA BarrierSound ==
    ASSUME DInv, NEW o \in Ops, Barrier(o)
    PROVE  DInv'
<1>0. pc[o].at = "sync" /\ UNCHANGED <<cat, rec, claims, users, gate, upsets>>
      /\ disk' = [disk EXCEPT ![pc[o].s].synced = TRUE]
      /\ Goto(o, "progress", pc[o].s)
  BY DEF Barrier
<1>1. /\ Typed /\ pc[o].s \in Sessions
      /\ disk[pc[o].s].fence = "deleting" /\ disk[pc[o].s].place = "isolated"
  BY <1>0, Draining DEF PcSound, FrozenSessions
<1>2. /\ disk' \in [Sessions -> Directories]
      /\ disk'[pc[o].s].fence = "deleting" /\ disk'[pc[o].s].place = "isolated"
      /\ \A q \in Sessions \ {pc[o].s} : disk'[q] = disk[q]
  BY <1>0, <1>1, ZenonT(60) DEF Typed, Directories
<1>3. disk'[pc[o].s].synced  BY <1>0, <1>1 DEF Typed, Directories
<1>. QED  BY <1>0, <1>2, <1>3, DirectoryStep

(* The progress of a Session is recorded behind its barrier.               *)
LEMMA RecordProgressSound ==
    ASSUME DInv, NEW o \in Ops, RecordProgress(o)
    PROVE  DInv'
<1>0. pc[o].at = "progress" /\ UNCHANGED <<cat, claims, disk, users, gate, upsets>>
      /\ Goto(o, "drain", Top)
  BY DEF RecordProgress
<1>1. rec[o].state \in Marked /\ gate # o /\ RecSound(o) /\ PcSound(o) /\ Typed
  BY <1>0, Draining
<1>2. PICK s \in Sessions : s = pc[o].s
  BY <1>0, <1>1 DEF PcSound, FrozenSessions
<1>3. s \in FrozenSessions(o)  BY <1>0, <1>1, <1>2 DEF PcSound
<1>4. disk[s] = Gone
  <2>1. disk[s].fence = "deleting" /\ disk[s].place = "isolated"
    BY <1>0, <1>1, <1>2 DEF PcSound
  <2>2. disk[s].synced  BY <1>0, <1>1, <1>2 DEF PcSound
  <2>3. disk[s] \in Directories  BY <1>1 DEF Typed
  <2>4. disk[s].synced = TRUE  BY <2>2, <2>3 DEF Directories
  <2>. QED  BY <2>1, <2>3, <2>4 DEF Directories, Gone
<1>5. rec' = [rec EXCEPT ![o].state = "draining", ![o].drained = @ \cup {s}]
  BY <1>2 DEF RecordProgress
<1>6. rec \in [Ops -> Records]  BY <1>1 DEF Typed
<1>9. rec' \in [Ops -> Records] /\ \A q \in Ops \ {o} : rec'[q] = rec[q]
  BY <1>5, <1>6, ZenonT(60) DEF Records
<1>11. /\ rec'[o].state = "draining" /\ rec'[o].drained = rec[o].drained \cup {s}
       /\ rec'[o].frozen = rec[o].frozen
  BY <1>5, <1>6 DEF Records
<1>12. rec'[o].state \in Marked  BY <1>11 DEF Marked
<1>13. rec'[o].drained \subseteq FrozenSessions(o)  BY <1>1, <1>3, <1>11 DEF RecSound
<1>14. \A q \in rec'[o].drained : disk'[q] = Gone
  BY <1>0, <1>1, <1>4, <1>11 DEF RecSound
<1>15. pc'[o] = [at |-> "drain", s |-> Top]  BY <1>0, <1>1, GotoTyped
<1>16. pc' \in [Ops -> Places] /\ \A q \in Ops \ {o} : pc'[q] = pc[q]
  BY <1>0, <1>1, GotoTyped
<1>17. pc'[o].at = "drain"  BY <1>15
<1>18. PcSound(o)'  BY <1>0, <1>1, <1>12, <1>17 DEF PcSound
<1>19. /\ disk' \in [Sessions -> Directories] /\ \A q \in Sessions : disk'[q] = disk[q]
       /\ upsets' \in [fault : Nat, crash : Nat, power : Nat]
       /\ upsets'.crash = upsets.crash /\ upsets'.power = upsets.power
       /\ claims' \subseteq claims
  BY <1>0, <1>1 DEF Typed
<1>. QED
  BY <1>0, <1>1, <1>9, <1>11, <1>12, <1>13, <1>14, <1>16, <1>17, <1>18, <1>19, CoroutineStep

-----------------------------------------------------------------------------
(* The exclusive section: retry, mark, rejection *)

(* Outside the section nobody is about to mark.                            *)
LEMMA NobodyMarks ==
    ASSUME DInv, gate = "free"
    PROVE  \A o \in Ops : pc[o].at # "mark"
BY OpsAssumption DEF DInv, PcSound

(* While o is in the section nobody else is about to mark.                 *)
LEMMA SoleMarker ==
    ASSUME DInv, NEW o \in Ops, pc[o].at = "mark"
    PROVE  gate = o /\ rec[o].state = "preparing" /\ \A q \in Ops \ {o} : pc[q].at # "mark"
BY DEF DInv, PcSound

LEMMA RetrySound ==
    ASSUME DInv, NEW o \in Ops, Retry(o)
    PROVE  DInv'
<1> USE DEF DInv
<1>0. /\ UNCHANGED <<cat, rec, claims, disk, users, upsets>> /\ gate = "free"
      /\ pc[o].at = "idle"
  BY DEF Retry, Idle
<1>1. \A q \in Ops : pc[q].at # "mark"  BY <1>0, NobodyMarks
<1>2. CASE rec[o].state \in Marked /\ Goto(o, "drain", Top) /\ UNCHANGED gate
  <2>1. gate # o  BY <1>0, OpsAssumption
  <2>2. /\ upsets' \in [fault : Nat, crash : Nat, power : Nat]
        /\ upsets'.crash = upsets.crash /\ upsets'.power = upsets.power
        /\ claims' \subseteq claims
    BY <1>0 DEF Typed
  <2>. QED  BY <1>0, <1>2, <2>1, <2>2, OnlyMoves
<1>3. CASE rec[o].state = "preparing" /\ gate' = o /\ Goto(o, "mark", Top)
  <2>1. pc'[o] = [at |-> "mark", s |-> Top]  BY <1>3, GotoTyped
  <2>2. pc' \in [Ops -> Places] /\ \A q \in Ops \ {o} : pc'[q] = pc[q]
    BY <1>3, GotoTyped
  <2>3. pc'[o].at = "mark"  BY <2>1
  <2>4. Typed'  BY <1>0, <1>3, <2>2 DEF Typed
  <2>5. \A n \in Nodes : NodeSound(n)'  BY <1>0 DEF NodeSound
  <2>6. \A q \in Ops : FrozenNodes(q)' = FrozenNodes(q) /\ FrozenSessions(q)' = FrozenSessions(q)
    BY <1>0, SameFrozen
  <2>7. \A q \in Ops : RecSound(q)'  BY <1>0, <2>6 DEF RecSound
  <2>8. Owned'  BY <1>0, <2>6 DEF Owned
  <2>9. ASSUME NEW q \in Ops PROVE PcSound(q)'
    <3>1. CASE q = o  BY <1>0, <1>3, <2>3, <3>1 DEF PcSound
    <3>2. CASE q # o  BY <1>0, <1>1, <1>3, <2>2, <2>6, <3>2 DEF PcSound
    <3>. QED  BY <3>1, <3>2
  <2>10. ~NoDeath
    <3>1. OneSection(o)  OBVIOUS
    <3>. QED  BY <1>1, <1>3, <3>1 DEF OneSection
  <2>11. \A q \in Ops : OneSection(q)'  BY <1>0, <2>10 DEF OneSection, NoDeath
  <2>12. \A s \in Sessions : DiskSound(s)'  BY <1>0, <2>6 DEF DiskSound, Touched
  <2>13. RetainedIsActive'  BY <1>0 DEF RetainedIsActive
  <2>14. SubtreeIsClosed'  BY <1>0, SameTree
  <2>. QED  BY <2>4, <2>5, <2>7, <2>8, <2>9, <2>11, <2>12, <2>13, <2>14
<1>. QED  BY <1>2, <1>3 DEF Retry

LEMMA RejectMarkSound ==
    ASSUME DInv, NEW o \in Ops, RejectMark(o)
    PROVE  DInv'
<1> USE DEF DInv
<1>0. /\ UNCHANGED <<cat, claims, disk, users, upsets>> /\ gate' = "free"
      /\ rec' = [rec EXCEPT ![o].state = "aborted"] /\ Goto(o, "idle", Top)
  BY DEF RejectMark
<1>1. gate = o /\ rec[o].state = "preparing" /\ \A q \in Ops \ {o} : pc[q].at # "mark"
  BY SoleMarker DEF RejectMark
<1>2. gate' \notin Ops  BY <1>0, OpsAssumption
<1>3. pc'[o] = [at |-> "idle", s |-> Top]  BY <1>0, GotoTyped
<1>4. pc' \in [Ops -> Places] /\ \A q \in Ops \ {o} : pc'[q] = pc[q]
  BY <1>0, GotoTyped
<1>5. /\ rec' \in [Ops -> Records] /\ \A q \in Ops \ {o} : rec'[q] = rec[q]
      /\ rec'[o].state = "aborted" /\ rec'[o].frozen = rec[o].frozen
      /\ rec'[o].drained = rec[o].drained
  BY <1>0 DEF Typed, Records
<1>6. Typed'  BY <1>0, <1>4, <1>5 DEF Typed
<1>7. \A n \in Nodes : NodeSound(n)'  BY <1>0 DEF NodeSound
<1>8. \A q \in Ops : FrozenNodes(q)' = FrozenNodes(q) /\ FrozenSessions(q)' = FrozenSessions(q)
  BY <1>5, SameFrozen
<1>9. \A q \in Ops : rec'[q].state \in Marked \cup {"completed"} <=>
                     rec[q].state \in Marked \cup {"completed"}
  BY <1>1, <1>5 DEF Marked
<1>10. ASSUME NEW q \in Ops PROVE RecSound(q)'
  <2>1. CASE q = o  BY <1>0, <1>1, <1>5, <1>8, <2>1 DEF RecSound, Marked
  <2>2. CASE q # o  BY <1>0, <1>5, <1>8, <2>2 DEF RecSound
  <2>. QED  BY <2>1, <2>2
<1>11. Owned'
  <2>1. \A q \in Ops : rec'[q].state \in Marked <=> rec[q].state \in Marked
    BY <1>1, <1>5 DEF Marked
  <2>. QED  BY <1>0, <1>8, <2>1 DEF Owned
<1>12. ASSUME NEW q \in Ops PROVE PcSound(q)'
  <2>1. CASE q = o
    <3>1. pc'[o].at = "idle" /\ gate' # o  BY <1>2, <1>3
    <3>. QED  BY <2>1, <3>1 DEF PcSound
  <2>2. CASE q # o
    <3>1. gate' # q  BY <1>2
    <3>. QED  BY <1>0, <1>1, <1>4, <1>5, <1>8, <2>2, <3>1 DEF PcSound
  <2>. QED  BY <2>1, <2>2
<1>13. ASSUME NEW q \in Ops PROVE OneSection(q)'
  <2>1. CASE q = o  BY <1>3, <1>5, <2>1 DEF OneSection
  <2>2. CASE q # o  BY <1>0, <1>1, <1>4, <1>5, <2>2 DEF OneSection, NoDeath
  <2>. QED  BY <2>1, <2>2
<1>14. \A s \in Sessions : DiskSound(s)'  BY <1>0, <1>8, <1>9 DEF DiskSound, Touched
<1>15. RetainedIsActive'  BY <1>0 DEF RetainedIsActive
<1>16. SubtreeIsClosed'  BY <1>0, SameTree
<1>. QED  BY <1>6, <1>7, <1>10, <1>11, <1>12, <1>13, <1>14, <1>15, <1>16

(* The mark: every frozen node is still active, none is pinned, and the    *)
(* children of a frozen node are frozen unless something died.             *)
LEMMA MarkSound ==
    ASSUME DInv, NEW o \in Ops, Mark(o)
    PROVE  DInv'
<1> USE DEF DInv
<1>0. /\ UNCHANGED <<claims, disk, users, upsets>> /\ gate' = "free"
      /\ rec' = [rec EXCEPT ![o].state = "deleting"] /\ Goto(o, "drain", Top)
  BY DEF Mark
<1>1. gate = o /\ rec[o].state = "preparing" /\ \A q \in Ops \ {o} : pc[q].at # "mark"
  BY SoleMarker DEF Mark
<1>2. gate' \notin Ops  BY <1>0, OpsAssumption
<1>3. pc'[o] = [at |-> "drain", s |-> Top]  BY <1>0, GotoTyped
<1>4. pc' \in [Ops -> Places] /\ \A q \in Ops \ {o} : pc'[q] = pc[q]
  BY <1>0, GotoTyped
<1>5. /\ rec' \in [Ops -> Records] /\ \A q \in Ops \ {o} : rec'[q] = rec[q]
      /\ rec'[o].state = "deleting" /\ rec'[o].frozen = rec[o].frozen
      /\ rec'[o].drained = rec[o].drained
  BY <1>0 DEF Typed, Records
<1>6. FrozenNodes(o) \subseteq Nodes  BY FrozenAreNodes
<1>7. \A n \in FrozenNodes(o) : cat[n].state = "active"
  BY DEF Mark, MayMark, FrozenNodes
<1>8. cat' = [n \in Nodes |-> IF n \in FrozenNodes(o)
                             THEN [cat[n] EXCEPT !.state = "deleting", !.rev = @ + 1] ELSE cat[n]]
  BY DEF Mark
<1>9. \A n \in Nodes \ FrozenNodes(o) : cat'[n] = cat[n]  BY <1>8
<1>10. ASSUME NEW n \in FrozenNodes(o)
       PROVE  cat'[n] \in Rows /\ cat'[n].state = "deleting" /\ cat'[n].parent = cat[n].parent
  <2>1. n \in Nodes /\ cat[n] \in Rows  BY <1>6 DEF Typed
  <2>2. cat[n].rev + 1 \in 0..MaxRevision + 1
    BY <1>7, <2>1, BoundAssumption DEF NodeSound, Rows
  <2>3. cat'[n] = [cat[n] EXCEPT !.state = "deleting", !.rev = @ + 1]  BY <1>8, <2>1
  <2>. QED  BY <2>1, <2>2, <2>3 DEF Rows
<1>11. Typed'
  <2>1. cat' \in [Nodes -> Rows]
    <3>1. \A n \in Nodes : cat'[n] \in Rows  BY <1>9, <1>10 DEF Typed
    <3>. QED  BY <1>8, <3>1
  <2>. QED  BY <1>0, <1>4, <1>5, <2>1 DEF Typed
<1>12. \A n \in Nodes : NodeSound(n)'  BY <1>9, <1>10 DEF NodeSound
<1>13. \A q \in Ops : FrozenNodes(q)' = FrozenNodes(q) /\ FrozenSessions(q)' = FrozenSessions(q)
  BY <1>5, SameFrozen
<1>14. ASSUME NEW q \in Ops, rec[q].state \in Marked \cup {"completed"}, NEW n \in FrozenNodes(q)
       PROVE  n \in Nodes /\ n \notin FrozenNodes(o) /\ cat'[n] = cat[n]
  <2>1. n \in Nodes  BY FrozenAreNodes
  <2>2. cat[n].state # "active"  BY <1>14, FrozenIsClosed
  <2>. QED  BY <1>7, <1>9, <2>1, <2>2
<1>15. ASSUME NEW q \in Ops PROVE RecSound(q)'
  <2>0. RecSound(q)  OBVIOUS
  <2>1. CASE q = o
    <3>1. rec[o].drained = {}  BY <1>1, <2>0, <2>1 DEF RecSound, Marked
    <3>. QED  BY <1>5, <1>10, <1>13, <2>1, <3>1 DEF RecSound, Marked
  <2>2. CASE q # o
    <3>1. rec'[q] = rec[q]  BY <1>5, <2>2
    <3>2. rec[q].state \in Marked => \A n \in FrozenNodes(q) : cat'[n].state = "deleting"
      BY <1>14, <2>0 DEF RecSound
    <3>3. rec[q].state = "completed" => \A n \in FrozenNodes(q) : cat'[n].state = "absent"
      BY <1>14, <2>0 DEF RecSound
    <3>. QED  BY <1>0, <1>13, <2>0, <3>1, <3>2, <3>3 DEF RecSound
  <2>. QED  BY <2>1, <2>2
<1>16. Owned'
  <2>0. rec'[o].state \in Marked /\ rec[o].state \notin Marked  BY <1>1, <1>5 DEF Marked
  <2>1. ASSUME NEW n \in Nodes, cat'[n].state = "deleting"
        PROVE  \E q \in Ops : rec'[q].state \in Marked /\ n \in FrozenNodes(q)
    <3>1. CASE n \in FrozenNodes(o)  BY <2>0, <3>1
    <3>2. CASE n \notin FrozenNodes(o)
      <4>1. cat[n].state = "deleting"  BY <1>9, <2>1, <3>2
      <4>2. PICK q \in Ops : rec[q].state \in Marked /\ n \in FrozenNodes(q)
        BY <4>1 DEF Owned
      <4>. QED  BY <1>5, <2>0, <4>2
    <3>. QED  BY <3>1, <3>2
  <2>2. ASSUME NEW q \in Ops, NEW r \in Ops, NEW n \in FrozenNodes(q) \cap FrozenNodes(r),
               rec'[q].state \in Marked, rec'[r].state \in Marked
        PROVE  q = r
    <3>1. CASE q # o /\ r # o
      <4>1. rec[q].state \in Marked /\ rec[r].state \in Marked  BY <1>5, <2>2, <3>1
      <4>. QED  BY <4>1 DEF Owned
    <3>2. ASSUME NEW x \in Ops \ {o}, rec'[x].state \in Marked, n \in FrozenNodes(x),
                 n \in FrozenNodes(o)
          PROVE  FALSE
      <4>1. rec[x].state \in Marked \cup {"completed"}  BY <1>5, <3>2
      <4>. QED  BY <1>14, <3>2, <4>1
    <3>. QED  BY <2>2, <3>1, <3>2
  <2>. QED  BY <1>13, <2>1, <2>2 DEF Owned
<1>17. ASSUME NEW q \in Ops PROVE PcSound(q)'
  <2>1. CASE q = o
    <3>1. pc'[o].at = "drain" /\ gate' # o /\ rec'[o].state \in Marked
      BY <1>2, <1>3, <1>5 DEF Marked
    <3>. QED  BY <2>1, <3>1 DEF PcSound
  <2>2. CASE q # o
    <3>1. gate' # q  BY <1>2
    <3>. QED  BY <1>0, <1>1, <1>4, <1>5, <1>13, <2>2, <3>1 DEF PcSound
  <2>. QED  BY <2>1, <2>2
<1>18. ASSUME NEW q \in Ops PROVE OneSection(q)'
  <2>1. CASE q = o  BY <1>3, <1>5, <2>1 DEF OneSection
  <2>2. CASE q # o  BY <1>0, <1>1, <1>4, <1>5, <2>2 DEF OneSection, NoDeath
  <2>. QED  BY <2>1, <2>2
<1>19. ASSUME NEW s \in Sessions PROVE DiskSound(s)'
  <2>1. DiskSound(s)  OBVIOUS
  <2>2. \A q \in Ops : rec[q].state \in Marked \cup {"completed"} =>
                       rec'[q].state \in Marked \cup {"completed"}
    BY <1>5 DEF Marked
  <2>. QED  BY <1>0, <1>13, <2>1, <2>2 DEF DiskSound, Touched
<1>20. RetainedIsActive'
  <2>1. SUFFICES ASSUME NEW c \in claims PROVE cat'[c[1]].state = "active"
    BY <1>0 DEF RetainedIsActive
  <2>2. c[1] \in Sessions /\ c[2] \in Sessions /\ c = <<c[1], c[2]>>  BY DEF Typed
  <2>3. c[1] \notin FrozenNodes(o)  BY <2>2 DEF Mark, MayMark, FrozenSessions
  <2>. QED  BY <1>9, <2>2, <2>3 DEF RetainedIsActive, Nodes
<1>21. SubtreeIsClosed'
  <2>1. ASSUME NEW n \in Nodes, cat'[n].state = "active",
               NEW m \in Nodes \cup {Top}, m = cat'[n].parent
        PROVE  /\ m # Top => cat'[m].state # "absent"
               /\ ~Mutable(m)' => upsets'.crash + upsets'.power > 0
    <3>1. n \notin FrozenNodes(o) /\ cat[n] = cat'[n]  BY <1>9, <1>10, <2>1
    <3>2. /\ m # Top => cat[m].state # "absent"
          /\ ~Mutable(m) => upsets.crash + upsets.power > 0
      BY <2>1, <3>1 DEF SubtreeIsClosed
    <3>3. m # Top => cat'[m].state # "absent"  BY <1>9, <1>10, <3>2
    <3>4. ASSUME Mutable(m), ~Mutable(m)' PROVE ~NoDeath
      <4>1. m \in FrozenNodes(o)  BY <1>6, <1>9, <3>4 DEF Mutable
      <4>2. OneSection(o) /\ pc[o].at = "mark"  BY DEF Mark
      <4>. QED  BY <2>1, <3>1, <4>1, <4>2 DEF OneSection, ClosedBelow
    <3>5. ~NoDeath => upsets.crash + upsets.power > 0  BY DEF NoDeath, Typed
    <3>. QED  BY <1>0, <3>2, <3>3, <3>4, <3>5
  <2>2. \A n \in Nodes : cat'[n].parent \in Nodes \cup {Top}  BY <1>11 DEF Typed, Rows
  <2>. QED  BY <2>1, <2>2 DEF SubtreeIsClosed, Mutable
<1>. QED
  BY <1>11, <1>12, <1>15, <1>16, <1>17, <1>18, <1>19, <1>20, <1>21

-----------------------------------------------------------------------------
(* The end of a deletion, and deaths *)

LEMMA FinishSound ==
    ASSUME DInv, NEW o \in Ops, Finish(o)
    PROVE  DInv'
<1> USE DEF DInv
<1>0. /\ UNCHANGED <<claims, disk, users, gate, upsets>> /\ gate = "free"
      /\ pc[o].at = "drain" /\ Goto(o, "idle", Top)
  BY DEF Finish
<1>1. rec[o].state \in Marked /\ gate # o /\ RecSound(o) /\ Typed  BY <1>0, Draining
<1>2. \A q \in Ops : pc[q].at # "mark"  BY <1>0, NobodyMarks
<1>3. CASE UNCHANGED <<cat, rec>>
  <2>1. /\ upsets' \in [fault : Nat, crash : Nat, power : Nat]
        /\ upsets'.crash = upsets.crash /\ upsets'.power = upsets.power
        /\ claims' \subseteq claims
    BY <1>0 DEF Typed
  <2>. QED  BY <1>0, <1>1, <1>3, <2>1, OnlyMoves
<1>4. CASE /\ Stray(o) = {}
           /\ cat' = [n \in Nodes |-> IF n \in FrozenNodes(o) THEN Absent ELSE cat[n]]
           /\ rec' = [rec EXCEPT ![o].state = "completed"]
  <2>1. pc'[o] = [at |-> "idle", s |-> Top]  BY <1>0, GotoTyped
  <2>2. pc' \in [Ops -> Places] /\ \A q \in Ops \ {o} : pc'[q] = pc[q]
    BY <1>0, GotoTyped
  <2>3. /\ rec' \in [Ops -> Records] /\ \A q \in Ops \ {o} : rec'[q] = rec[q]
        /\ rec'[o].state = "completed" /\ rec'[o].frozen = rec[o].frozen
        /\ rec'[o].drained = rec[o].drained
    BY <1>4, ZenonT(60) DEF Typed, Records
  <2>4. FrozenNodes(o) \subseteq Nodes  BY FrozenAreNodes
  <2>5. \A n \in FrozenNodes(o) : cat[n].state = "deleting" /\ cat'[n] = Absent
    BY <1>1, <1>4, <2>4 DEF RecSound
  <2>6. \A n \in Nodes \ FrozenNodes(o) : cat'[n] = cat[n]  BY <1>4
  <2>7. Absent \in Rows /\ Absent.state = "absent"  BY BoundAssumption DEF Absent, Rows
  <2>8. Typed'
    <3>1. \A n \in Nodes : cat'[n] \in Rows  BY <2>5, <2>6, <2>7 DEF Typed
    <3>2. cat' \in [Nodes -> Rows]  BY <1>4, <3>1
    <3>. QED  BY <1>0, <2>2, <2>3, <3>2 DEF Typed
  <2>9. \A n \in Nodes : NodeSound(n)'  BY <2>5, <2>6, <2>7 DEF NodeSound
  <2>10. \A q \in Ops : FrozenNodes(q)' = FrozenNodes(q) /\ FrozenSessions(q)' = FrozenSessions(q)
    BY <2>3, SameFrozen
  <2>11. ASSUME NEW q \in Ops, q # o, rec[q].state \in Marked \cup {"completed"},
                NEW n \in FrozenNodes(q)
         PROVE  n \in Nodes /\ cat'[n] = cat[n]
    <3>1. n \in Nodes  BY FrozenAreNodes
    <3>2. CASE rec[q].state \in Marked  BY <1>1, <2>6, <2>11, <3>1, <3>2 DEF Owned
    <3>3. CASE rec[q].state = "completed"
      <4>1. RecSound(q)  OBVIOUS
      <4>2. cat[n].state = "absent"  BY <3>3, <4>1 DEF RecSound
      <4>. QED  BY <2>5, <2>6, <3>1, <4>2
    <3>. QED  BY <2>11, <3>2, <3>3
  <2>12. ASSUME NEW q \in Ops PROVE RecSound(q)'
    <3>0. RecSound(q)  OBVIOUS
    <3>1. CASE q = o
      <4>1. FrozenSessions(o) \subseteq rec'[o].drained  BY <2>3 DEF Finish, DrainComplete
      <4>2. \A s \in rec'[o].drained : disk'[s] = Gone  BY <1>0, <1>1, <2>3 DEF RecSound
      <4>3. rec'[o].drained \subseteq FrozenSessions(o)  BY <1>1, <2>3 DEF RecSound
      <4>4. \A n \in FrozenNodes(o) : cat'[n].state = "absent"  BY <2>5, <2>7
      <4>. QED  BY <2>3, <2>10, <3>1, <4>1, <4>2, <4>3, <4>4 DEF RecSound, Marked
    <3>2. CASE q # o
      <4>1. rec'[q] = rec[q]  BY <2>3, <3>2
      <4>2. rec[q].state \in Marked => \A n \in FrozenNodes(q) : cat'[n].state = "deleting"
        BY <2>11, <3>0, <3>2 DEF RecSound
      <4>3. rec[q].state = "completed" => \A n \in FrozenNodes(q) : cat'[n].state = "absent"
        BY <2>11, <3>0, <3>2 DEF RecSound
      <4>. QED  BY <1>0, <2>10, <3>0, <4>1, <4>2, <4>3 DEF RecSound
    <3>. QED  BY <3>1, <3>2
  <2>13. Owned'
    <3>0. rec'[o].state \notin Marked  BY <2>3 DEF Marked
    <3>1. ASSUME NEW n \in Nodes, cat'[n].state = "deleting"
          PROVE  \E q \in Ops : rec'[q].state \in Marked /\ n \in FrozenNodes(q)
      <4>1. n \notin FrozenNodes(o) /\ cat[n].state = "deleting"  BY <2>5, <2>6, <2>7, <3>1
      <4>2. PICK q \in Ops : rec[q].state \in Marked /\ n \in FrozenNodes(q)
        BY <4>1 DEF Owned
      <4>. QED  BY <2>3, <4>1, <4>2
    <3>2. \A q, r \in Ops : \A n \in FrozenNodes(q) \cap FrozenNodes(r) :
            rec'[q].state \in Marked /\ rec'[r].state \in Marked => q = r
      BY <2>3, <3>0 DEF Owned
    <3>. QED  BY <2>10, <3>1, <3>2 DEF Owned
  <2>14. ASSUME NEW q \in Ops PROVE PcSound(q)'
    <3>1. CASE q = o
      <4>1. pc'[o].at = "idle" /\ gate' # o  BY <1>0, <1>1, <2>1
      <4>. QED  BY <3>1, <4>1 DEF PcSound
    <3>2. CASE q # o  BY <1>0, <2>2, <2>3, <2>10, <3>2 DEF PcSound
    <3>. QED  BY <3>1, <3>2
  <2>15. ASSUME NEW q \in Ops PROVE OneSection(q)'
    <3>1. CASE q = o  BY <2>1, <2>3, <3>1 DEF OneSection
    <3>2. CASE q # o  BY <1>0, <1>2, <2>2, <2>3, <3>2 DEF OneSection, NoDeath
    <3>. QED  BY <3>1, <3>2
  <2>16. ASSUME NEW s \in Sessions PROVE DiskSound(s)'
    <3>1. DiskSound(s)  OBVIOUS
    <3>2. \A q \in Ops : rec[q].state \in Marked \cup {"completed"} =>
                         rec'[q].state \in Marked \cup {"completed"}
      BY <2>3
    <3>. QED  BY <1>0, <2>10, <3>1, <3>2 DEF DiskSound, Touched
  <2>17. RetainedIsActive'
    <3>1. \A c \in claims : c[1] \in Nodes  BY DEF Typed, Nodes
    <3>. QED  BY <1>0, <2>5, <2>6, <3>1 DEF RetainedIsActive
  <2>18. SubtreeIsClosed'
    <3>1. ASSUME NEW n \in Nodes, cat'[n].state = "active",
                 NEW m \in Nodes \cup {Top}, m = cat'[n].parent
          PROVE  /\ m # Top => cat'[m].state # "absent"
                 /\ ~Mutable(m)' => upsets'.crash + upsets'.power > 0
      <4>1. n \notin FrozenNodes(o) /\ cat[n] = cat'[n]  BY <2>5, <2>6, <2>7, <3>1
      <4>2. /\ m # Top => cat[m].state # "absent"
            /\ ~Mutable(m) => upsets.crash + upsets.power > 0
        BY <3>1, <4>1 DEF SubtreeIsClosed
      <4>3. m \notin FrozenNodes(o)  BY <1>4, <3>1, <4>1 DEF Stray
      <4>4. m # Top => cat'[m] = cat[m]  BY <2>6, <4>3
      <4>5. Mutable(m) => Mutable(m)'  BY <2>6, <4>3 DEF Mutable
      <4>. QED  BY <1>0, <4>2, <4>4, <4>5
    <3>2. \A n \in Nodes : cat'[n].parent \in Nodes \cup {Top}  BY <2>8 DEF Typed, Rows
    <3>. QED  BY <3>1, <3>2 DEF SubtreeIsClosed, Mutable
  <2>. QED
    BY <2>8, <2>9, <2>12, <2>13, <2>14, <2>15, <2>16, <2>17, <2>18
<1>. QED  BY <1>3, <1>4 DEF Finish

(* A death takes the users, the gate and every coroutine; it leaves the    *)
(* catalog and the records, every fence, and what was synced.              *)
LEMMA DeathSound ==
    ASSUME DInv, ProcessDies \/ PowerFails
    PROVE  DInv'
<1> USE DEF DInv
<1>0. /\ UNCHANGED <<cat, rec, claims>> /\ users' = {} /\ gate' = "free"
      /\ pc' = [o \in Ops |-> Idle]
  BY DEF ProcessDies, PowerFails, Die
<1>1. PICK kind \in {"crash", "power"} : Upset(kind)
  BY DEF ProcessDies, PowerFails, Die
<1>2. upsets' \in [fault : Nat, crash : Nat, power : Nat] /\ ~NoDeath'
  BY <1>1, UpsetTyped
<1>3. /\ disk' \in [Sessions -> Directories]
      /\ \A s \in Sessions : /\ disk'[s].fence = disk[s].fence
                             /\ disk'[s].place = "isolated" => disk[s].place = "isolated"
                             /\ disk[s] = Gone => disk'[s] = Gone
  <2>1. CASE disk' = disk  BY <2>1 DEF Typed
  <2>2. CASE PowerFails
    <3>1. PICK undone \in SUBSET {s \in Sessions : ~disk[s].synced} :
            disk' = [s \in Sessions |->
                       [disk[s] EXCEPT !.synced = TRUE,
                                       !.place = IF s \in undone THEN "bucket" ELSE @]]
      BY <2>2 DEF PowerFails
    <3>2. ASSUME NEW s \in Sessions
          PROVE  /\ disk'[s] \in Directories
                 /\ disk'[s].fence = disk[s].fence /\ disk'[s].synced = TRUE
                 /\ disk'[s].place = IF s \in undone THEN "bucket" ELSE disk[s].place
      <4>1. disk[s] \in Directories  BY DEF Typed
      <4>2. disk'[s] = [disk[s] EXCEPT !.synced = TRUE,
                                       !.place = IF s \in undone THEN "bucket" ELSE @]
        BY <3>1
      <4>. QED  BY <4>1, <4>2 DEF Directories
    <3>3. ASSUME NEW s \in Sessions, disk[s] = Gone PROVE disk'[s] = Gone
      <4>1. s \notin undone  BY <3>3 DEF Gone
      <4>2. disk[s].fence = "deleting" /\ disk[s].place = "isolated"  BY <3>3 DEF Gone
      <4>. QED  BY <3>2, <4>1, <4>2 DEF Gone, Directories
    <3>4. disk' \in [Sessions -> Directories]  BY <3>1, <3>2
    <3>5. ASSUME NEW s \in Sessions, disk'[s].place = "isolated"
          PROVE  disk[s].place = "isolated"
      BY <3>2, <3>5
    <3>. QED  BY <3>2, <3>3, <3>4, <3>5
  <2>. QED  BY <2>1, <2>2 DEF ProcessDies
<1>4. Typed'
  <2>1. pc' \in [Ops -> Places]  BY <1>0 DEF Idle, Places
  <2>. QED  BY <1>0, <1>2, <1>3, <2>1 DEF Typed
<1>5. \A n \in Nodes : NodeSound(n)'  BY <1>0 DEF NodeSound
<1>6. \A q \in Ops : FrozenNodes(q)' = FrozenNodes(q) /\ FrozenSessions(q)' = FrozenSessions(q)
  BY <1>0, SameFrozen
<1>7. ASSUME NEW q \in Ops PROVE RecSound(q)'
  <2>0. RecSound(q)  OBVIOUS
  <2>1. rec[q].drained \subseteq Sessions  BY DEF Typed, Records
  <2>2. \A s \in rec[q].drained : disk'[s] = Gone  BY <1>3, <2>0, <2>1 DEF RecSound
  <2>. QED  BY <1>0, <1>6, <2>0, <2>2 DEF RecSound
<1>8. Owned'  BY <1>0, <1>6 DEF Owned
<1>9. \A q \in Ops : PcSound(q)'
  <2>1. \A q \in Ops : pc'[q].at = "idle" /\ gate' # q  BY <1>0, OpsAssumption DEF Idle
  <2>. QED  BY <2>1 DEF PcSound
<1>10. \A q \in Ops : OneSection(q)'  BY <1>2 DEF OneSection
<1>11. \A s \in Sessions : DiskSound(s)'  BY <1>0, <1>3, <1>6 DEF DiskSound, Touched
<1>12. RetainedIsActive'  BY <1>0 DEF RetainedIsActive
<1>13. SubtreeIsClosed'
  <2>1. upsets'.crash + upsets'.power > 0  BY <1>2 DEF NoDeath
  <2>. QED  BY <1>0, <2>1 DEF SubtreeIsClosed, Mutable
<1>. QED  BY <1>4, <1>5, <1>7, <1>8, <1>9, <1>10, <1>11, <1>12, <1>13

-----------------------------------------------------------------------------
(* The theorems *)

LEMMA InitSound == Init => DInv
<1> SUFFICES ASSUME Init PROVE DInv  OBVIOUS
<1>1. Typed  BY InitTyped
<1>2. \A o \in Ops : /\ rec[o].state = "none" /\ rec[o].drained = {}
                     /\ pc[o].at = "idle" /\ gate # o
  BY OpsAssumption DEF Init, NoRecord, Idle
<1>3. \A n \in Nodes : /\ cat[n].state \in {"absent", "active"}
                       /\ cat[n].rev = 0
  BY DEF Init, Absent
<1>4. \A n \in Nodes : NodeSound(n)  BY <1>3, BoundAssumption DEF NodeSound
<1>5. \A o \in Ops : RecSound(o)  BY <1>2 DEF RecSound, Marked
<1>6. Owned  BY <1>2, <1>3 DEF Owned, Marked
<1>7. \A o \in Ops : PcSound(o) /\ OneSection(o)  BY <1>2 DEF PcSound, OneSection
<1>8. \A s \in Sessions : DiskSound(s)  BY DEF Init, DiskSound, Touched
<1>9. RetainedIsActive  BY DEF Init, RetainedIsActive
<1>10. SubtreeIsClosed
  <2>1. ASSUME NEW n \in Nodes, cat[n].state = "active"
        PROVE  Mutable(cat[n].parent)
    <3>1. n \in DOMAIN InitialParent /\ cat[n].parent = InitialParent[n]
      BY <2>1 DEF Init, Absent
    <3>2. CASE InitialParent[n] = Top  BY <3>1, <3>2 DEF Mutable
    <3>3. CASE InitialParent[n] \in DOMAIN InitialParent
      <4>1. InitialParent[n] \in Nodes  BY <3>3, TreeAssumption
      <4>2. cat[InitialParent[n]].state = "active"  BY <3>3, <4>1 DEF Init
      <4>. QED  BY <3>1, <4>1, <4>2 DEF Mutable
    <3>. QED  BY <3>1, <3>2, <3>3, TreeAssumption
  <2>. QED  BY <2>1 DEF SubtreeIsClosed, Mutable
<1>. QED  BY <1>1, <1>4, <1>5, <1>6, <1>7, <1>8, <1>9, <1>10 DEF DInv

LEMMA StepSound == DInv /\ [Next]_vars => DInv'
<1> SUFFICES ASSUME DInv, [Next]_vars PROVE DInv'  OBVIOUS
<1>1. CASE \E o \in Ops, r \in Nodes : CreateRecord(o, r)  BY <1>1, CreateRecordSound
<1>2. ASSUME NEW o \in Ops, Retry(o) \/ DrainFails(o) PROVE DInv'
  BY <1>2, RetrySound, DrainFailsSound
<1>3. ASSUME NEW o \in Ops, Step(o) PROVE DInv'
  <2>1. CASE Mark(o) \/ RejectMark(o)  BY <2>1, MarkSound, RejectMarkSound
  <2>2. CASE \E s \in Sessions : DrainNext(o, s)  BY <2>2, DrainNextSound
  <2>3. CASE EnterGate(o) \/ CloseFence(o) \/ Isolate(o)
    BY <2>3, EnterGateSound, CloseFenceSound, IsolateSound
  <2>4. CASE Barrier(o) \/ RecordProgress(o) \/ Finish(o)
    BY <2>4, BarrierSound, RecordProgressSound, FinishSound
  <2>. QED  BY <1>3, <2>1, <2>2, <2>3, <2>4 DEF Step
<1>4. CASE Environment
  <2>1. CASE \E n \in Nodes, p \in Nodes \cup {Top} : Publish(n, p) \/ Move(n, p)
    BY <2>1, PublishSound, MoveSound
  <2>2. CASE \E s, t \in Sessions : Claim(s, t)  BY <2>2, ClaimSound
  <2>3. CASE \E s \in Sessions : Enter(s) \/ Leave(s)  BY <2>3, UsersSound
  <2>4. CASE ProcessDies \/ PowerFails  BY <2>4, DeathSound
  <2>. QED  BY <1>4, <2>1, <2>2, <2>3, <2>4 DEF Environment
<1>5. CASE UNCHANGED vars
  <2>1. \A q \in Ops : FrozenNodes(q)' = FrozenNodes(q) /\ FrozenSessions(q)' = FrozenSessions(q)
    BY <1>5, SameFrozen DEF vars
  <2>2. Typed' /\ \A n \in Nodes : NodeSound(n)'  BY <1>5 DEF DInv, vars, Typed, NodeSound
  <2>3. \A q \in Ops : RecSound(q)'  BY <1>5, <2>1 DEF DInv, vars, RecSound
  <2>4. Owned'  BY <1>5, <2>1 DEF DInv, vars, Owned
  <2>5. \A q \in Ops : PcSound(q)'  BY <1>5, <2>1 DEF DInv, vars, PcSound
  <2>6. \A q \in Ops : OneSection(q)'
    BY <1>5, <2>1 DEF DInv, vars, OneSection, NoDeath, ClosedBelow
  <2>7. \A s \in Sessions : DiskSound(s)'  BY <1>5, <2>1 DEF DInv, vars, DiskSound, Touched
  <2>8. RetainedIsActive'  BY <1>5 DEF DInv, vars, RetainedIsActive
  <2>9. SubtreeIsClosed'  BY <1>5, SameTree DEF DInv, vars
  <2>. QED  BY <2>2, <2>3, <2>4, <2>5, <2>6, <2>7, <2>8, <2>9 DEF DInv
<1>. QED  BY <1>1, <1>2, <1>3, <1>4, <1>5 DEF Next

(* A deleting node was frozen by exactly one marked record.                *)
LEMMA OneOwner ==
    ASSUME DInv
    PROVE  ClosedAtOnce
<1>1. ASSUME NEW n \in Nodes, cat[n].state = "deleting"
      PROVE  Cardinality({o \in Ops : rec[o].state \in Marked /\ n \in FrozenNodes(o)}) = 1
  <2>1. PICK o \in Ops : rec[o].state \in Marked /\ n \in FrozenNodes(o)
    BY <1>1 DEF DInv, Owned
  <2>2. {q \in Ops : rec[q].state \in Marked /\ n \in FrozenNodes(q)} = {o}
    BY <2>1 DEF DInv, Owned
  <2>. QED  BY <2>2, FS_Singleton
<1>2. \A o \in Ops : rec[o].state \in Marked =>
        \A n \in FrozenNodes(o) : cat[n].state = "deleting"
  BY DEF DInv, RecSound
<1>. QED  BY <1>1, <1>2 DEF ClosedAtOnce

LEMMA SoundIsEnough == DInv => DeletionInv /\ UsersAreSafe
<1> SUFFICES ASSUME DInv PROVE DeletionInv /\ UsersAreSafe  OBVIOUS
<1>1. TypeOK  BY DEF DInv, Typed, RecSound, TypeOK, Rows, Records, Places, Directories
<1>2. ClosedAtOnce  BY OneOwner
<1>3. ProgressIsDurable  BY DEF DInv, RecSound, ProgressIsDurable, Gone
<1>4. UsersAreSafe
  <2>1. \A s \in users : s \in Sessions /\ DiskSound(s) /\ disk[s] \in Directories
    BY DEF DInv, Typed
  <2>. QED  BY <2>1 DEF DiskSound, Touched, Directories, UsersAreSafe
<1>. QED  BY <1>1, <1>2, <1>3, <1>4 DEF DInv, DeletionInv

(* What each coroutine knows at each of its lines is never wrong.          *)
THEOREM DeletionIsSound == Spec => []DInv
<1>. QED  BY InitSound, StepSound, PTL DEF Spec

(* Catalog, records, claims, disk and progress agree in every reachable    *)
(* state, for every tree and every set of overlapping deletions.           *)
THEOREM DeletionInvariance == Spec => []DeletionInv
<1>. QED  BY DeletionIsSound, SoundIsEnough, PTL

(* The drain takes a directory away, or closes its fence, only when nobody *)
(* is inside the Session, and nobody comes in afterwards.                  *)
THEOREM UsersStaySafe == Spec => []UsersAreSafe
<1>. QED  BY DeletionIsSound, SoundIsEnough, PTL
=============================================================================
