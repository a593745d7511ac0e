------------------------ MODULE NavigationQueueProofs ------------------------
(***************************************************************************)
(* Operations of the directory queue are applied once, in the order they   *)
(* were accepted, and a failure reaches what waits for it: for every set   *)
(* of operations, dependencies, batches and processes.                     *)
(*                                                                         *)
(* Nothing but the owner lock keeps two workers apart, and nothing but     *)
(* recover_in_flight keeps a worker from the operation of the one before:  *)
(* the invariant says which operation may be running in each place of the  *)
(* worker that holds the lock.                                             *)
(***************************************************************************)
EXTENDS NavigationQueue, FiniteSetTheorems, WellFoundedInduction, TLAPS

Active(p) == worker[p].at \notin {"stopped", "failed"}
Deleting == {"claimed", "opened", "refused"}

(* A worker that is active holds the lock under the last generation, and   *)
(* the only operation that is running is the deletion it is inside of.     *)
WorkerSound(p) ==
    /\ lock = p => Active(p)
    /\ Active(p) => lock = p /\ worker[p].gen = gen
    /\ worker[p].at = "recover" => \A o \in Ops : op[o].state = "running" => op[o].holder < gen
    /\ worker[p].at = "deletes" => \A o \in Ops : op[o].state # "running"
    /\ worker[p].at \in Serving =>
        \A o \in Ops : op[o].state = "running" => worker[p].at \in Deleting /\ worker[p].op = o
    /\ worker[p].at \in Deleting \cup {"marked"} => worker[p].op \in Deletes
    /\ worker[p].at = "marked" => op[worker[p].op].state = "committed"

(* The record of an operation, its effect, its event and its receipt.      *)
Receipt(o) ==
    /\ applied[o] = IF op[o].state = "committed" THEN 1 ELSE 0
    /\ events[o] = IF op[o].state \in Terminal THEN 1 ELSE 0
    /\ o \in Deletes =>
        /\ op[o].state = "committed" <=> sub[o] \in {"deleting", "completed"}
        /\ op[o].pending <=> sub[o] = "deleting"

OpSound(o) ==
    /\ qseq[o] > 0 <=> op[o].state # "none"
    /\ op[o].state = "running" => op[o].holder <= gen
    /\ Receipt(o)

(* There is a last place in the queue.                                     *)
QueueBounded == \E n \in Nat : \A o \in Ops : qseq[o] <= n

OpShape == [state : OpStates, token : Nat, holder : Nat, pending : BOOLEAN]
WorkerShape ==
    [at : {"stopped", "failed", "recover", "deletes", "ready", "claimed", "opened", "marked",
           "refused"},
     gen : Nat, op : Ops \cup {"none"}, todo : SUBSET Ops]

OpShapes ==
    /\ qseq \in [Ops -> Nat] /\ op \in [Ops -> OpShape]
    /\ sub \in [Ops -> {"none", "preparing", "deleting", "completed", "aborted"}]
    /\ applied \in [Ops -> Nat] /\ events \in [Ops -> Nat]
OwnerShapes ==
    /\ gen \in Nat /\ lock \in Procs \cup {"free"}
    /\ worker \in [Procs -> WorkerShape]
    /\ \A p \in Procs : worker[p].gen <= gen

OpsSound == OpShapes /\ QueueBounded /\ InOrder /\ \A o \in Ops : OpSound(o)
WorkersSound == OwnerShapes /\ \A p \in Procs : WorkerSound(p)
QInv == OpsSound /\ WorkersSound

USE KindAssumption, DependencyAssumption, ProcsAssumption
USE DEF OpStates, Terminal, Serving, Deleting

-----------------------------------------------------------------------------
(* The place of new operations in the queue                                *)

(* A set of naturals that is bounded has a largest element.                *)
LEMMA MaxOfBounded ==
  ASSUME NEW S \in SUBSET Nat, S # {}, NEW n \in Nat, \A x \in S : x <= n
  PROVE  Max(S) \in S /\ \A x \in S : x <= Max(S)
<1>. DEFINE T == {k \in Nat : n - k \in S}
<1>1. T \subseteq Nat /\ T # {}
  <2>1. PICK x \in S : TRUE
    OBVIOUS
  <2>2. n - x \in Nat /\ n - (n - x) = x
    OBVIOUS
  <2>. QED  BY <2>2
<1>2. PICK k \in T : \A j \in T : <<j, k>> \notin OpToRel(<, Nat)
  BY <1>1, NatLessThanWellFounded, WFMin
<1>3. \A j \in T : ~(j < k)
  BY <1>1, <1>2 DEF OpToRel
<1>4. \A y \in S : n - k >= y
  <2>. SUFFICES ASSUME NEW y \in S
                PROVE  n - k >= y
    OBVIOUS
  <2>1. n - y \in T
    <3>1. n - y \in Nat /\ n - (n - y) = y
      OBVIOUS
    <3>. QED  BY <3>1
  <2>. QED  BY <1>3, <2>1
<1>5. \E m \in S : \A y \in S : m >= y
  BY <1>4
<1>6. Max(S) \in S /\ \A y \in S : Max(S) >= y
  BY <1>5, Zenon DEF Max
<1>. QED  BY <1>6

(* The operations of a batch have a place in it, and there are finitely    *)
(* many of them.                                                           *)
LEMMA Positions ==
  ASSUME NEW b \in Batches
  PROVE  /\ Range(b) \subseteq Ops
         /\ \A o \in Range(b) : Position(b, o) \in 1..Len(b) /\ b[Position(b, o)] = o
         /\ IsFiniteSet(Range(b)) /\ Len(b) \in Nat
<1>1. b \in Seq(Ops)
  BY BatchAssumption
<1>2. Range(b) \subseteq Ops /\ DOMAIN b = 1..Len(b) /\ Len(b) \in Nat
  BY <1>1 DEF Range
<1>3. ASSUME NEW o \in Range(b)
      PROVE  Position(b, o) \in 1..Len(b) /\ b[Position(b, o)] = o
  <2>1. \E i \in DOMAIN b : b[i] = o
    BY DEF Range
  <2>2. Position(b, o) \in DOMAIN b /\ b[Position(b, o)] = o
    BY <2>1, Zenon DEF Position
  <2>. QED  BY <1>2, <2>2
<1>4. IsFiniteSet(Range(b))
  <2>. DEFINE f == [o \in Range(b) |-> Position(b, o)]
  <2>1. f \in [Range(b) -> 1..Len(b)]
    BY <1>3
  <2>2. \A o, q \in Range(b) : f[o] = f[q] => o = q
    BY <1>3
  <2>3. f \in Injection(Range(b), 1..Len(b))
    BY <2>1, <2>2 DEF Injection, IsInjective
  <2>4. IsFiniteSet(1..Len(b))
    BY <1>2, FS_Interval
  <2>. HIDE DEF f
  <2>. QED  BY <2>3, <2>4, FS_Injection
<1>. QED  BY <1>2, <1>3, <1>4

(* New operations are ranked as they are placed in the batch.              *)
LEMMA Ranks ==
  ASSUME NEW b \in Batches
  PROVE  /\ Fresh(b) \subseteq Ops
         /\ \A o \in Fresh(b) : Rank(b, o) \in 1..Cardinality(Fresh(b))
         /\ Cardinality(Fresh(b)) \in Nat
         /\ \A o, q \in Fresh(b) : Position(b, o) < Position(b, q) => Rank(b, o) < Rank(b, q)
<1>. DEFINE Upto(o) == {q \in Fresh(b) : Position(b, q) <= Position(b, o)}
<1>1. Fresh(b) \subseteq Ops /\ Fresh(b) \subseteq Range(b) /\ IsFiniteSet(Fresh(b))
  <2>1. Fresh(b) \subseteq Range(b)
    BY DEF Fresh
  <2>. QED  BY <2>1, Positions, FS_Subset
<1>2. \A o \in Fresh(b) : Position(b, o) \in Nat
  BY <1>1, Positions
<1>3. ASSUME NEW o \in Fresh(b)
      PROVE  IsFiniteSet(Upto(o)) /\ Cardinality(Upto(o)) \in 1..Cardinality(Fresh(b))
  <2>1. IsFiniteSet(Upto(o)) /\ Cardinality(Upto(o)) <= Cardinality(Fresh(b))
    BY <1>1, FS_Subset
  <2>2. Cardinality({o}) <= Cardinality(Upto(o)) /\ Cardinality({o}) = 1
    <3>1. {o} \in SUBSET Upto(o)
      BY <1>2
    <3>. HIDE DEF Upto
    <3>. QED  BY <2>1, <3>1, FS_Subset, FS_Singleton
  <2>3. Cardinality(Upto(o)) \in Nat /\ Cardinality(Fresh(b)) \in Nat
    BY <1>1, <2>1, FS_CardinalityType
  <2>. QED  BY <2>1, <2>2, <2>3
<1>4. ASSUME NEW o \in Fresh(b), NEW q \in Fresh(b), Position(b, o) < Position(b, q)
      PROVE  Cardinality(Upto(o)) < Cardinality(Upto(q))
  <2>1. Upto(o) \in SUBSET Upto(q) /\ q \in Upto(q) /\ q \notin Upto(o)
    BY <1>2, <1>4
  <2>2. /\ Cardinality(Upto(o)) <= Cardinality(Upto(q))
        /\ Cardinality(Upto(q)) # Cardinality(Upto(o))
    <3>1. IsFiniteSet(Upto(q))
      BY <1>3
    <3>. HIDE DEF Upto
    <3>. QED  BY <2>1, <3>1, FS_Subset
  <2>3. Cardinality(Upto(o)) \in Nat /\ Cardinality(Upto(q)) \in Nat
    BY <1>3, FS_CardinalityType
  <2>. QED  BY <2>2, <2>3
<1>5. Cardinality(Fresh(b)) \in Nat
  BY <1>1, FS_CardinalityType
<1>. QED  BY <1>1, <1>3, <1>4, <1>5 DEF Rank

-----------------------------------------------------------------------------
(* Initial states                                                          *)

LEMMA InitSound == Init => QInv
<1>. SUFFICES ASSUME Init PROVE QInv
  OBVIOUS
<1>1. OpShapes /\ OwnerShapes
  BY DEF Init, OpShapes, OwnerShapes, OpShape, WorkerShape, NoOp, Stopped
<1>2. QueueBounded
  BY DEF Init, QueueBounded
<1>3. InOrder
  BY DEF Init, InOrder, Accepted
<1>4. ASSUME NEW o \in Ops PROVE OpSound(o)
  BY DEF Init, OpSound, Receipt, NoOp
<1>5. ASSUME NEW p \in Procs PROVE WorkerSound(p)
  BY DEF Init, WorkerSound, Active, Stopped
<1>. QED  BY <1>1, <1>2, <1>3, <1>4, <1>5 DEF QInv, OpsSound, WorkersSound

-----------------------------------------------------------------------------
(* What a step has to keep                                                 *)

(* The order of the queue is kept by a step that accepts nothing, revives  *)
(* nothing that ended, and starts nothing but the head.                    *)
LEMMA OrderKept ==
  ASSUME OpsSound, qseq' = qseq,
         \A o \in Ops : op[o].state \in Terminal => op'[o].state \in Terminal,
         \A o \in Ops : op'[o].state \in {"running", "committed", "rejected"} =>
            op[o].state \in {"running", "committed", "rejected"} \/ IsHead(o)
  PROVE  InOrder'
<1>1. Accepted' = Accepted
  BY DEF Accepted
<1>2. ASSUME NEW o \in Accepted, NEW q \in Accepted,
             op'[o].state \in {"running", "committed", "rejected"}, qseq[q] < qseq[o]
      PROVE  op'[q].state \in Terminal
  <2>1. o \in Ops /\ q \in Ops /\ qseq[o] \in Nat /\ qseq[q] \in Nat
    BY DEF Accepted, OpsSound, OpShapes
  <2>2. CASE op[o].state \in {"running", "committed", "rejected"}
    <3>1. op[q].state \in Terminal
      BY <1>2, <2>2 DEF OpsSound, InOrder
    <3>. QED  BY <2>1, <3>1
  <2>3. CASE IsHead(o)
    <3>1. q \notin Pending
      BY <1>2, <2>1, <2>3 DEF IsHead
    <3>2. op[q].state # "none" /\ op[q].state \in OpStates
      BY <2>1 DEF OpsSound, OpShapes, OpShape, OpSound, Accepted
    <3>3. op[q].state \in Terminal
      BY <2>1, <3>1, <3>2 DEF Pending
    <3>. QED  BY <2>1, <3>3
  <2>. QED  BY <1>2, <2>1, <2>2, <2>3
<1>3. \A o \in Accepted : \A d \in DependsOn[o] : d \in Accepted /\ qseq[d] < qseq[o]
  BY DEF OpsSound, InOrder
<1>. QED  BY <1>1, <1>2, <1>3 DEF InOrder

(* Only one operation changes, and it is sound afterwards.                 *)
LEMMA OneOperation ==
  ASSUME OpsSound, OpShapes', qseq' = qseq, gen' = gen,
         NEW o \in Ops, OpSound(o)',
         \A q \in Ops \ {o} : /\ op'[q] = op[q] /\ sub'[q] = sub[q]
                              /\ applied'[q] = applied[q] /\ events'[q] = events[q],
         op[o].state \in Terminal => op'[o].state \in Terminal,
         op'[o].state \in {"running", "committed", "rejected"} =>
            op[o].state \in {"running", "committed", "rejected"} \/ IsHead(o)
  PROVE  OpsSound'
<1>1. \A q \in Ops : op[q].state \in Terminal => op'[q].state \in Terminal
  OBVIOUS
<1>2. \A q \in Ops : op'[q].state \in {"running", "committed", "rejected"} =>
        op[q].state \in {"running", "committed", "rejected"} \/ IsHead(q)
  OBVIOUS
<1>3. InOrder'
  BY <1>1, <1>2, OrderKept
<1>4. ASSUME NEW q \in Ops PROVE OpSound(q)'
  <2>1. CASE q = o
    BY <2>1
  <2>2. CASE q # o
    <3>1. OpSound(q)
      BY DEF OpsSound
    <3>. QED  BY <2>2, <3>1 DEF OpSound, Receipt
  <2>. QED  BY <2>1, <2>2
<1>5. QueueBounded'
  BY DEF OpsSound, QueueBounded
<1>. QED  BY <1>3, <1>4, <1>5 DEF OpsSound

(* A step of one worker that has the lock, or takes it while it is free.   *)
LEMMA SoleWorker ==
  ASSUME WorkersSound, OwnerShapes', NEW p \in Procs, WorkerSound(p)',
         \A q \in Procs \ {p} : worker'[q] = worker[q],
         lock \in {p, "free"}, lock' \in {p, "free"}
  PROVE  WorkersSound'
<1>1. ASSUME NEW q \in Procs PROVE WorkerSound(q)'
  <2>1. CASE q = p
    BY <2>1
  <2>2. CASE q # p
    <3>1. lock # q /\ lock' # q
      BY <2>2
    <3>2. worker[q].at \in {"stopped", "failed"}
      BY <3>1 DEF WorkersSound, WorkerSound, Active
    <3>3. worker'[q].at \in {"stopped", "failed"}
      BY <2>2, <3>2
    <3>. QED  BY <3>1, <3>3 DEF WorkerSound, Active
  <2>. QED  BY <2>1, <2>2
<1>. QED  BY <1>1 DEF WorkersSound

(* The places of the other workers, when one worker moves.                 *)
LEMMA OwnerMoves ==
  ASSUME WorkersSound, NEW p \in Procs, NEW r \in WorkerShape, r.gen <= gen',
         worker' = [worker EXCEPT ![p] = r], gen' \in Nat, gen <= gen',
         lock' \in Procs \cup {"free"}
  PROVE  /\ OwnerShapes' /\ worker'[p] = r
         /\ \A q \in Procs \ {p} : worker'[q] = worker[q]
<1>1. worker \in [Procs -> WorkerShape] /\ \A q \in Procs : worker[q].gen <= gen
  BY DEF WorkersSound, OwnerShapes
<1>2. worker' \in [Procs -> WorkerShape] /\ worker'[p] = r
  BY <1>1
<1>3. \A q \in Procs \ {p} : worker'[q] = worker[q]
  BY <1>1
<1>4. ASSUME NEW q \in Procs PROVE worker'[q].gen <= gen'
  <2>1. CASE q = p
    BY <2>1, <1>2
  <2>2. CASE q # p
    <3>1. worker[q].gen \in Nat /\ worker[q].gen <= gen /\ gen \in Nat
      BY <1>1 DEF WorkerShape, WorkersSound, OwnerShapes
    <3>2. worker'[q] = worker[q]
      BY <2>2, <1>3
    <3>. QED  BY <3>1, <3>2
  <2>. QED  BY <2>1, <2>2
<1>. QED  BY <1>2, <1>3, <1>4 DEF OwnerShapes

-----------------------------------------------------------------------------
(* Accepting a batch                                                       *)

(* New operations get places behind every accepted one, in the order of    *)
(* the batch; what is accepted keeps its place.                            *)
LEMMA NewPlaces ==
  ASSUME OpsSound, NEW b \in Batches, Enqueue(b)
  PROVE  /\ qseq' \in [Ops -> Nat] /\ QueueBounded'
         /\ \A o \in Ops \ Fresh(b) : qseq'[o] = qseq[o]
         /\ \A o \in Fresh(b) : o \in Ops /\ qseq[o] = 0 /\ qseq'[o] > 0
         /\ \A o \in Fresh(b), q \in Ops : qseq[q] < qseq'[o]
         /\ \A o, q \in Fresh(b) : Position(b, o) < Position(b, q) => qseq'[o] < qseq'[q]
<1>. DEFINE S == {qseq[q] : q \in Ops}
            m == Max(S)
<1>1. PICK n \in Nat : \A o \in Ops : qseq[o] <= n
  BY DEF OpsSound, QueueBounded
<1>2. qseq \in [Ops -> Nat] /\ Fresh(b) \subseteq Ops /\ Fresh(b) # {}
  BY Ranks DEF OpsSound, OpShapes, Enqueue
<1>3. m \in Nat /\ \A q \in Ops : qseq[q] <= m
  <2>1. S \in SUBSET Nat /\ S # {} /\ \A x \in S : x <= n
    BY <1>1, <1>2
  <2>. HIDE DEF S
  <2>2. Max(S) \in S /\ \A x \in S : x <= Max(S)
    BY <2>1, MaxOfBounded
  <2>3. \A q \in Ops : qseq[q] \in S
    BY DEF S
  <2>. QED  BY <2>1, <2>2, <2>3
<1>4. qseq' = [o \in Ops |-> IF o \in Fresh(b) THEN m + Rank(b, o) ELSE qseq[o]]
  BY DEF Enqueue
<1>. HIDE DEF m
<1>5. /\ \A o \in Fresh(b) : Rank(b, o) \in 1..Cardinality(Fresh(b))
      /\ Cardinality(Fresh(b)) \in Nat
      /\ \A o, q \in Fresh(b) : Position(b, o) < Position(b, q) => Rank(b, o) < Rank(b, q)
  BY Ranks
<1>6. \A o \in Ops \ Fresh(b) : qseq'[o] = qseq[o]
  BY <1>4
<1>7. \A o \in Fresh(b) : qseq'[o] = m + Rank(b, o)
  BY <1>2, <1>4
<1>8. qseq' \in [Ops -> Nat]
  BY <1>2, <1>3, <1>4, <1>5
<1>9. \A o \in Fresh(b) : o \in Ops /\ qseq[o] = 0 /\ qseq'[o] > 0
  BY <1>2, <1>3, <1>5, <1>7 DEF Fresh
<1>10. \A o \in Fresh(b), q \in Ops : qseq[q] < qseq'[o]
  BY <1>2, <1>3, <1>5, <1>7
<1>11. \A o, q \in Fresh(b) : Position(b, o) < Position(b, q) => qseq'[o] < qseq'[q]
  BY <1>3, <1>5, <1>7
<1>12. QueueBounded'
  <2>1. \A o \in Ops : qseq'[o] <= m + Cardinality(Fresh(b))
    BY <1>2, <1>3, <1>5, <1>6, <1>7
  <2>. QED  BY <1>3, <1>5, <2>1 DEF QueueBounded
<1>. QED  BY <1>6, <1>8, <1>9, <1>10, <1>11, <1>12

LEMMA EnqueueSound ==
  ASSUME QInv, NEW b \in Batches, Enqueue(b)
  PROVE  QInv'
<1>. OpsSound /\ WorkersSound
  BY DEF QInv
<1>1. /\ qseq' \in [Ops -> Nat] /\ QueueBounded'
      /\ \A o \in Ops \ Fresh(b) : qseq'[o] = qseq[o]
      /\ \A o \in Fresh(b) : o \in Ops /\ qseq[o] = 0 /\ qseq'[o] > 0
      /\ \A o \in Fresh(b), q \in Ops : qseq[q] < qseq'[o]
      /\ \A o, q \in Fresh(b) : Position(b, o) < Position(b, q) => qseq'[o] < qseq'[q]
  BY NewPlaces
<1>. DEFINE new == [NoOp EXCEPT !.state = "queued"]
<1>2. op' = [o \in Ops |-> IF o \in Fresh(b) THEN new ELSE op[o]]
  BY DEF Enqueue
<1>a. new \in OpShape /\ new.state = "queued" /\ new.pending = FALSE
  BY DEF NoOp, OpShape
<1>. HIDE DEF new
<1>3. /\ \A o \in Ops \ Fresh(b) : op'[o] = op[o]
      /\ \A o \in Fresh(b) : op'[o].state = "queued" /\ op'[o].pending = FALSE
  BY <1>1, <1>2, <1>a
<1>4. sub' = sub /\ applied' = applied /\ events' = events /\ gen' = gen /\ lock' = lock
        /\ worker' = worker
  BY DEF Enqueue
<1>5. OpShapes'
  BY <1>1, <1>2, <1>4, <1>a DEF OpsSound, OpShapes
<1>6. \A o \in Fresh(b) : op[o].state = "none"
  BY <1>1 DEF OpsSound, OpSound
<1>7. ASSUME NEW o \in Ops PROVE OpSound(o)'
  <2>0. OpSound(o)
    BY DEF OpsSound
  <2>1. CASE o \in Fresh(b)
    BY <1>1, <1>3, <1>4, <1>6, <2>0, <2>1 DEF OpSound, Receipt
  <2>2. CASE o \notin Fresh(b)
    BY <1>1, <1>3, <1>4, <2>0, <2>2 DEF OpSound, Receipt
  <2>. QED  BY <2>1, <2>2
<1>8. \A o \in Ops : o \in Accepted' <=> o \in Accepted \/ o \in Fresh(b)
  <2>. SUFFICES ASSUME NEW o \in Ops
                PROVE  qseq'[o] > 0 <=> qseq[o] > 0 \/ o \in Fresh(b)
    BY DEF Accepted
  <2>. QED  BY <1>1
<1>9. ASSUME NEW o \in Accepted', NEW q \in Accepted',
             op'[o].state \in {"running", "committed", "rejected"}, qseq'[q] < qseq'[o]
      PROVE  op'[q].state \in Terminal
  <2>1. o \in Ops /\ q \in Ops /\ o \notin Fresh(b) /\ o \in Accepted
    BY <1>3, <1>8, <1>9 DEF Accepted
  <2>2. q \notin Fresh(b)
    <3>1. qseq'[o] = qseq[o] /\ qseq'[o] \in Nat /\ qseq'[q] \in Nat
      BY <1>1, <2>1
    <3>. QED  BY <1>1, <1>9, <2>1, <3>1
  <2>3. q \in Accepted /\ qseq[q] < qseq[o] /\ op[o] = op'[o] /\ op'[q] = op[q]
    BY <1>1, <1>3, <1>8, <1>9, <2>1, <2>2
  <2>. QED  BY <1>9, <2>1, <2>3 DEF OpsSound, InOrder
<1>10. ASSUME NEW o \in Accepted', NEW d \in DependsOn[o]
       PROVE  d \in Accepted' /\ qseq'[d] < qseq'[o]
  <2>0. o \in Ops /\ d \in Ops
    BY DEF Accepted
  <2>1. CASE o \notin Fresh(b)
    <3>1. o \in Accepted
      BY <1>8, <2>0, <2>1
    <3>2. d \in Accepted /\ qseq[d] < qseq[o]
      BY <3>1 DEF OpsSound, InOrder
    <3>3. d \notin Fresh(b)
      BY <1>1, <3>2 DEF Accepted
    <3>. QED  BY <1>1, <1>8, <2>0, <2>1, <3>2, <3>3
  <2>2. CASE o \in Fresh(b)
    <3>1. Resolvable(b, o)
      BY <2>2 DEF Enqueue
    <3>2. CASE d \in Accepted
      <4>1. d \notin Fresh(b)
        BY <1>1, <3>2 DEF Accepted
      <4>. QED  BY <1>1, <1>8, <2>0, <2>2, <3>2, <4>1
    <3>3. CASE d \notin Accepted
      <4>1. d \in Range(b) /\ Position(b, d) < Position(b, o)
        BY <3>1, <3>3 DEF Resolvable
      <4>2. d \in Fresh(b)
        <5>1. qseq[d] \in Nat /\ ~(qseq[d] > 0)
          BY <2>0, <3>3 DEF Accepted, OpsSound, OpShapes
        <5>. QED  BY <4>1, <5>1 DEF Fresh
      <4>. QED  BY <1>1, <1>8, <2>0, <2>2, <4>1, <4>2
    <3>. QED  BY <3>2, <3>3
  <2>. QED  BY <2>1, <2>2
<1>11. InOrder'
  BY <1>9, <1>10 DEF InOrder
<1>12. ASSUME NEW p \in Procs PROVE WorkerSound(p)'
  <2>1. WorkerSound(p)
    BY DEF WorkersSound
  <2>2. \A o \in Ops : op'[o].state = "running" => op[o].state = "running" /\ op'[o] = op[o]
    BY <1>3
  <2>3. ASSUME worker[p].at = "marked"
        PROVE  op'[worker[p].op].state = "committed"
    <3>1. worker[p].op \in Ops /\ op[worker[p].op].state = "committed"
      BY <2>1, <2>3 DEF WorkerSound
    <3>. QED  BY <1>3, <1>6, <3>1
  <2>. QED  BY <1>4, <2>1, <2>2, <2>3 DEF WorkerSound, Active
<1>13. OwnerShapes'
  BY <1>4 DEF WorkersSound, OwnerShapes
<1>. QED  BY <1>1, <1>5, <1>7, <1>11, <1>12, <1>13 DEF QInv, OpsSound, WorkersSound

-----------------------------------------------------------------------------
(* The owner                                                               *)

LEMMA WorkerMoves ==
  ASSUME NEW r \in WorkerShape, NEW n \in Nat,
         NEW l \in {"stopped", "failed", "recover", "deletes", "ready", "claimed", "opened",
                   "marked", "refused"}
  PROVE  LET s == [r EXCEPT !.at = l, !.gen = n]
         IN  s \in WorkerShape /\ s.at = l /\ s.gen = n
BY DEF WorkerShape

LEMMA AcquireSound ==
  ASSUME QInv, NEW p \in Procs, AcquireOwner(p)
  PROVE  QInv'
<1>. OpsSound /\ WorkersSound
  BY DEF QInv
<1>. DEFINE r == [Stopped EXCEPT !.at = "recover", !.gen = gen']
<1>1. gen \in Nat /\ gen' = gen + 1 /\ lock = "free" /\ lock' = p
  BY DEF AcquireOwner, WorkersSound, OwnerShapes
<1>2. r \in WorkerShape /\ r.at = "recover" /\ r.gen = gen'
  <2>1. gen' \in Nat
    BY <1>1
  <2>2. Stopped \in WorkerShape
    BY DEF Stopped, WorkerShape
  <2>. QED  BY <2>1, <2>2, WorkerMoves, ZenonT(60)
<1>3. worker' = [worker EXCEPT ![p] = r]
  BY DEF AcquireOwner
<1>. HIDE DEF r
<1>4. /\ OwnerShapes' /\ worker'[p] = r
      /\ \A q \in Procs \ {p} : worker'[q] = worker[q]
  <2>1. r.gen <= gen' /\ gen' \in Nat /\ gen <= gen' /\ lock' \in Procs \cup {"free"}
    BY <1>1, <1>2
  <2>. QED  BY <1>2, <1>3, <2>1, OwnerMoves
<1>5. qseq' = qseq /\ op' = op /\ sub' = sub /\ applied' = applied /\ events' = events
  BY DEF AcquireOwner
<1>6. \A o \in Ops : op'[o].state = "running" => op'[o].holder < gen'
  <2>. SUFFICES ASSUME NEW o \in Ops, op[o].state = "running"
                PROVE  op[o].holder < gen'
    BY <1>5
  <2>1. op[o].holder <= gen /\ op[o].holder \in Nat
    BY DEF OpsSound, OpSound, OpShapes, OpShape
  <2>. QED  BY <1>1, <2>1
<1>7. WorkerSound(p)'
  BY <1>1, <1>2, <1>4, <1>6 DEF WorkerSound, Active
<1>8. WorkersSound'
  BY <1>1, <1>4, <1>7, SoleWorker
<1>9. ASSUME NEW o \in Ops PROVE OpSound(o)'
  <2>1. OpSound(o)
    BY DEF OpsSound
  <2>2. op'[o].state = "running" => op'[o].holder <= gen'
    <3>1. op[o].holder \in Nat
      BY DEF OpsSound, OpShapes, OpShape
    <3>. QED  BY <1>1, <1>5, <1>6, <3>1
  <2>. QED  BY <1>5, <2>1, <2>2 DEF OpSound, Receipt
<1>10. OpShapes' /\ QueueBounded' /\ InOrder'
  BY <1>5 DEF OpsSound, OpShapes, QueueBounded, InOrder, Accepted
<1>. QED  BY <1>8, <1>9, <1>10 DEF QInv, OpsSound

(* A worker that is active has the lock.                                   *)
LEMMA HoldsLock ==
  ASSUME WorkersSound, NEW p \in Procs, worker[p].at \notin {"stopped", "failed"}
  PROVE  /\ lock = p /\ worker[p].gen = gen /\ gen \in Nat /\ worker[p] \in WorkerShape
         /\ WorkerSound(p)
  BY DEF WorkersSound, WorkerSound, Active, OwnerShapes

(* What the operations need when only their owner moves.                   *)
LEMMA OpsStay ==
  ASSUME OpsSound, UNCHANGED <<qseq, op, sub, applied, events, gen>>
  PROVE  OpsSound'
<1>1. OpShapes' /\ QueueBounded' /\ InOrder'
  BY DEF OpsSound, OpShapes, QueueBounded, InOrder, Accepted
<1>2. \A o \in Ops : OpSound(o)'
  BY DEF OpsSound, OpSound, Receipt
<1>. QED  BY <1>1, <1>2 DEF OpsSound

(* A worker goes to another place of a deletion, or back to the queue.     *)
LEMMA Moves ==
  ASSUME WorkersSound, NEW p \in Procs, NEW o \in Ops \cup {"none"},
         NEW l \in {"ready", "claimed", "opened", "marked", "refused"},
         Goto(p, l, o), UNCHANGED <<gen, lock>>
  PROVE  /\ OwnerShapes' /\ worker'[p].at = l /\ worker'[p].op = o
         /\ worker'[p].gen = worker[p].gen
         /\ \A q \in Procs \ {p} : worker'[q] = worker[q]
<1>. DEFINE r == [worker[p] EXCEPT !.at = l, !.op = o]
<1>1. worker[p] \in WorkerShape /\ worker[p].gen <= gen /\ gen \in Nat
  BY DEF WorkersSound, OwnerShapes
<1>2. r \in WorkerShape /\ r.at = l /\ r.op = o /\ r.gen = worker[p].gen
  BY <1>1 DEF WorkerShape
<1>3. worker' = [worker EXCEPT ![p] = r]
  BY DEF Goto
<1>4. lock' \in Procs \cup {"free"}
  BY DEF WorkersSound, OwnerShapes
<1>. HIDE DEF r
<1>5. r.gen <= gen' /\ gen' \in Nat /\ gen <= gen'
  BY <1>1, <1>2
<1>. QED  BY <1>2, <1>3, <1>4, <1>5, OwnerMoves

LEMMA RecoverInFlightSound ==
  ASSUME QInv, NEW p \in Procs, RecoverInFlight(p)
  PROVE  QInv'
<1>. OpsSound /\ WorkersSound
  BY DEF QInv
<1>. DEFINE os == {o \in Ops : sub[o] \in {"preparing", "deleting"}}
            r == [worker[p] EXCEPT !.at = "deletes", !.todo = os]
<1>1. worker[p].at = "recover" /\ qseq' = qseq /\ sub' = sub /\ applied' = applied
        /\ events' = events /\ gen' = gen /\ lock' = lock
  BY DEF RecoverInFlight
<1>2. /\ lock = p /\ worker[p].gen = gen /\ gen \in Nat /\ worker[p] \in WorkerShape
      /\ WorkerSound(p)
  BY <1>1, HoldsLock
<1>3. r \in WorkerShape /\ r.at = "deletes" /\ r.gen = gen
  BY <1>2 DEF WorkerShape
<1>4. worker' = [worker EXCEPT ![p] = r]
  BY DEF RecoverInFlight
<1>. HIDE DEF r
<1>5. /\ OwnerShapes' /\ worker'[p] = r
      /\ \A q \in Procs \ {p} : worker'[q] = worker[q]
  <2>1. r.gen <= gen' /\ gen' \in Nat /\ gen <= gen' /\ lock' \in Procs \cup {"free"}
    BY <1>1, <1>2, <1>3
  <2>. QED  BY <1>3, <1>4, <2>1, OwnerMoves
<1>6. \A o \in Ops : op[o].state = "running" => op[o].holder # gen
  <2>. SUFFICES ASSUME NEW o \in Ops, op[o].state = "running"
                PROVE  op[o].holder # gen
    OBVIOUS
  <2>1. op[o].holder < gen /\ op[o].holder \in Nat
    BY <1>1, <1>2 DEF WorkerSound, OpsSound, OpShapes, OpShape
  <2>. QED  BY <1>2, <2>1
<1>. DEFINE back(o) == [op[o] EXCEPT !.state = "queued", !.holder = 0]
<1>7. op' = [o \in Ops |->
               IF op[o].state = "running" /\ op[o].holder # gen THEN back(o) ELSE op[o]]
  BY Zenon DEF RecoverInFlight
<1>a. ASSUME NEW o \in Ops
      PROVE  /\ op[o] \in OpShape /\ back(o) \in OpShape
             /\ back(o).state = "queued" /\ back(o).pending = op[o].pending
  <2>1. op[o] \in OpShape
    BY DEF OpsSound, OpShapes
  <2>. QED  BY <2>1 DEF OpShape
<1>. HIDE DEF back
<1>8. ASSUME NEW o \in Ops
      PROVE  /\ op[o] \in OpShape /\ op'[o] \in OpShape
             /\ op[o].state = "running" =>
                  op'[o].state = "queued" /\ op'[o].pending = op[o].pending
             /\ op[o].state # "running" => op'[o] = op[o]
  BY <1>6, <1>7, <1>a
<1>9. op' \in [Ops -> OpShape]
  BY <1>7, <1>8
<1>10. InOrder'
  <2>1. /\ \A o \in Ops : op[o].state \in Terminal => op'[o].state \in Terminal
        /\ \A o \in Ops : op'[o].state \in {"running", "committed", "rejected"} =>
             op[o].state \in {"running", "committed", "rejected"} \/ IsHead(o)
    BY <1>8
  <2>. QED  BY <1>1, <2>1, OrderKept
<1>11. ASSUME NEW o \in Ops PROVE OpSound(o)'
  <2>1. OpSound(o)
    BY DEF OpsSound
  <2>2. CASE op[o].state = "running"
    BY <1>1, <1>8, <2>1, <2>2 DEF OpSound, Receipt
  <2>3. CASE op[o].state # "running"
    <3>1. op'[o] = op[o]
      BY <1>8, <2>3
    <3>. QED  BY <1>1, <2>1, <3>1 DEF OpSound, Receipt
  <2>. QED  BY <2>2, <2>3
<1>12. \A o \in Ops : op'[o].state # "running"
  BY <1>8
<1>13. WorkerSound(p)'
  BY <1>1, <1>2, <1>3, <1>5, <1>12 DEF WorkerSound, Active
<1>14. WorkersSound'
  BY <1>1, <1>2, <1>5, <1>13, SoleWorker
<1>15. OpShapes' /\ QueueBounded'
  BY <1>1, <1>9 DEF OpsSound, OpShapes, QueueBounded
<1>. QED  BY <1>10, <1>11, <1>14, <1>15 DEF QInv, OpsSound

LEMMA BecomeReadySound ==
  ASSUME QInv, NEW p \in Procs, BecomeReady(p)
  PROVE  QInv'
<1>. OpsSound /\ WorkersSound
  BY DEF QInv
<1>. DEFINE r == [worker[p] EXCEPT !.at = "ready"]
<1>1. worker[p].at = "deletes" /\ UNCHANGED <<qseq, op, sub, applied, events, gen, lock>>
  BY DEF BecomeReady
<1>2. /\ lock = p /\ worker[p].gen = gen /\ gen \in Nat /\ worker[p] \in WorkerShape
      /\ WorkerSound(p)
  BY <1>1, HoldsLock
<1>3. r \in WorkerShape /\ r.at = "ready" /\ r.gen = gen
  BY <1>2 DEF WorkerShape
<1>4. worker' = [worker EXCEPT ![p] = r]
  BY DEF BecomeReady
<1>. HIDE DEF r
<1>5. /\ OwnerShapes' /\ worker'[p] = r
      /\ \A q \in Procs \ {p} : worker'[q] = worker[q]
  <2>1. r.gen <= gen' /\ gen' \in Nat /\ gen <= gen' /\ lock' \in Procs \cup {"free"}
    BY <1>1, <1>2, <1>3
  <2>. QED  BY <1>3, <1>4, <2>1, OwnerMoves
<1>6. WorkerSound(p)'
  BY <1>1, <1>2, <1>3, <1>5 DEF WorkerSound, Active
<1>7. WorkersSound'
  BY <1>1, <1>2, <1>5, <1>6, SoleWorker
<1>. QED  BY <1>1, <1>7, OpsStay DEF QInv

(* A worker that dies or fails gives the lock back.                        *)
LEMMA WorkerLeaves ==
  ASSUME OpsSound, WorkersSound, NEW p \in Procs, NEW l \in {"stopped", "failed"},
         worker' = [worker EXCEPT ![p] = [Stopped EXCEPT !.at = l]],
         lock' = IF lock = p THEN "free" ELSE lock, UNCHANGED <<op, gen>>
  PROVE  WorkersSound'
<1>. DEFINE r == [Stopped EXCEPT !.at = l]
<1>1. r \in WorkerShape /\ r.at = l /\ r.gen = 0
  BY DEF WorkerShape, Stopped
<1>2. gen \in Nat /\ lock' \in Procs \cup {"free"}
  BY DEF WorkersSound, OwnerShapes
<1>. HIDE DEF r
<1>3. /\ OwnerShapes' /\ worker'[p] = r
      /\ \A q \in Procs \ {p} : worker'[q] = worker[q]
  <2>1. worker' = [worker EXCEPT ![p] = r] /\ r.gen <= gen' /\ gen' \in Nat /\ gen <= gen'
    BY <1>1, <1>2 DEF r
  <2>. QED  BY <1>1, <1>2, <2>1, OwnerMoves
<1>4. ASSUME NEW q \in Procs PROVE WorkerSound(q)'
  <2>1. CASE q = p
    <3>1. worker'[q].at \in {"stopped", "failed"} /\ lock' # q
      BY <1>1, <1>3, <2>1
    <3>. QED  BY <3>1 DEF WorkerSound, Active
  <2>2. CASE q # p
    <3>1. worker'[q] = worker[q] /\ (lock' = q <=> lock = q)
      BY <1>3, <2>2
    <3>. QED  BY <3>1 DEF WorkersSound, WorkerSound, Active
  <2>. QED  BY <2>1, <2>2
<1>. QED  BY <1>3, <1>4 DEF WorkersSound

LEMMA WorkerDiesSound ==
  ASSUME QInv, NEW p \in Procs, WorkerDies(p)
  PROVE  QInv'
<1>1. [Stopped EXCEPT !.at = "stopped"] = Stopped
  BY DEF Stopped
<1>2. UNCHANGED <<qseq, op, sub, applied, events, gen>>
  BY DEF WorkerDies
<1>3. WorkersSound'
  BY <1>1, <1>2, WorkerLeaves DEF QInv, WorkerDies
<1>. QED  BY <1>2, <1>3, OpsStay DEF QInv

LEMMA RecoverDeleteSound ==
  ASSUME QInv, NEW p \in Procs, NEW o \in Ops, RecoverDelete(p, o)
  PROVE  QInv'
<1>. OpsSound /\ WorkersSound
  BY DEF QInv
<1>. DEFINE r == [worker[p] EXCEPT !.todo = @ \ {o}]
            next == worker' = [worker EXCEPT ![p] = r]
<1>1. worker[p].at = "deletes" /\ UNCHANGED <<qseq, applied, events, gen>>
  BY DEF RecoverDelete
<1>2. /\ lock = p /\ worker[p].gen = gen /\ gen \in Nat /\ worker[p] \in WorkerShape
      /\ WorkerSound(p)
  BY <1>1, HoldsLock
<1>3. r \in WorkerShape /\ r.at = "deletes" /\ r.gen = gen
  BY <1>1, <1>2 DEF WorkerShape
<1>4. \/ next /\ UNCHANGED <<op, sub, lock>>
      \/ /\ op[o].state = "committed" /\ next /\ UNCHANGED lock
         /\ sub' = [sub EXCEPT ![o] = "completed"] /\ op' = [op EXCEPT ![o].pending = FALSE]
      \/ /\ worker' = [worker EXCEPT ![p] = [Stopped EXCEPT !.at = "failed"]]
         /\ lock' = "free" /\ UNCHANGED <<op, sub>>
  BY DEF RecoverDelete
<1>. HIDE DEF r
<1>5. CASE /\ worker' = [worker EXCEPT ![p] = [Stopped EXCEPT !.at = "failed"]]
           /\ lock' = "free" /\ UNCHANGED <<op, sub>>
  <2>1. WorkersSound'
    BY <1>1, <1>2, <1>5, WorkerLeaves
  <2>. QED  BY <1>1, <1>5, <2>1, OpsStay DEF QInv
<1>6. ASSUME next, lock' = lock, \A q \in Ops : op'[q].state = op[q].state
      PROVE  WorkersSound'
  <2>1. r.gen <= gen' /\ gen' \in Nat /\ gen <= gen' /\ lock' \in Procs \cup {"free"}
    BY <1>1, <1>2, <1>3, <1>6
  <2>2. /\ OwnerShapes' /\ worker'[p] = r
        /\ \A q \in Procs \ {p} : worker'[q] = worker[q]
    BY <1>3, <1>6, <2>1, OwnerMoves
  <2>3. WorkerSound(p)'
    BY <1>1, <1>2, <1>3, <1>6, <2>2 DEF WorkerSound, Active
  <2>. QED  BY <1>2, <1>6, <2>2, <2>3, SoleWorker
<1>7. CASE next /\ UNCHANGED <<op, sub, lock>>
  <2>1. WorkersSound'
    BY <1>6, <1>7
  <2>. QED  BY <1>1, <1>7, <2>1, OpsStay DEF QInv
<1>8. CASE /\ op[o].state = "committed" /\ next /\ UNCHANGED lock
           /\ sub' = [sub EXCEPT ![o] = "completed"] /\ op' = [op EXCEPT ![o].pending = FALSE]
  <2>1. op[o] \in OpShape /\ op \in [Ops -> OpShape]
    BY DEF OpsSound, OpShapes
  <2>2. op'[o].state = "committed" /\ op'[o].pending = FALSE /\ op'[o] \in OpShape
    BY <1>8, <2>1 DEF OpShape
  <2>3. \A q \in Ops \ {o} : op'[q] = op[q] /\ sub'[q] = sub[q]
    BY <1>8, <2>1 DEF OpsSound, OpShapes
  <2>4. sub'[o] = "completed"
    BY <1>8 DEF OpsSound, OpShapes
  <2>5. OpShapes'
    <3>1. op' \in [Ops -> OpShape]
      <4>1. \A q \in Ops : op'[q] \in OpShape
        BY <2>1, <2>2, <2>3
      <4>2. op' = [q \in Ops |-> op'[q]]
        BY <1>8, <2>1
      <4>. QED  BY <4>1, <4>2
    <3>. QED  BY <1>1, <1>8, <3>1 DEF OpsSound, OpShapes
  <2>6. OpSound(o)'
    <3>1. OpSound(o)
      BY DEF OpsSound
    <3>. QED  BY <1>1, <1>8, <2>2, <2>4, <3>1 DEF OpSound, Receipt
  <2>7. OpsSound'
    BY <1>1, <1>8, <2>2, <2>3, <2>5, <2>6, OneOperation
  <2>8. WorkersSound'
    <3>1. \A q \in Ops : op'[q].state = op[q].state
      BY <1>8, <2>2, <2>3
    <3>. QED  BY <1>6, <1>8, <3>1
  <2>. QED  BY <2>7, <2>8 DEF QInv
<1>. QED  BY <1>4, <1>5, <1>7, <1>8

-----------------------------------------------------------------------------
(* Running and ending an operation                                         *)

(* The successors of o are queued, and no queued operation that refers to  *)
(* o or to one of them is left out.                                        *)
LEMMA SuccessorsClosed ==
  ASSUME NEW o \in Ops
  PROVE  /\ \A q \in Successors(o) : q \in Ops \ {o} /\ op[q].state = "queued"
         /\ \A q \in Ops \ {o} : \A x \in DependsOn[q] :
              op[q].state = "queued" /\ (x = o \/ x \in Successors(o)) => q \in Successors(o)
<1>1. Poisoned(o, {q \in Ops : op[q].state = "queued"})
  BY DEF Poisoned
<1>2. \A q \in Successors(o) : q \in Ops \ {o} /\ op[q].state = "queued"
  BY <1>1 DEF Successors
<1>3. ASSUME NEW q \in Ops \ {o}, NEW x \in DependsOn[q],
             op[q].state = "queued", x = o \/ x \in Successors(o)
      PROVE  q \in Successors(o)
  <2>1. ASSUME NEW os \in SUBSET Ops, Poisoned(o, os) PROVE q \in os
    <3>1. x \in os \cup {o}
      BY <1>3, <2>1 DEF Successors
    <3>. QED  BY <1>3, <2>1, <3>1 DEF Poisoned
  <2>. QED  BY <2>1 DEF Successors
<1>. QED  BY <1>2, <1>3

(* What the head may rely on when its worker runs it.                      *)
LEMMA HeadRuns ==
  ASSUME QInv, NEW p \in Procs, NEW o \in Ops, MayRun(p, o)
  PROVE  /\ lock = p /\ gen \in Nat /\ worker[p].at = "ready" /\ worker[p].gen = gen
         /\ WorkerSound(p) /\ \A q \in Ops : op[q].state # "running"
         /\ IsHead(o) /\ op[o].state = "queued" /\ op[o] \in OpShape
<1>. OpsSound /\ WorkersSound
  BY DEF QInv
<1>1. worker[p].at = "ready" /\ worker[p].gen = gen /\ IsHead(o) /\ op[o].state = "queued"
  BY DEF MayRun
<1>2. lock = p /\ gen \in Nat /\ WorkerSound(p)
  BY <1>1, HoldsLock
<1>3. op[o] \in OpShape
  BY DEF OpsSound, OpShapes
<1>4. \A q \in Ops : op[q].state # "running"
  BY <1>1, <1>2 DEF WorkerSound
<1>. QED  BY <1>1, <1>2, <1>3, <1>4

(* A step of the queue that starts nothing leaves the workers sound.       *)
LEMMA WorkersStay ==
  ASSUME OpsSound, WorkersSound, UNCHANGED <<worker, lock, gen>>,
         \A q \in Ops : op'[q].state = "running" => op'[q] = op[q],
         \A q \in Ops : op[q].state = "committed" => op'[q].state = "committed"
  PROVE  WorkersSound'
<1>1. OwnerShapes'
  BY DEF WorkersSound, OwnerShapes
<1>2. ASSUME NEW p \in Procs PROVE WorkerSound(p)'
  <2>1. WorkerSound(p)
    BY DEF WorkersSound
  <2>. QED  BY <2>1 DEF WorkerSound, Active
<1>. QED  BY <1>1, <1>2 DEF WorkersSound

(* A rejection ends the operation and its successors, each with one event. *)
LEMMA RejectSound ==
  ASSUME QInv, NEW o \in Ops, NEW token \in Nat, Reject(o, token),
         op[o].state \in {"queued", "running"}, op[o].state = "queued" => IsHead(o),
         UNCHANGED <<qseq, sub, applied, gen>>
  PROVE  /\ OpsSound'
         /\ op'[o].state = "rejected"
         /\ \A q \in Ops : op'[q].state = "running" => op'[q] = op[q] /\ q # o
         /\ \A q \in Ops : op[q].state = "committed" => op'[q].state = "committed"
<1>. OpsSound /\ WorkersSound
  BY DEF QInv
<1>. DEFINE ended == [EndAs(o, "rejected", FALSE) EXCEPT !.token = token, !.holder = gen]
            failed(q) == [op[q] EXCEPT !.state = "dependency_failed"]
<1>1. op' = [q \in Ops |-> IF q = o THEN ended
                           ELSE IF q \in Successors(o) THEN failed(q) ELSE op[q]]
  <2>1. op' = [q \in Ops |->
                 CASE q = o -> ended [] q \in Successors(o) -> failed(q) [] OTHER -> op[q]]
    BY Zenon DEF Reject
  <2>. HIDE DEF ended, failed
  <2>2. \A q \in Ops : (CASE q = o -> ended [] q \in Successors(o) -> failed(q) [] OTHER -> op[q])
          = IF q = o THEN ended ELSE IF q \in Successors(o) THEN failed(q) ELSE op[q]
    BY SuccessorsClosed
  <2>. QED  BY <2>1, <2>2
<1>2. op \in [Ops -> OpShape] /\ gen \in Nat
  BY DEF OpsSound, OpShapes, WorkersSound, OwnerShapes
<1>3. ended \in OpShape /\ ended.state = "rejected" /\ ended.pending = FALSE
  <2>1. op[o] \in OpShape
    BY <1>2
  <2>2. EndAs(o, "rejected", FALSE) \in OpShape /\ EndAs(o, "rejected", FALSE).state = "rejected"
          /\ EndAs(o, "rejected", FALSE).pending = FALSE
    BY <2>1 DEF EndAs, OpShape
  <2>. QED  BY <1>2, <2>2 DEF OpShape
<1>4. \A q \in Ops : /\ failed(q) \in OpShape /\ failed(q).state = "dependency_failed"
                     /\ failed(q).pending = op[q].pending
  BY <1>2 DEF OpShape
<1>. HIDE DEF ended, failed
<1>5. /\ op'[o] = ended
      /\ \A q \in Ops \ {o} : q \in Successors(o) => op'[q] = failed(q)
      /\ \A q \in Ops \ {o} : q \notin Successors(o) => op'[q] = op[q]
  BY <1>1
<1>6. \A q \in Successors(o) : q \in Ops \ {o} /\ op[q].state = "queued"
  BY SuccessorsClosed
<1>7. events' = [q \in Ops |-> IF q \in {o} \cup Successors(o) THEN events[q] + 1 ELSE events[q]]
  BY DEF Reject, AddEvents
<1>8. OpShapes'
  <2>1. op' \in [Ops -> OpShape]
    BY <1>1, <1>2, <1>3, <1>4
  <2>2. events' \in [Ops -> Nat]
    BY <1>7 DEF OpsSound, OpShapes
  <2>. QED  BY <2>1, <2>2 DEF OpsSound, OpShapes
<1>9. InOrder'
  <2>1. /\ \A q \in Ops : op[q].state \in Terminal => op'[q].state \in Terminal
        /\ \A q \in Ops : op'[q].state \in {"running", "committed", "rejected"} =>
             op[q].state \in {"running", "committed", "rejected"} \/ IsHead(q)
    BY <1>3, <1>4, <1>5, <1>6
  <2>. QED  BY <2>1, OrderKept
<1>10. ASSUME NEW q \in Ops PROVE OpSound(q)'
  <2>0. OpSound(q) /\ events[q] \in Nat
    BY DEF OpsSound, OpShapes
  <2>1. CASE q = o
    <3>1. events'[q] = events[q] + 1 /\ events[q] = 0
      BY <1>7, <2>0, <2>1 DEF OpSound, Receipt
    <3>2. op'[q].state = "rejected" /\ op'[q].pending = FALSE
      BY <1>3, <1>5, <2>1
    <3>. QED  BY <2>0, <2>1, <3>1, <3>2 DEF OpSound, Receipt
  <2>2. CASE q # o /\ q \in Successors(o)
    <3>1. events'[q] = events[q] + 1 /\ events[q] = 0
      BY <1>6, <1>7, <2>0, <2>2 DEF OpSound, Receipt
    <3>2. op'[q].state = "dependency_failed" /\ op'[q].pending = op[q].pending
            /\ op[q].state = "queued"
      BY <1>4, <1>5, <1>6, <2>2
    <3>. QED  BY <2>0, <3>1, <3>2 DEF OpSound, Receipt
  <2>3. CASE q # o /\ q \notin Successors(o)
    <3>1. events'[q] = events[q] /\ op'[q] = op[q]
      BY <1>5, <1>7, <2>3
    <3>. QED  BY <2>0, <3>1 DEF OpSound, Receipt
  <2>. QED  BY <2>1, <2>2, <2>3
<1>11. QueueBounded'
  BY DEF OpsSound, QueueBounded
<1>12. /\ op'[o].state = "rejected"
       /\ \A q \in Ops : op'[q].state = "running" => op'[q] = op[q] /\ q # o
       /\ \A q \in Ops : op[q].state = "committed" => op'[q].state = "committed"
  BY <1>3, <1>4, <1>5, <1>6
<1>. QED  BY <1>8, <1>9, <1>10, <1>11, <1>12 DEF OpsSound

LEMMA RejectEditSound ==
  ASSUME QInv, NEW p \in Procs, NEW o \in Ops, RejectEdit(p, o)
  PROVE  QInv'
<1>. OpsSound /\ WorkersSound
  BY DEF QInv
<1>1. MayRun(p, o) /\ Reject(o, op[o].token + 1)
        /\ UNCHANGED <<qseq, sub, applied, gen, lock, worker>>
  BY DEF RejectEdit
<1>2. IsHead(o) /\ op[o].state = "queued" /\ op[o] \in OpShape
  BY <1>1, HeadRuns
<1>3. op[o].token + 1 \in Nat
  BY <1>2 DEF OpShape
<1>4. /\ OpsSound'
      /\ \A q \in Ops : op'[q].state = "running" => op'[q] = op[q]
      /\ \A q \in Ops : op[q].state = "committed" => op'[q].state = "committed"
  BY <1>1, <1>2, <1>3, RejectSound
<1>5. WorkersSound'
  BY <1>1, <1>4, WorkersStay
<1>. QED  BY <1>4, <1>5 DEF QInv

(* What is claimed runs under the generation of the owner.                 *)
LEMMA ClaimShape ==
  ASSUME OpsSound, NEW o \in Ops, gen \in Nat
  PROVE  /\ Claim(o) \in OpShape /\ Claim(o).state = "running" /\ Claim(o).holder = gen
         /\ Claim(o).pending = op[o].pending
<1>1. op[o] \in OpShape
  BY DEF OpsSound, OpShapes
<1>2. Claim(o).state = "running" /\ Claim(o).holder = gen /\ Claim(o).pending = op[o].pending
  BY <1>1 DEF Claim, OpShape
<1>3. op[o].token + 1 \in Nat
  BY <1>1 DEF OpShape
<1>4. Claim(o) \in OpShape
  BY <1>1, <1>3 DEF Claim, OpShape
<1>. QED  BY <1>2, <1>4

(* An edit ends in the transaction that runs it.                           *)
LEMMA EndedAtOnce ==
  ASSUME QInv, NEW p \in Procs, NEW o \in Ops \ Deletes, MayRun(p, o),
         NEW l \in {"committed", "rejected"},
         op' = [op EXCEPT ![o] = [Claim(o) EXCEPT !.state = l]], AddEvents({o}),
         applied' = IF l = "committed" THEN [applied EXCEPT ![o] = @ + 1] ELSE applied,
         UNCHANGED <<qseq, sub, gen, lock, worker>>
  PROVE  QInv'
<1>. OpsSound /\ WorkersSound
  BY DEF QInv
<1>. DEFINE r == [Claim(o) EXCEPT !.state = l]
<1>1. /\ gen \in Nat /\ IsHead(o) /\ op[o].state = "queued"
      /\ \A q \in Ops : op[q].state # "running"
  BY HeadRuns
<1>2. op \in [Ops -> OpShape] /\ applied \in [Ops -> Nat] /\ events \in [Ops -> Nat]
  BY DEF OpsSound, OpShapes
<1>3. r \in OpShape /\ r.state = l
  BY <1>1, ClaimShape DEF OpShape
<1>4. op' = [op EXCEPT ![o] = r]
  OBVIOUS
<1>. HIDE DEF r
<1>5. op'[o] = r /\ (\A q \in Ops \ {o} : op'[q] = op[q]) /\ op' \in [Ops -> OpShape]
  BY <1>2, <1>3, <1>4
<1>6. /\ events' \in [Ops -> Nat] /\ events'[o] = events[o] + 1
      /\ \A q \in Ops \ {o} : events'[q] = events[q]
  BY <1>2 DEF AddEvents
<1>7. /\ applied' \in [Ops -> Nat] /\ \A q \in Ops \ {o} : applied'[q] = applied[q]
      /\ applied'[o] = IF l = "committed" THEN applied[o] + 1 ELSE applied[o]
  BY <1>2
<1>8. OpSound(o)'
  <2>1. OpSound(o) /\ events[o] = 0 /\ applied[o] = 0
    BY <1>1 DEF OpsSound, OpSound, Receipt
  <2>2. events'[o] = 1 /\ applied'[o] = IF l = "committed" THEN 1 ELSE 0
    BY <1>6, <1>7, <2>1
  <2>. QED  BY <1>1, <1>3, <1>5, <2>1, <2>2 DEF OpSound, Receipt
<1>9. OpShapes'
  BY <1>5, <1>6, <1>7 DEF OpsSound, OpShapes
<1>10. OpsSound'
  BY <1>1, <1>3, <1>5, <1>6, <1>7, <1>8, <1>9, OneOperation
<1>11. WorkersSound'
  <2>1. \A q \in Ops : op'[q].state # "running"
    BY <1>1, <1>3, <1>5
  <2>2. \A q \in Ops : op[q].state = "committed" => op'[q].state = "committed"
    BY <1>1, <1>5
  <2>. QED  BY <2>1, <2>2, WorkersStay
<1>. QED  BY <1>10, <1>11 DEF QInv

LEMMA EditSound ==
  ASSUME QInv, NEW p \in Procs, NEW o \in Ops, CommitEdit(p, o) \/ DropTitle(p, o)
  PROVE  QInv'
<1>1. CASE CommitEdit(p, o)
  <2>1. /\ o \in Ops \ Deletes /\ MayRun(p, o) /\ AddEvents({o})
        /\ op' = [op EXCEPT ![o] = [Claim(o) EXCEPT !.state = "committed"]]
        /\ applied' = [applied EXCEPT ![o] = @ + 1]
        /\ UNCHANGED <<qseq, sub, gen, lock, worker>>
    BY <1>1, Zenon DEF CommitEdit
  <2>. QED  BY <2>1, EndedAtOnce
<1>2. CASE DropTitle(p, o)
  <2>0. o \in Titles /\ MayRun(p, o)
    BY <1>2 DEF DropTitle
  <2>1. /\ AddEvents({o}) /\ applied' = applied
        /\ op' = [op EXCEPT ![o] = [Claim(o) EXCEPT !.state = "rejected"]]
        /\ UNCHANGED <<qseq, sub, gen, lock, worker>>
    BY <1>2, Zenon DEF DropTitle
  <2>2. o \in Ops \ Deletes
    BY <2>0
  <2>. QED  BY <2>0, <2>1, <2>2, EndedAtOnce
<1>. QED  BY <1>1, <1>2

-----------------------------------------------------------------------------
(* Recursive deletions                                                     *)

LEMMA ClaimDeleteSound ==
  ASSUME QInv, NEW p \in Procs, NEW o \in Ops, ClaimDelete(p, o)
  PROVE  QInv'
<1>. OpsSound /\ WorkersSound
  BY DEF QInv
<1>1. /\ MayRun(p, o) /\ o \in Deletes /\ Goto(p, "claimed", o)
      /\ UNCHANGED <<qseq, sub, applied, events, gen, lock>>
      /\ op' = [op EXCEPT ![o] = Claim(o)]
  BY DEF ClaimDelete
<1>2. /\ lock = p /\ gen \in Nat /\ worker[p].gen = gen /\ WorkerSound(p)
      /\ IsHead(o) /\ op[o].state = "queued" /\ \A q \in Ops : op[q].state # "running"
  BY <1>1, HeadRuns
<1>3. op \in [Ops -> OpShape]
  BY DEF OpsSound, OpShapes
<1>4. /\ Claim(o) \in OpShape /\ Claim(o).state = "running" /\ Claim(o).holder = gen
      /\ Claim(o).pending = op[o].pending
  BY <1>2, ClaimShape
<1>5. /\ op'[o] = Claim(o) /\ (\A q \in Ops \ {o} : op'[q] = op[q])
      /\ op' \in [Ops -> OpShape]
  BY <1>1, <1>3, <1>4
<1>6. OpSound(o)'
  <2>1. OpSound(o)
    BY DEF OpsSound
  <2>. QED  BY <1>1, <1>2, <1>4, <1>5, <2>1 DEF OpSound, Receipt
<1>7. OpShapes'
  BY <1>1, <1>5 DEF OpsSound, OpShapes
<1>8. OpsSound'
  BY <1>1, <1>2, <1>4, <1>5, <1>6, <1>7, OneOperation
<1>9. /\ OwnerShapes' /\ worker'[p].at = "claimed" /\ worker'[p].op = o
      /\ worker'[p].gen = worker[p].gen
      /\ \A q \in Procs \ {p} : worker'[q] = worker[q]
  BY <1>1, Moves
<1>10. \A q \in Ops : op'[q].state = "running" => q = o
  BY <1>2, <1>5
<1>11. WorkerSound(p)'
  BY <1>1, <1>2, <1>9, <1>10 DEF WorkerSound, Active
<1>12. WorkersSound'
  BY <1>1, <1>2, <1>9, <1>11, SoleWorker
<1>. QED  BY <1>8, <1>12 DEF QInv

(* A worker inside a deletion, or with one that was marked.                *)
LEMMA InDeletion ==
  ASSUME QInv, NEW p \in Procs, worker[p].at \in Deleting \cup {"marked"}
  PROVE  LET o == worker[p].op IN
         /\ lock = p /\ gen \in Nat /\ worker[p].gen = gen /\ o \in Deletes /\ o \in Ops
         /\ worker[p].at \in Deleting => \A q \in Ops : op[q].state = "running" => q = o
         /\ worker[p].at = "marked" => /\ op[o].state = "committed"
                                       /\ \A q \in Ops : op[q].state # "running"
         /\ OpSound(o) /\ op[o] \in OpShape /\ events[o] \in Nat /\ applied[o] \in Nat
<1>. OpsSound /\ WorkersSound
  BY DEF QInv
<1>. DEFINE o == worker[p].op
<1>1. lock = p /\ gen \in Nat /\ worker[p].gen = gen /\ WorkerSound(p)
  BY HoldsLock
<1>2. o \in Deletes /\ o \in Ops
  BY <1>1 DEF WorkerSound
<1>3. worker[p].at \in Deleting => \A q \in Ops : op[q].state = "running" => q = o
  BY <1>1 DEF WorkerSound
<1>4. worker[p].at = "marked" => /\ op[o].state = "committed"
                                 /\ \A q \in Ops : op[q].state # "running"
  BY <1>1 DEF WorkerSound
<1>5. OpSound(o) /\ op[o] \in OpShape /\ events[o] \in Nat /\ applied[o] \in Nat
  BY <1>2 DEF OpsSound, OpShapes
<1>. QED  BY <1>1, <1>2, <1>3, <1>4, <1>5

(* The worker goes on, while the operations run as before or have ended.   *)
LEMMA DeletionGoesOn ==
  ASSUME QInv, NEW p \in Procs, worker[p].at \in Deleting \cup {"marked"},
         NEW l \in {"ready", "opened", "marked", "refused"},
         NEW o \in {worker[p].op, "none"}, Goto(p, l, o), UNCHANGED <<gen, lock>>,
         l # "ready" => o = worker[p].op,
         l = "marked" => op'[worker[p].op].state = "committed",
         \A q \in Ops : op'[q].state = "running" =>
            op[q].state = "running" /\ l \in {"opened", "refused"}
  PROVE  WorkersSound'
<1>. WorkersSound
  BY DEF QInv
<1>1. /\ lock = p /\ gen \in Nat /\ worker[p].gen = gen /\ worker[p].op \in Deletes
      /\ worker[p].op \in Ops
      /\ \A q \in Ops : op[q].state = "running" => q = worker[p].op
  BY InDeletion
<1>2. /\ OwnerShapes' /\ worker'[p].at = l /\ worker'[p].op = o
      /\ worker'[p].gen = worker[p].gen
      /\ \A q \in Procs \ {p} : worker'[q] = worker[q]
  BY <1>1, Moves
<1>3. WorkerSound(p)'
  BY <1>1, <1>2 DEF WorkerSound, Active
<1>. QED  BY <1>1, <1>2, <1>3, SoleWorker

LEMMA BlockDeleteSound ==
  ASSUME QInv, NEW p \in Procs, BlockDelete(p)
  PROVE  QInv'
<1>1. /\ worker[p].at = "claimed" /\ Goto(p, "refused", worker[p].op)
      /\ UNCHANGED <<qseq, op, sub, applied, events, gen, lock>>
  BY DEF BlockDelete
<1>2. WorkersSound'
  BY <1>1, DeletionGoesOn
<1>. QED  BY <1>1, <1>2, OpsStay DEF QInv

(* Only the record of the deletion changes, and not over its mark.         *)
LEMMA RecordMoves ==
  ASSUME OpsSound, NEW o \in Ops, UNCHANGED <<qseq, op, applied, events, gen>>,
         NEW s \in {"none", "preparing", "deleting", "completed", "aborted"},
         sub' = [sub EXCEPT ![o] = s],
         s = sub[o] \/ {s, sub[o]} \cap {"deleting", "completed"} = {}
  PROVE  OpsSound'
<1>1. sub'[o] = s /\ \A q \in Ops \ {o} : sub'[q] = sub[q]
  BY DEF OpsSound, OpShapes
<1>2. OpSound(o)'
  BY <1>1 DEF OpsSound, OpSound, Receipt
<1>3. OpShapes'
  BY DEF OpsSound, OpShapes
<1>. QED  BY <1>1, <1>2, <1>3, OneOperation

LEMMA OpenDeleteSound ==
  ASSUME QInv, NEW p \in Procs, OpenDelete(p)
  PROVE  QInv'
<1>. DEFINE o == worker[p].op
            s == IF sub[o] = "none" THEN "preparing" ELSE sub[o]
            l == IF sub[o] = "aborted" THEN "refused" ELSE "opened"
<1>. OpsSound /\ WorkersSound
  BY DEF QInv
<1>1. /\ worker[p].at = "claimed" /\ Goto(p, l, o) /\ sub' = [sub EXCEPT ![o] = s]
      /\ UNCHANGED <<qseq, op, applied, events, gen, lock>>
  BY DEF OpenDelete
<1>2. o \in Ops
  BY <1>1, InDeletion
<1>3. /\ s \in {"none", "preparing", "deleting", "completed", "aborted"}
      /\ s = sub[o] \/ {s, sub[o]} \cap {"deleting", "completed"} = {}
  BY <1>2 DEF OpsSound, OpShapes
<1>4. OpsSound'
  <2>. HIDE DEF s, o
  <2>. QED  BY <1>1, <1>2, <1>3, RecordMoves
<1>5. WorkersSound'
  <2>1. l \in {"ready", "opened", "marked", "refused"} /\ l \in {"opened", "refused"}
    OBVIOUS
  <2>2. \A q \in Ops : op'[q].state = "running" => op[q].state = "running"
    BY <1>1
  <2>. HIDE DEF l
  <2>. QED  BY <1>1, <2>1, <2>2, DeletionGoesOn
<1>. QED  BY <1>4, <1>5 DEF QInv

LEMMA AbortDeleteSound ==
  ASSUME QInv, NEW p \in Procs, AbortDelete(p)
  PROVE  QInv'
<1>. DEFINE o == worker[p].op
<1>. OpsSound /\ WorkersSound
  BY DEF QInv
<1>1. /\ worker[p].at = "opened" /\ Goto(p, "refused", o) /\ sub[o] = "preparing"
      /\ sub' = [sub EXCEPT ![o] = "aborted"]
      /\ UNCHANGED <<qseq, op, applied, events, gen, lock>>
  BY DEF AbortDelete
<1>2. o \in Ops
  BY <1>1, InDeletion
<1>3. OpsSound'
  BY <1>1, <1>2, RecordMoves
<1>4. WorkersSound'
  BY <1>1, DeletionGoesOn
<1>. QED  BY <1>3, <1>4 DEF QInv

(* The mark, the effect, the receipt and the event are one transaction.    *)
LEMMA MarkDeleteSound ==
  ASSUME QInv, NEW p \in Procs, MarkDelete(p)
  PROVE  QInv'
<1>0. worker[p].at \in Deleting /\ worker[p].op \in Ops
  BY InDeletion DEF MarkDelete
<1>. PICK o \in Ops : o = worker[p].op
  BY <1>0
<1>. DEFINE r == EndAs(o, "committed", TRUE)
<1>. OpsSound /\ WorkersSound
  BY DEF QInv
<1>1. /\ worker[p].at = "opened" /\ sub[o] = "preparing" /\ op[o].state = "running"
      /\ sub' = [sub EXCEPT ![o] = "deleting"] /\ op' = [op EXCEPT ![o] = r]
      /\ applied' = [applied EXCEPT ![o] = @ + 1] /\ AddEvents({o}) /\ Goto(p, "marked", o)
      /\ UNCHANGED <<qseq, gen, lock>>
  BY DEF MarkDelete
<1>2. /\ o \in Ops /\ o \in Deletes /\ OpSound(o) /\ op[o] \in OpShape
      /\ \A q \in Ops : op[q].state = "running" => q = o
  BY <1>1, InDeletion
<1>3. /\ op \in [Ops -> OpShape] /\ applied \in [Ops -> Nat] /\ events \in [Ops -> Nat]
      /\ sub \in [Ops -> {"none", "preparing", "deleting", "completed", "aborted"}]
  BY DEF OpsSound, OpShapes
<1>4. r \in OpShape /\ r.state = "committed" /\ r.pending = TRUE
  BY <1>2 DEF EndAs, OpShape
<1>. HIDE DEF r
<1>5. op'[o] = r /\ (\A q \in Ops \ {o} : op'[q] = op[q]) /\ op' \in [Ops -> OpShape]
  BY <1>1, <1>2, <1>3, <1>4
<1>6. /\ events' \in [Ops -> Nat] /\ events'[o] = events[o] + 1
      /\ \A q \in Ops \ {o} : events'[q] = events[q]
  BY <1>1, <1>2, <1>3 DEF AddEvents
<1>7. /\ applied' \in [Ops -> Nat] /\ applied'[o] = applied[o] + 1
      /\ \A q \in Ops \ {o} : applied'[q] = applied[q]
  BY <1>1, <1>2, <1>3
<1>8. sub'[o] = "deleting" /\ \A q \in Ops \ {o} : sub'[q] = sub[q]
  BY <1>1, <1>2, <1>3
<1>9. OpSound(o)'
  <2>1. events[o] = 0 /\ applied[o] = 0
    BY <1>1, <1>2 DEF OpSound, Receipt
  <2>2. events'[o] = 1 /\ applied'[o] = 1
    BY <1>6, <1>7, <2>1
  <2>. QED  BY <1>1, <1>2, <1>4, <1>5, <1>8, <2>2 DEF OpSound, Receipt
<1>10. OpShapes'
  BY <1>1, <1>3, <1>5, <1>6, <1>7 DEF OpsSound, OpShapes
<1>11. OpsSound'
  BY <1>1, <1>2, <1>4, <1>5, <1>6, <1>7, <1>8, <1>9, <1>10, OneOperation
<1>12. WorkersSound'
  <2>1. \A q \in Ops : op'[q].state # "running"
    BY <1>2, <1>4, <1>5
  <2>2. op'[worker[p].op].state = "committed" /\ Goto(p, "marked", worker[p].op)
    BY <1>1, <1>4, <1>5
  <2>. QED  BY <1>1, <2>1, <2>2, DeletionGoesOn
<1>. QED  BY <1>11, <1>12 DEF QInv

LEMMA RejectDeleteSound ==
  ASSUME QInv, NEW p \in Procs, RejectDelete(p)
  PROVE  QInv'
<1>. DEFINE o == worker[p].op
<1>1. /\ worker[p].at = "refused" /\ op[o].state = "running" /\ Reject(o, op[o].token)
      /\ Goto(p, "ready", "none") /\ UNCHANGED <<qseq, sub, applied, gen, lock>>
  BY DEF RejectDelete
<1>2. /\ o \in Ops /\ op[o] \in OpShape
      /\ \A q \in Ops : op[q].state = "running" => q = o
  BY <1>1, InDeletion
<1>3. op[o].token \in Nat
  BY <1>2 DEF OpShape
<1>4. /\ OpsSound'
      /\ \A q \in Ops : op'[q].state = "running" => op'[q] = op[q] /\ q # o
  BY <1>1, <1>2, <1>3, RejectSound
<1>5. \A q \in Ops : op'[q].state # "running"
  BY <1>2, <1>4
<1>6. WorkersSound'
  BY <1>1, <1>5, DeletionGoesOn
<1>. QED  BY <1>4, <1>6 DEF QInv

LEMMA SettleDeleteSound ==
  ASSUME QInv, NEW p \in Procs, SettleDelete(p)
  PROVE  QInv'
<1>0. worker[p].at = "marked" /\ worker[p].op \in Ops
  BY InDeletion DEF SettleDelete
<1>. PICK o \in Ops : o = worker[p].op
  BY <1>0
<1>. DEFINE r == [op[o] EXCEPT !.pending = FALSE]
<1>. OpsSound /\ WorkersSound
  BY DEF QInv
<1>1. /\ worker[p].at = "marked" /\ Goto(p, "ready", "none")
      /\ sub' = [sub EXCEPT ![o] = "completed"] /\ op' = [op EXCEPT ![o].pending = FALSE]
      /\ UNCHANGED <<qseq, applied, events, gen, lock>>
  BY DEF SettleDelete
<1>2. /\ o \in Ops /\ OpSound(o) /\ op[o] \in OpShape /\ op[o].state = "committed"
      /\ \A q \in Ops : op[q].state # "running"
  BY <1>1, InDeletion
<1>3. /\ op \in [Ops -> OpShape]
      /\ sub \in [Ops -> {"none", "preparing", "deleting", "completed", "aborted"}]
  BY DEF OpsSound, OpShapes
<1>4. r \in OpShape /\ r.state = "committed" /\ r.pending = FALSE
  BY <1>2 DEF OpShape
<1>5. op' = [op EXCEPT ![o] = r]
  BY <1>1
<1>. HIDE DEF r
<1>6. op'[o] = r /\ (\A q \in Ops \ {o} : op'[q] = op[q]) /\ op' \in [Ops -> OpShape]
  BY <1>2, <1>3, <1>4, <1>5
<1>7. sub'[o] = "completed" /\ \A q \in Ops \ {o} : sub'[q] = sub[q]
  BY <1>1, <1>2, <1>3
<1>8. OpSound(o)'
  BY <1>1, <1>2, <1>4, <1>6, <1>7 DEF OpSound, Receipt
<1>9. OpShapes'
  BY <1>1, <1>6 DEF OpsSound, OpShapes
<1>10. OpsSound'
  BY <1>1, <1>2, <1>4, <1>6, <1>7, <1>8, <1>9, OneOperation
<1>11. \A q \in Ops : op'[q].state # "running"
  BY <1>2, <1>4, <1>6
<1>12. WorkersSound'
  BY <1>1, <1>11, DeletionGoesOn
<1>. QED  BY <1>10, <1>12 DEF QInv

LEMMA FailSettlementSound ==
  ASSUME QInv, NEW p \in Procs, FailSettlement(p)
  PROVE  QInv'
<1>1. /\ worker[p].at = "marked" /\ Goto(p, "ready", "none")
      /\ UNCHANGED <<qseq, op, sub, applied, events, gen, lock>>
  BY DEF FailSettlement
<1>2. \A q \in Ops : op'[q].state # "running"
  BY <1>1, InDeletion
<1>3. WorkersSound'
  BY <1>1, <1>2, DeletionGoesOn
<1>. QED  BY <1>1, <1>3, OpsStay DEF QInv

-----------------------------------------------------------------------------
(* The specification                                                       *)

LEMMA StepSound == QInv /\ [Next]_vars => QInv'
<1>. SUFFICES ASSUME QInv, [Next]_vars PROVE QInv'
  OBVIOUS
<1>1. CASE UNCHANGED vars
  <2>1. WorkersSound'
    BY <1>1, WorkersStay DEF QInv, vars
  <2>. QED  BY <1>1, <2>1, OpsStay DEF QInv, vars
<1>2. ASSUME NEW b \in Batches, Enqueue(b) PROVE QInv'
  BY <1>2, EnqueueSound
<1>3. ASSUME NEW p \in Procs,
             AcquireOwner(p) \/ BlockDelete(p) \/ FailSettlement(p) \/ WorkerDies(p)
      PROVE  QInv'
  BY <1>3, AcquireSound, BlockDeleteSound, FailSettlementSound, WorkerDiesSound
<1>4. ASSUME NEW p \in Procs, Run(p) PROVE QInv'
  <2>1. CASE RecoverInFlight(p) \/ BecomeReady(p)
    BY <2>1, RecoverInFlightSound, BecomeReadySound
  <2>2. ASSUME NEW o \in Ops,
               RecoverDelete(p, o) \/ CommitEdit(p, o) \/ RejectEdit(p, o) \/ DropTitle(p, o)
                 \/ ClaimDelete(p, o)
        PROVE  QInv'
    BY <2>2, RecoverDeleteSound, EditSound, RejectEditSound, ClaimDeleteSound
  <2>3. CASE OpenDelete(p) \/ MarkDelete(p) \/ AbortDelete(p) \/ RejectDelete(p)
               \/ SettleDelete(p)
    BY <2>3, OpenDeleteSound, MarkDeleteSound, AbortDeleteSound, RejectDeleteSound,
       SettleDeleteSound
  <2>. QED  BY <1>4, <2>1, <2>2, <2>3 DEF Run
<1>. QED  BY <1>1, <1>2, <1>3, <1>4 DEF Next

(* The lock, the recovery at the start of an owner and the transactions of *)
(* the queue keep every operation sound, over any number of deaths of a    *)
(* worker (queue_worker, queue_store).                                     *)
THEOREM NavigationIsSound == Spec => []QInv
<1>1. Init => QInv
  BY InitSound
<1>2. QInv /\ [Next]_vars => QInv'
  BY StepSound
<1>. QED  BY <1>1, <1>2, PTL DEF Spec

(* Operations end in the order in which they were accepted, one process    *)
(* runs them, nothing that another owner left running is lost, and the     *)
(* receipt of a deletion tells the state of its record (claim_running,     *)
(* recover_in_flight, the hooks of the subtree deletion).                  *)
THEOREM NavigationInvariance == Spec => []NavigationInv
<1>1. QInv => NavigationInv
  <2>. SUFFICES ASSUME QInv PROVE NavigationInv
    OBVIOUS
  <2>1. TypeOK
    BY DEF QInv, OpsSound, OpShapes, OpShape, WorkersSound, OwnerShapes, WorkerShape, TypeOK
  <2>2. InOrder
    BY DEF QInv, OpsSound
  <2>3. ReceiptIsMark
    BY DEF QInv, OpsSound, OpSound, Receipt, ReceiptIsMark
  <2>4. OneOwner
    BY DEF QInv, WorkersSound, WorkerSound, Active, OneOwner
  <2>. QED  BY <2>1, <2>2, <2>3, <2>4 DEF NavigationInv
<1>. QED  BY <1>1, NavigationIsSound, PTL

(* The nodes change once for an operation, exactly when its receipt says   *)
(* committed, and every ended operation has one event (the transactions    *)
(* that commit, reject, mark and settle).                                  *)
THEOREM EffectsHappenOnce == Spec => []AppliedOnce
<1>1. QInv => AppliedOnce
  BY DEF QInv, OpsSound, OpSound, Receipt, AppliedOnce
<1>. QED  BY <1>1, NavigationIsSound, PTL

-----------------------------------------------------------------------------
(* Failures                                                                *)

(* When the next operation in the order ends, none that was accepted       *)
(* before it is waiting, and none that refers to one still waiting has run *)
(* or is ending now.                                                       *)
LEMMA DependentsWait ==
  ASSUME OpsSound, NEW o \in Accepted, NEW x \in DependsOn[o],
         op[x].state \in {"queued", "running"}
  PROVE  /\ op[o].state \in {"queued", "dependency_failed"} /\ ~IsHead(o)
<1>1. x \in Accepted /\ qseq[x] < qseq[o] /\ x \in Ops /\ o \in Ops
  BY DEF OpsSound, InOrder, Accepted
<1>2. op[o].state \notin {"running", "committed", "rejected"}
  BY <1>1 DEF OpsSound, InOrder
<1>3. op[o].state \in OpStates \ {"none"}
  BY <1>1 DEF OpsSound, OpShapes, OpShape, OpSound, Accepted
<1>4. ~IsHead(o)
  <2>1. x \in Pending /\ qseq[x] \in Nat /\ qseq[o] \in Nat
    BY <1>1 DEF Pending, OpsSound, OpShapes
  <2>. QED  BY <1>1, <2>1 DEF IsHead
<1>. QED  BY <1>2, <1>3, <1>4

LEMMA RejectReachesSuccessors ==
  ASSUME OpsSound, NEW d \in Ops, NEW token, Reject(d, token),
         op[d].state = "running" \/ (IsHead(d) /\ op[d].state = "queued"),
         NEW o \in Accepted, NEW x \in DependsOn[o],
         x = d \/ (op[x].state = "queued" /\ op'[x].state = "dependency_failed")
  PROVE  op'[o].state = "dependency_failed"
<1>. DEFINE ended == [EndAs(d, "rejected", FALSE) EXCEPT !.token = token, !.holder = gen]
            failed(q) == [op[q] EXCEPT !.state = "dependency_failed"]
<1>1. op' = [q \in Ops |->
               CASE q = d -> ended [] q \in Successors(d) -> failed(q) [] OTHER -> op[q]]
  BY Zenon DEF Reject
<1>2. o \in Ops /\ x \in Ops /\ op[o] \in OpShape
  BY DEF Accepted, OpsSound, OpShapes
<1>3. \A q \in Ops : failed(q).state = "dependency_failed"
  BY DEF OpsSound, OpShapes, OpShape
<1>. HIDE DEF ended, failed
<1>4. /\ \A q \in Successors(d) : op'[q] = failed(q)
      /\ \A q \in Ops \ {d} : q \notin Successors(d) => op'[q] = op[q]
  BY <1>1, SuccessorsClosed
<1>5. x = d \/ x \in Successors(d)
  BY <1>2, <1>4
<1>6. op[x].state \in {"queued", "running"}
  BY <1>5, SuccessorsClosed
<1>7. o # d /\ op[o].state \in {"queued", "dependency_failed"}
  BY <1>6, DependentsWait
<1>8. CASE op[o].state = "queued"
  <2>1. o \in Successors(d)
    BY <1>2, <1>5, <1>7, <1>8, SuccessorsClosed
  <2>. QED  BY <1>2, <1>3, <1>4, <2>1
<1>9. CASE op[o].state = "dependency_failed"
  <2>1. o \notin Successors(d)
    BY <1>9, SuccessorsClosed
  <2>. QED  BY <1>2, <1>4, <1>7, <1>9, <2>1
<1>. QED  BY <1>7, <1>8, <1>9

(* Only the two rejections of the queue, and the dropped title, reject.    *)
LEMMA WhoRejects ==
  ASSUME QInv, Next, NEW d \in Ops \ Titles, op[d].state # "rejected", op'[d].state = "rejected"
  PROVE  \E token : /\ Reject(d, token)
                    /\ op[d].state = "running" \/ (IsHead(d) /\ op[d].state = "queued")
<1>. OpsSound /\ WorkersSound
  BY DEF QInv
<1>1. op \in [Ops -> OpShape]
  BY DEF OpsSound, OpShapes
<1>2. ASSUME NEW o \in Ops, NEW token, Reject(o, token) PROVE d = o
  <2>1. ASSUME d # o PROVE FALSE
    <3>1. op'[d] = IF d \in Successors(o) THEN [op[d] EXCEPT !.state = "dependency_failed"] ELSE op[d]
      BY <1>2, <2>1 DEF Reject
    <3>2. op[d] \in OpShape
      BY <1>1
    <3>3. [op[d] EXCEPT !.state = "dependency_failed"].state = "dependency_failed"
      BY <3>2 DEF OpShape
    <3>. QED  BY <3>1, <3>3
  <2>. QED  BY <2>1
<1>3. ASSUME NEW p \in Procs, NEW o \in Ops, RejectEdit(p, o)
      PROVE  \E token : /\ Reject(d, token)
                        /\ op[d].state = "running" \/ (IsHead(d) /\ op[d].state = "queued")
  <2>1. Reject(o, op[o].token + 1) /\ IsHead(o) /\ op[o].state = "queued"
    BY <1>3 DEF RejectEdit, MayRun
  <2>. QED  BY <1>2, <2>1
<1>4. ASSUME NEW p \in Procs, RejectDelete(p)
      PROVE  \E token : /\ Reject(d, token)
                        /\ op[d].state = "running" \/ (IsHead(d) /\ op[d].state = "queued")
  <2>1. worker[p].op \in Ops
    BY <1>4, InDeletion DEF RejectDelete
  <2>2. /\ Reject(worker[p].op, op[worker[p].op].token)
        /\ op[worker[p].op].state = "running"
    BY <1>4 DEF RejectDelete
  <2>3. d = worker[p].op
    BY <1>2, <2>1, <2>2
  <2>4. /\ Reject(d, op[d].token)
        /\ op[d].state = "running"
    BY <2>2, <2>3
  <2>. QED  BY <2>4
<1>5. ASSUME NEW o \in Ops, NEW r, r.state # "rejected" \/ r.state = op[o].state \/ o # d,
             op' = [op EXCEPT ![o] = r]
      PROVE  FALSE
  BY <1>1, <1>5
<1>6. ASSUME NEW b \in Batches, Enqueue(b) PROVE FALSE
  <2>. DEFINE new == [NoOp EXCEPT !.state = "queued"]
  <2>1. op' = [o \in Ops |-> IF o \in Fresh(b) THEN new ELSE op[o]]
    BY <1>6 DEF Enqueue
  <2>2. new.state = "queued"
    BY DEF NoOp
  <2>. HIDE DEF new
  <2>. QED  BY <2>1, <2>2
<1>7. ASSUME NEW p \in Procs, RecoverInFlight(p) PROVE FALSE
  <2>. DEFINE back(o) == [op[o] EXCEPT !.state = "queued", !.holder = 0]
  <2>1. op' = [o \in Ops |->
                 IF op[o].state = "running" /\ op[o].holder # gen THEN back(o) ELSE op[o]]
    BY <1>7, Zenon DEF RecoverInFlight
  <2>2. back(d).state = "queued"
    BY <1>1 DEF OpShape
  <2>. HIDE DEF back
  <2>. QED  BY <2>1, <2>2
<1>8. ASSUME NEW p \in Procs, NEW o \in Ops, RecoverDelete(p, o) PROVE FALSE
  <2>1. op' = op \/ op' = [op EXCEPT ![o].pending = FALSE]
    BY <1>8 DEF RecoverDelete
  <2>2. CASE op' = [op EXCEPT ![o].pending = FALSE]
    <3>1. [op[o] EXCEPT !.pending = FALSE].state = op[o].state
      BY <1>1 DEF OpShape
    <3>2. op' = [op EXCEPT ![o] = [op[o] EXCEPT !.pending = FALSE]]
      BY <2>2
    <3>. QED  BY <1>5, <3>1, <3>2
  <2>. QED  BY <2>1, <2>2
<1>9. ASSUME NEW p \in Procs, NEW o \in Ops,
             CommitEdit(p, o) \/ DropTitle(p, o) \/ ClaimDelete(p, o)
      PROVE  FALSE
  <2>0. gen \in Nat
    BY DEF WorkersSound, OwnerShapes
  <2>1. Claim(o).state = "running" /\ Claim(o) \in OpShape
    BY <2>0, ClaimShape
  <2>2. CASE CommitEdit(p, o)
    <3>1. op' = [op EXCEPT ![o] = [Claim(o) EXCEPT !.state = "committed"]]
      BY <2>2 DEF CommitEdit
    <3>2. [Claim(o) EXCEPT !.state = "committed"].state = "committed"
      BY <2>1 DEF OpShape
    <3>. QED  BY <1>5, <3>1, <3>2
  <2>3. CASE DropTitle(p, o)
    <3>1. op' = [op EXCEPT ![o] = [Claim(o) EXCEPT !.state = "rejected"]] /\ o # d
      BY <2>3 DEF DropTitle
    <3>. QED  BY <1>5, <3>1
  <2>4. CASE ClaimDelete(p, o)
    <3>1. op' = [op EXCEPT ![o] = Claim(o)]
      BY <2>4 DEF ClaimDelete
    <3>. QED  BY <1>5, <2>1, <3>1
  <2>. QED  BY <1>9, <2>2, <2>3, <2>4
<1>10. ASSUME NEW p \in Procs, MarkDelete(p) PROVE FALSE
  <2>1. /\ worker[p].op \in Ops /\ op[worker[p].op] \in OpShape
        /\ op' = [op EXCEPT ![worker[p].op] = EndAs(worker[p].op, "committed", TRUE)]
    BY <1>10, InDeletion DEF MarkDelete
  <2>2. EndAs(worker[p].op, "committed", TRUE).state = "committed"
    BY <2>1 DEF EndAs, OpShape
  <2>. QED  BY <1>5, <2>1, <2>2
<1>11. ASSUME NEW p \in Procs, SettleDelete(p) PROVE FALSE
  <2>1. /\ worker[p].op \in Ops /\ op[worker[p].op] \in OpShape
        /\ op' = [op EXCEPT ![worker[p].op].pending = FALSE]
    BY <1>11, InDeletion DEF SettleDelete
  <2>2. /\ [op[worker[p].op] EXCEPT !.pending = FALSE].state = op[worker[p].op].state
        /\ op' = [op EXCEPT ![worker[p].op] = [op[worker[p].op] EXCEPT !.pending = FALSE]]
    BY <2>1 DEF OpShape
  <2>. QED  BY <1>5, <2>1, <2>2
<1>12. op' # op
  OBVIOUS
<1>13. ASSUME NEW p \in Procs,
              AcquireOwner(p) \/ BecomeReady(p) \/ OpenDelete(p) \/ AbortDelete(p)
                \/ BlockDelete(p) \/ FailSettlement(p) \/ WorkerDies(p)
       PROVE  FALSE
  BY <1>12, <1>13 DEF AcquireOwner, BecomeReady, OpenDelete, AbortDelete, BlockDelete,
     FailSettlement, WorkerDies
<1>14. \/ \E p \in Procs, o \in Ops : RejectEdit(p, o)
       \/ \E p \in Procs : RejectDelete(p)
  BY <1>6, <1>7, <1>8, <1>9, <1>10, <1>11, <1>13 DEF Next, Run
<1>. QED  BY <1>3, <1>4, <1>14

(* When an operation other than a title is rejected, every accepted one    *)
(* that depends on it, or on one that fails with it, has failed in the     *)
(* same transaction (mark_dependency_failed_successors).                   *)
THEOREM FailureIsPassedOn == Spec => FailureReachesSuccessors
<1>. DEFINE Reaches ==
       \A d \in Ops \ Titles : op[d].state # "rejected" /\ op'[d].state = "rejected" =>
          \A o \in Accepted : \A x \in DependsOn[o] :
              x = d \/ (op[x].state = "queued" /\ op'[x].state = "dependency_failed")
                  => op'[o].state = "dependency_failed"
<1>1. QInv /\ [Next]_vars => [Reaches]_vars
  <2>. SUFFICES ASSUME QInv, Next PROVE Reaches
    OBVIOUS
  <2>. SUFFICES ASSUME NEW d \in Ops \ Titles, op[d].state # "rejected",
                       op'[d].state = "rejected", NEW o \in Accepted, NEW x \in DependsOn[o],
                       x = d \/ (op[x].state = "queued" /\ op'[x].state = "dependency_failed")
                PROVE  op'[o].state = "dependency_failed"
    OBVIOUS
  <2>1. PICK token : /\ Reject(d, token)
                     /\ op[d].state = "running" \/ (IsHead(d) /\ op[d].state = "queued")
    BY WhoRejects
  <2>. QED  BY <2>1, RejectReachesSuccessors DEF QInv
<1>. QED  BY <1>1, NavigationIsSound, PTL DEF Spec, FailureReachesSuccessors
=============================================================================
