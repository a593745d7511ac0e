----------------------- MODULE SessionAdmissionProofs -----------------------
(***************************************************************************)
(* Deletions and idle operations have their Sessions for themselves, and a *)
(* deleted Session stays empty: for every set of Sessions and of clients,  *)
(* every depth of nesting and any number of late cancellations.            *)
(*                                                                         *)
(* What decides is a count, and a count is all that the code has: the      *)
(* invariant ties it to the windows that are open, and says what a         *)
(* deletion may rely on at each of its stages, although the catalog, the   *)
(* queue and the slots are written in sections of their own.               *)
(***************************************************************************)
EXTENDS SessionAdmission, FiniteSetTheorems, TLAPS

(* A client with a window has it on one Session.                           *)
WindowSound(c) ==
    client[c].pc \in WindowPc =>
        client[c].depth >= 1 /\ \E s \in Sessions : client[c].on = {s}

(* An idle operation has the lock, and nothing uses its Sessions.          *)
IdleSound(c) ==
    client[c].pc = "idle" =>
        /\ lock = c
        /\ \A s \in client[c].on : s \notin deleting /\ preparations[s] = 0 /\ slot[s] = "free"

(* A deletion has its Sessions for itself, and what it has drained,        *)
(* cancelled or settled stays so.                                          *)
DeletionSound(c) ==
    /\ client[c].pc \in DeletionPc =>
        /\ client[c].on \subseteq deleting
        /\ \A d \in Clients \ {c} :
            client[d].pc \in DeletionPc => client[d].on \cap client[c].on = {}
    /\ client[c].pc \in DeletingPc => \A s \in client[c].on : preparations[s] = 0
    /\ client[c].pc \in {"cancelled", "settled"} =>
        \A s \in client[c].on : s \notin queued /\ slot[s] \notin {"reserved", "running"}
    /\ client[c].pc = "settled" => \A s \in client[c].on : slot[s] = "free"

(* A Session that is deleting without a deletion was deleted.              *)
Gone(s) ==
    s \in deleting /\ \A c \in Clients : client[c].pc \in DeletionPc => s \notin client[c].on
GoneSound(s) == Gone(s) => preparations[s] = 0 /\ s \notin queued /\ slot[s] = "free"

ClientShape == [pc : Pcs, on : SUBSET Sessions, depth : 0..MaxDepth]

ClientSound(c) == WindowSound(c) /\ IdleSound(c) /\ DeletionSound(c)

AInv ==
    /\ TypeOK
    /\ CountsAreWindows
    /\ \A c \in Clients : ClientSound(c)
    /\ \A s \in Sessions : GoneSound(s)

USE ClientsAssumption, NoClientAssumption, DepthAssumption, LateCancelAssumption
USE DEF WindowPc, WaitingPc, DeletingPc, DeletionPc, Pcs, Slots

-----------------------------------------------------------------------------
(* Counting windows                                                        *)

(* There are finitely many windows, and a Session with none has count zero.*)
LEMMA FiniteWindows ==
  ASSUME NEW s \in Sessions
  PROVE  IsFiniteSet(OpenWindows(s)) /\ Cardinality(OpenWindows(s)) \in Nat
<1>1. IsFiniteSet(1..MaxDepth)
  BY FS_Interval
<1>2. IsFiniteSet(Clients \X (1..MaxDepth))
  BY <1>1, FS_Product
<1>3. OpenWindows(s) \subseteq Clients \X (1..MaxDepth)
  BY DEF OpenWindows
<1>4. IsFiniteSet(OpenWindows(s))
  BY <1>2, <1>3, FS_Subset
<1>. QED  BY <1>4, FS_CardinalityType

LEMMA NoCountNoWindow ==
  ASSUME AInv, NEW s \in Sessions, preparations[s] = 0
  PROVE  Windows(s) = {} /\ OpenWindows(s) = {} /\ leaked[s] = 0
<1>1. preparations[s] = leaked[s] + Cardinality(OpenWindows(s)) /\ leaked[s] \in Nat
  BY DEF AInv, CountsAreWindows, TypeOK
<1>2. Cardinality(OpenWindows(s)) = 0 /\ leaked[s] = 0
  BY <1>1, FiniteWindows
<1>3. OpenWindows(s) = {}
  BY <1>2, FiniteWindows, FS_EmptySet
<1>4. ASSUME NEW c \in Windows(s) PROVE FALSE
  <2>1. c \in Clients /\ client[c].depth >= 1
    BY DEF Windows, AInv, ClientSound, WindowSound
  <2>2. 1 \in 1..MaxDepth
    OBVIOUS
  <2>3. <<c, 1>> \in OpenWindows(s)
    BY <2>1, <2>2 DEF OpenWindows
  <2>. QED  BY <1>3, <2>3
<1>. QED  BY <1>2, <1>3, <1>4

(* The windows of a Session, when a client keeps the depth of its windows. *)
LEMMA SameWindows ==
  ASSUME NEW s \in Sessions,
         \A c \in Clients :
            /\ c \in Windows(s)' <=> c \in Windows(s)
            /\ c \in Windows(s) => client'[c].depth = client[c].depth
  PROVE  OpenWindows(s)' = OpenWindows(s) /\ Windows(s)' = Windows(s)
<1>1. Windows(s)' = Windows(s)
  BY DEF Windows
<1>2. ASSUME NEW w \in Clients \X (1..MaxDepth)
      PROVE  w \in OpenWindows(s)' <=> w \in OpenWindows(s)
  <2>1. PICK c \in Clients, i \in 1..MaxDepth : w = <<c, i>>
    OBVIOUS
  <2>2. <<c, i>> \in OpenWindows(s) <=> c \in Windows(s) /\ i <= client[c].depth
    BY DEF OpenWindows
  <2>3. <<c, i>> \in OpenWindows(s)' <=> c \in Windows(s)' /\ i <= client'[c].depth
    BY DEF OpenWindows
  <2>. QED  BY <1>1, <2>1, <2>2, <2>3
<1>3. OpenWindows(s)' = OpenWindows(s)
  BY <1>2 DEF OpenWindows
<1>. QED  BY <1>1, <1>3

(* One client opens its next window, or closes its last one.               *)
LEMMA OneMoreWindow ==
  ASSUME NEW s \in Sessions, NEW c \in Clients, NEW n \in 1..MaxDepth,
         \A d \in Clients \ {c} : client'[d] = client[d],
         c \in Windows(s)', client'[c].depth = n,
         n = 1 => c \notin Windows(s),
         n > 1 => c \in Windows(s) /\ client[c].depth = n - 1
  PROVE  /\ OpenWindows(s)' = OpenWindows(s) \cup {<<c, n>>}
         /\ <<c, n>> \notin OpenWindows(s)
<1>1. \A d \in Clients \ {c} : d \in Windows(s)' <=> d \in Windows(s)
  BY DEF Windows
<1>2. ASSUME NEW d \in Clients, NEW i \in 1..MaxDepth
      PROVE  <<d, i>> \in OpenWindows(s)' <=> <<d, i>> \in OpenWindows(s) \/ (d = c /\ i = n)
  <2>1. <<d, i>> \in OpenWindows(s) <=> d \in Windows(s) /\ i <= client[d].depth
    BY DEF OpenWindows
  <2>2. <<d, i>> \in OpenWindows(s)' <=> d \in Windows(s)' /\ i <= client'[d].depth
    BY DEF OpenWindows
  <2>3. CASE d # c
    BY <1>1, <2>1, <2>2, <2>3
  <2>4. CASE d = c
    BY <2>1, <2>2, <2>4
  <2>. QED  BY <2>3, <2>4
<1>3. OpenWindows(s)' = OpenWindows(s) \cup {<<c, n>>}
  <2>1. OpenWindows(s)' \subseteq Clients \X (1..MaxDepth)
          /\ OpenWindows(s) \subseteq Clients \X (1..MaxDepth)
    BY DEF OpenWindows
  <2>. QED  BY <1>2, <2>1
<1>4. <<c, n>> \notin OpenWindows(s)
  <2>1. <<c, n>> \in OpenWindows(s) => c \in Windows(s) /\ n <= client[c].depth
    BY DEF OpenWindows
  <2>. QED  BY <2>1
<1>. QED  BY <1>3, <1>4

LEMMA OneLessWindow ==
  ASSUME NEW s \in Sessions, NEW c \in Clients, NEW n \in 1..MaxDepth,
         \A d \in Clients \ {c} : /\ d \in Windows(s)' <=> d \in Windows(s)
                                  /\ d \in Windows(s) => client'[d].depth = client[d].depth,
         c \in Windows(s), client[c].depth = n,
         n = 1 => c \notin Windows(s)',
         n > 1 => c \in Windows(s)' /\ client'[c].depth = n - 1
  PROVE  /\ OpenWindows(s)' = OpenWindows(s) \ {<<c, n>>}
         /\ <<c, n>> \in OpenWindows(s)
<1>2. ASSUME NEW d \in Clients, NEW i \in 1..MaxDepth
      PROVE  <<d, i>> \in OpenWindows(s)' <=> <<d, i>> \in OpenWindows(s) /\ ~(d = c /\ i = n)
  <2>1. <<d, i>> \in OpenWindows(s) <=> d \in Windows(s) /\ i <= client[d].depth
    BY DEF OpenWindows
  <2>2. <<d, i>> \in OpenWindows(s)' <=> d \in Windows(s)' /\ i <= client'[d].depth
    BY DEF OpenWindows
  <2>3. CASE d # c
    BY <2>1, <2>2, <2>3
  <2>4. CASE d = c
    BY <2>1, <2>2, <2>4
  <2>. QED  BY <2>3, <2>4
<1>3. OpenWindows(s)' = OpenWindows(s) \ {<<c, n>>}
  <2>1. OpenWindows(s)' \subseteq Clients \X (1..MaxDepth)
          /\ OpenWindows(s) \subseteq Clients \X (1..MaxDepth)
    BY DEF OpenWindows
  <2>. QED  BY <1>2, <2>1
<1>4. <<c, n>> \in OpenWindows(s)
  BY DEF OpenWindows
<1>. QED  BY <1>3, <1>4

-----------------------------------------------------------------------------
(* Initial states                                                          *)

LEMMA InitSound == Init => AInv
<1>. SUFFICES ASSUME Init PROVE AInv
  OBVIOUS
<1>1. TypeOK
  BY DEF Init, TypeOK, Idle
<1>2. ASSUME NEW s \in Sessions
      PROVE  preparations[s] = leaked[s] + Cardinality(OpenWindows(s))
  <2>1. OpenWindows(s) = {}
    BY DEF Init, Idle, OpenWindows, Windows
  <2>2. Cardinality(OpenWindows(s)) = 0
    BY <2>1, FS_EmptySet
  <2>. QED  BY <2>2 DEF Init
<1>3. \A c \in Clients : ClientSound(c)
  BY DEF Init, Idle, ClientSound, WindowSound, IdleSound, DeletionSound
<1>4. \A s \in Sessions : GoneSound(s)
  BY DEF Init, GoneSound, Gone
<1>. QED  BY <1>1, <1>2, <1>3, <1>4 DEF AInv, CountsAreWindows

-----------------------------------------------------------------------------
(* Preparation windows                                                     *)

(* A client that is not named goes on as before, or is woken.              *)
Alike(d) ==
    \/ client'[d] = client[d]
    \/ /\ client[d].pc = "asleep" /\ client'[d].pc = "awake"
       /\ client'[d].on = client[d].on /\ client'[d].depth = client[d].depth

(* A window opens, nests, ends or stores a job: nothing that a deletion or *)
(* an idle operation relies on changes.                                    *)
LEMMA WindowStep ==
  ASSUME AInv, TypeOK', CountsAreWindows', UNCHANGED <<lock, deleting, slot>>,
         NEW c \in Clients, WindowSound(c)', \A d \in Clients \ {c} : Alike(d),
         client[c].pc \in WindowPc \cup {"out"}, client'[c].pc \in WindowPc \cup {"out"},
         \A s \in Sessions : preparations[s] = 0 /\ (s \in deleting \/ lock # NoClient) =>
            preparations'[s] = 0,
         \A s \in Sessions : s \in queued' /\ s \notin queued => preparations[s] # 0
  PROVE  AInv'
<1>1. \A d \in Clients : client[d] \in ClientShape
  BY DEF AInv, TypeOK, ClientShape
<1>2. ASSUME NEW d \in Clients \ {c}
      PROVE  /\ client'[d].pc \in DeletionPc <=> client[d].pc \in DeletionPc
             /\ client'[d].on = client[d].on
  BY <1>2 DEF Alike
<1>3. client[c].pc \notin DeletionPc /\ client'[c].pc \notin DeletionPc
  OBVIOUS
<1>4. ASSUME NEW d \in Clients PROVE ClientSound(d)'
  <2>0. ClientSound(d)
    BY DEF AInv
  <2>1. CASE d = c
    BY <1>3, <2>1 DEF ClientSound, IdleSound, DeletionSound
  <2>2. CASE d # c
    <3>0. Alike(d) /\ client[d].on \subseteq Sessions
      BY <1>1, <2>2 DEF ClientShape
    <3>1. WindowSound(d)'
      BY <2>0, <3>0 DEF ClientSound, WindowSound, Alike
    <3>2. IdleSound(d)'
      BY <2>0, <3>0 DEF ClientSound, IdleSound, Alike
    <3>3. DeletionSound(d)'
      <4>1. client'[d].pc \in DeletionPc =>
              /\ client'[d].on \subseteq deleting'
              /\ \A q \in Clients \ {d} :
                   client'[q].pc \in DeletionPc => client'[q].on \cap client'[d].on = {}
        BY <1>2, <1>3, <2>0, <2>2 DEF ClientSound, DeletionSound
      <4>2. client'[d].pc \in DeletingPc => client'[d] = client[d]
        BY <3>0 DEF Alike
      <4>3. client'[d].pc \in DeletingPc => \A s \in client'[d].on : preparations'[s] = 0
        BY <2>0, <3>0, <4>1, <4>2 DEF ClientSound, DeletionSound
      <4>4. client'[d].pc \in {"cancelled", "settled"} =>
              \A s \in client'[d].on : s \notin queued' /\ slot'[s] \notin {"reserved", "running"}
        BY <2>0, <3>0, <4>2 DEF ClientSound, DeletionSound
      <4>5. client'[d].pc = "settled" => \A s \in client'[d].on : slot'[s] = "free"
        BY <2>0, <4>2 DEF ClientSound, DeletionSound
      <4>. QED  BY <4>1, <4>3, <4>4, <4>5 DEF DeletionSound
    <3>. QED  BY <3>1, <3>2, <3>3 DEF ClientSound
  <2>. QED  BY <2>1, <2>2
<1>5. ASSUME NEW s \in Sessions PROVE GoneSound(s)'
  <2>1. Gone(s)' => Gone(s)
    BY <1>2, <1>3 DEF Gone
  <2>2. GoneSound(s)
    BY DEF AInv
  <2>. QED  BY <2>1, <2>2 DEF GoneSound, Gone
<1>. QED  BY <1>4, <1>5 DEF AInv

(* The count of one Session moves with its windows, those of the others    *)
(* stay.                                                                   *)
LEMMA CountsMove ==
  ASSUME AInv, NEW s \in Sessions,
         \A q \in Sessions \ {s} :
            /\ preparations'[q] = preparations[q] /\ leaked'[q] = leaked[q]
            /\ OpenWindows(q)' = OpenWindows(q),
         preparations'[s] = leaked'[s] + Cardinality(OpenWindows(s)')
  PROVE  CountsAreWindows'
<1>1. CountsAreWindows
  BY DEF AInv
<1>2. \A q \in Sessions \ {s} : preparations'[q] = leaked'[q] + Cardinality(OpenWindows(q)')
  BY <1>1 DEF CountsAreWindows
<1>. QED  BY <1>2 DEF CountsAreWindows

(* What opens is counted.                                                  *)
LEMMA Opens ==
  ASSUME AInv, NEW c \in Clients, NEW s \in Sessions, NEW n \in 1..MaxDepth,
         MayOpen(s, FALSE) \/ MayOpen(s, TRUE), lock = NoClient,
         client[c].pc \in {"out", "inside"}, n = 1 => client[c].pc = "out",
         n > 1 => client[c] = [pc |-> "inside", on |-> {s}, depth |-> n - 1],
         client' = [client EXCEPT ![c] = [pc |-> "inside", on |-> {s}, depth |-> n]],
         preparations' = [preparations EXCEPT ![s] = @ + 1],
         UNCHANGED <<lock, accepting, deleting, closed, queued, slot, leaked>>
  PROVE  AInv'
<1>1. TypeOK /\ client \in [Clients -> ClientShape] /\ preparations \in [Sessions -> Nat]
  BY DEF AInv, TypeOK, ClientShape
<1>2. /\ client'[c] = [pc |-> "inside", on |-> {s}, depth |-> n]
      /\ \A d \in Clients \ {c} : client'[d] = client[d]
      /\ client' \in [Clients -> ClientShape]
  BY <1>1 DEF ClientShape
<1>3. /\ preparations' \in [Sessions -> Nat] /\ preparations'[s] = preparations[s] + 1
      /\ \A q \in Sessions \ {s} : preparations'[q] = preparations[q]
  BY <1>1
<1>4. TypeOK'
  BY <1>1, <1>2, <1>3 DEF TypeOK, ClientShape
<1>5. OpenWindows(s)' = OpenWindows(s) \cup {<<c, n>>} /\ <<c, n>> \notin OpenWindows(s)
  <2>1. c \in Windows(s)' /\ client'[c].depth = n
    BY <1>2 DEF Windows
  <2>2. n = 1 => c \notin Windows(s)
    BY DEF Windows
  <2>3. n > 1 => c \in Windows(s) /\ client[c].depth = n - 1
    BY DEF Windows
  <2>. QED  BY <1>2, <2>1, <2>2, <2>3, OneMoreWindow
<1>6. ASSUME NEW q \in Sessions \ {s} PROVE OpenWindows(q)' = OpenWindows(q)
  <2>1. c \notin Windows(q)' /\ c \notin Windows(q)
    BY <1>2 DEF Windows
  <2>2. \A d \in Clients \ {c} : d \in Windows(q)' <=> d \in Windows(q)
    BY <1>2 DEF Windows
  <2>. QED  BY <1>2, <2>1, <2>2, SameWindows
<1>7. preparations'[s] = leaked'[s] + Cardinality(OpenWindows(s)')
  <2>1. IsFiniteSet(OpenWindows(s)) /\ Cardinality(OpenWindows(s)) \in Nat
    BY FiniteWindows
  <2>2. Cardinality(OpenWindows(s)') = Cardinality(OpenWindows(s)) + 1
    BY <1>5, <2>1, FS_AddElement
  <2>3. preparations[s] = leaked[s] + Cardinality(OpenWindows(s)) /\ leaked[s] \in Nat
    BY <1>1 DEF AInv, CountsAreWindows, TypeOK
  <2>. QED  BY <1>3, <2>1, <2>2, <2>3
<1>8. CountsAreWindows'
  BY <1>3, <1>6, <1>7, CountsMove
<1>9. WindowSound(c)'
  BY <1>2 DEF WindowSound
<1>10. \A q \in Sessions : preparations[q] = 0 /\ (q \in deleting \/ lock # NoClient) =>
         preparations'[q] = 0
  BY <1>3 DEF MayOpen
<1>. QED  BY <1>2, <1>4, <1>8, <1>9, <1>10, WindowStep DEF Alike

LEMMA OpenSound ==
  ASSUME AInv, NEW c \in Clients, NEW s \in Sessions, NEW restoring \in BOOLEAN,
         OpenWindow(c, s, restoring)
  PROVE  AInv'
<1>1. client[c].pc = "out" /\ lock = NoClient
  BY DEF OpenWindow, Idle
<1>2. /\ client' = [client EXCEPT ![c] = [pc |-> "inside", on |-> {s}, depth |-> 1]]
      /\ preparations' = [preparations EXCEPT ![s] = @ + 1]
      /\ UNCHANGED <<lock, accepting, deleting, closed, queued, slot, leaked>>
  BY DEF OpenWindow, jobVars
<1>3. MayOpen(s, FALSE) \/ MayOpen(s, TRUE)
  BY DEF OpenWindow
<1>4. 1 \in 1..MaxDepth /\ ~(1 > 1)
  OBVIOUS
<1>. QED  BY <1>1, <1>2, <1>3, <1>4, Opens

(* A client with a window, and its Session.                                *)
LEMMA HasWindow ==
  ASSUME AInv, NEW c \in Clients, client[c].pc \in WindowPc
  PROVE  /\ client[c].depth \in 1..MaxDepth
         /\ \E s \in Sessions : client[c] = [pc |-> client[c].pc, on |-> {s}, depth |-> client[c].depth]
         /\ \A s \in client[c].on : /\ s \in Sessions /\ client[c].on = {s} /\ c \in Windows(s)
                                    /\ preparations[s] # 0
<1>1. client[c] \in ClientShape /\ WindowSound(c)
  BY DEF AInv, ClientSound, TypeOK, ClientShape
<1>2. client[c].depth \in 1..MaxDepth /\ \E s \in Sessions : client[c].on = {s}
  BY <1>1 DEF WindowSound, ClientShape
<1>3. client[c] = [pc |-> client[c].pc, on |-> client[c].on, depth |-> client[c].depth]
  BY <1>1 DEF ClientShape
<1>4. \A s \in client[c].on : s \in Sessions /\ client[c].on = {s} /\ c \in Windows(s)
  BY <1>2 DEF Windows
<1>5. \A s \in client[c].on : preparations[s] # 0
  BY <1>4, NoCountNoWindow
<1>. QED  BY <1>2, <1>3, <1>4, <1>5

(* A client with a window goes on inside of it.                            *)
LEMMA StaysInWindow ==
  ASSUME AInv, NEW c \in Clients, client[c].pc \in WindowPc, NEW l \in WindowPc,
         client' = [client EXCEPT ![c].pc = l],
         queued' = queued \/ queued' = queued \cup client[c].on,
         UNCHANGED <<lock, accepting, deleting, preparations, closed, slot, leaked>>
  PROVE  AInv'
<1>1. TypeOK /\ client \in [Clients -> ClientShape]
  BY DEF AInv, TypeOK, ClientShape
<1>2. /\ client'[c].pc = l /\ client'[c].on = client[c].on
      /\ client'[c].depth = client[c].depth
      /\ \A d \in Clients \ {c} : client'[d] = client[d]
  BY <1>1 DEF ClientShape
<1>3. client' \in [Clients -> ClientShape]
  <2>. DEFINE r == [client[c] EXCEPT !.pc = l]
  <2>1. r \in ClientShape
    BY <1>1 DEF ClientShape
  <2>2. client' = [client EXCEPT ![c] = r]
    OBVIOUS
  <2>. QED  BY <1>1, <2>1, <2>2
<1>4. client[c].on \subseteq Sessions /\ \A s \in client[c].on : preparations[s] # 0
  BY HasWindow
<1>5. TypeOK'
  BY <1>1, <1>3, <1>4 DEF TypeOK, ClientShape
<1>6. \A s \in Sessions : OpenWindows(s)' = OpenWindows(s)
  <2>1. \A s \in Sessions, d \in Clients :
          /\ d \in Windows(s)' <=> d \in Windows(s)
          /\ client'[d].depth = client[d].depth
    BY <1>2 DEF Windows
  <2>. QED  BY <2>1, SameWindows
<1>7. CountsAreWindows'
  BY <1>6 DEF AInv, CountsAreWindows
<1>8. WindowSound(c)'
  BY <1>2 DEF AInv, ClientSound, WindowSound
<1>. QED  BY <1>2, <1>4, <1>5, <1>7, <1>8, WindowStep DEF Alike

LEMMA InsideSound ==
  ASSUME AInv, NEW c \in Clients, StartJob(c) \/ CommitJob(c) \/ EndOperation(c)
  PROVE  AInv'
<1>1. CASE StartJob(c)
  <2>1. \E l \in WindowPc : client' = [client EXCEPT ![c].pc = l]
    BY <1>1 DEF StartJob
  <2>. QED  BY <1>1, <2>1, StaysInWindow DEF StartJob, jobVars
<1>2. CASE CommitJob(c)
  BY <1>2, StaysInWindow DEF CommitJob
<1>3. CASE EndOperation(c)
  BY <1>3, StaysInWindow DEF EndOperation, jobVars
<1>. QED  BY <1>1, <1>2, <1>3

LEMMA NestSound ==
  ASSUME AInv, NEW c \in Clients, NEW restoring \in BOOLEAN, Nest(c, restoring)
  PROVE  AInv'
<1>1. /\ client[c].pc = "inside" /\ client[c].depth < MaxDepth /\ lock = NoClient
      /\ UNCHANGED <<lock, accepting, deleting, closed, queued, slot, leaked>>
  BY DEF Nest, jobVars
<1>2. PICK s \in client[c].on :
        \/ /\ MayOpen(s, restoring)
           /\ preparations' = [preparations EXCEPT ![s] = @ + 1]
           /\ client' = [client EXCEPT ![c].depth = @ + 1]
        \/ /\ client' = [client EXCEPT ![c].pc = "leaving"]
           /\ UNCHANGED preparations
  BY DEF Nest
<1>3. /\ s \in Sessions /\ client[c].on = {s} /\ client[c].depth \in 1..MaxDepth
      /\ client[c] = [pc |-> "inside", on |-> {s}, depth |-> client[c].depth]
  <2>1. s \in Sessions /\ client[c].on = {s} /\ client[c].depth \in 1..MaxDepth
    BY <1>1, HasWindow
  <2>2. PICK q \in Sessions :
          client[c] = [pc |-> client[c].pc, on |-> {q}, depth |-> client[c].depth]
    BY <1>1, HasWindow
  <2>3. q = s
    BY <2>1, <2>2
  <2>. QED  BY <1>1, <2>1, <2>2, <2>3
<1>4. CASE /\ MayOpen(s, restoring)
           /\ preparations' = [preparations EXCEPT ![s] = @ + 1]
           /\ client' = [client EXCEPT ![c].depth = @ + 1]
  <2>. DEFINE n == client[c].depth + 1
  <2>1. n \in 1..MaxDepth /\ n > 1 /\ n # 1 /\ n - 1 = client[c].depth
    BY <1>1, <1>3
  <2>2. [client[c] EXCEPT !.depth = n] = [pc |-> "inside", on |-> {s}, depth |-> n]
    BY <1>3
  <2>3. client' = [client EXCEPT ![c] = [client[c] EXCEPT !.depth = n]]
    BY <1>4
  <2>4. MayOpen(s, FALSE) \/ MayOpen(s, TRUE)
    BY <1>4 DEF MayOpen
  <2>. HIDE DEF n
  <2>. QED  BY <1>1, <1>3, <1>4, <2>1, <2>2, <2>3, <2>4, Opens
<1>5. CASE /\ client' = [client EXCEPT ![c].pc = "leaving"]
           /\ UNCHANGED preparations
  BY <1>1, <1>5, StaysInWindow
<1>. QED  BY <1>2, <1>4, <1>5

(* What a client is after one of its windows.                              *)
LEMMA AfterWindow ==
  ASSUME AInv, NEW c \in Clients, client[c].pc = "leaving", NEW s \in client[c].on
  PROVE  /\ Left(c) \in ClientShape /\ Left(c).pc \in {"out", "inside"}
         /\ client[c].depth = 1 => Left(c).pc = "out"
         /\ client[c].depth > 1 => /\ Left(c).pc = "inside" /\ Left(c).on = {s}
                                   /\ Left(c).depth = client[c].depth - 1
<1>1. client[c] \in ClientShape /\ client[c].depth \in 1..MaxDepth /\ client[c].on = {s}
  BY HasWindow DEF AInv, TypeOK, ClientShape
<1>2. CASE client[c].depth = 1
  <2>1. Left(c) = Idle
    BY <1>2 DEF Left
  <2>. QED  BY <1>2, <2>1 DEF Idle, ClientShape
<1>3. CASE client[c].depth > 1
  <2>. DEFINE n == client[c].depth - 1
  <2>1. n \in 0..MaxDepth /\ client[c].depth # 1
    BY <1>1, <1>3
  <2>2. Left(c) = [client[c] EXCEPT !.pc = "inside", !.depth = n]
    BY <2>1 DEF Left
  <2>. HIDE DEF n
  <2>3. Left(c) \in ClientShape /\ Left(c).pc = "inside" /\ Left(c).on = {s} /\ Left(c).depth = n
    BY <1>1, <2>1, <2>2 DEF ClientShape
  <2>. QED  BY <1>3, <2>1, <2>3 DEF n
<1>. QED  BY <1>1, <1>2, <1>3

(* A window that closes gives its count back, or leaks it.                 *)
LEMMA Closes ==
  ASSUME AInv, NEW c \in Clients, client[c].pc = "leaving", NEW s \in client[c].on,
         \/ preparations' = [preparations EXCEPT ![s] = @ - 1] /\ leaked' = leaked
         \/ /\ preparations' = preparations /\ leaked[s] < MaxLateCancels
            /\ leaked' = [leaked EXCEPT ![s] = @ + 1],
         client' \in [Clients -> ClientShape], client'[c] = Left(c),
         \A d \in Clients \ {c} : Alike(d),
         UNCHANGED <<lock, accepting, deleting, closed, queued, slot>>
  PROVE  AInv'
<1>1. TypeOK /\ preparations \in [Sessions -> Nat] /\ leaked \in [Sessions -> 0..MaxLateCancels]
  BY DEF AInv, TypeOK
<1>2. /\ s \in Sessions /\ client[c].on = {s} /\ client[c].depth \in 1..MaxDepth
      /\ c \in Windows(s) /\ preparations[s] # 0
  BY HasWindow
<1>3. /\ Left(c).pc \in {"out", "inside"}
      /\ client[c].depth = 1 => Left(c).pc = "out"
      /\ client[c].depth > 1 => /\ Left(c).pc = "inside" /\ Left(c).on = {s}
                                /\ Left(c).depth = client[c].depth - 1
  BY AfterWindow
<1>4. /\ preparations' \in [Sessions -> Nat] /\ leaked' \in [Sessions -> 0..MaxLateCancels]
      /\ \A q \in Sessions \ {s} : preparations'[q] = preparations[q] /\ leaked'[q] = leaked[q]
      /\ preparations'[s] - leaked'[s] = preparations[s] - leaked[s] - 1
  <2>1. CASE preparations' = [preparations EXCEPT ![s] = @ - 1] /\ leaked' = leaked
    <3>1. preparations[s] - 1 \in Nat
      BY <1>1, <1>2
    <3>. QED  BY <1>1, <1>2, <2>1, <3>1
  <2>2. CASE /\ preparations' = preparations /\ leaked[s] < MaxLateCancels
             /\ leaked' = [leaked EXCEPT ![s] = @ + 1]
    <3>1. leaked[s] + 1 \in 0..MaxLateCancels
      BY <1>1, <1>2, <2>2
    <3>. QED  BY <1>1, <1>2, <2>2, <3>1
  <2>. QED  BY <2>1, <2>2
<1>5. TypeOK'
  BY <1>1, <1>4 DEF TypeOK, ClientShape
<1>6. \A q \in Sessions : \A d \in Clients \ {c} :
        /\ d \in Windows(q)' <=> d \in Windows(q)
        /\ client'[d].depth = client[d].depth
  BY DEF Windows, Alike
<1>7. /\ OpenWindows(s)' = OpenWindows(s) \ {<<c, client[c].depth>>}
      /\ <<c, client[c].depth>> \in OpenWindows(s)
  <2>1. client[c].depth = 1 => c \notin Windows(s)'
    BY <1>3 DEF Windows
  <2>2. client[c].depth > 1 => c \in Windows(s)' /\ client'[c].depth = client[c].depth - 1
    BY <1>3 DEF Windows
  <2>. QED  BY <1>2, <1>6, <2>1, <2>2, OneLessWindow
<1>8. ASSUME NEW q \in Sessions \ {s} PROVE OpenWindows(q)' = OpenWindows(q)
  <2>1. c \notin Windows(q) /\ c \notin Windows(q)'
    <3>1. client[c].depth = 1 \/ client[c].depth > 1
      BY <1>2
    <3>. QED  BY <1>2, <1>3, <3>1 DEF Windows
  <2>. QED  BY <1>6, <2>1, SameWindows
<1>9. CountsAreWindows'
  <2>1. IsFiniteSet(OpenWindows(s)) /\ Cardinality(OpenWindows(s)) \in Nat
    BY <1>2, FiniteWindows
  <2>2. Cardinality(OpenWindows(s)') = Cardinality(OpenWindows(s)) - 1
    <3>. DEFINE W == OpenWindows(s)
                w == <<c, client[c].depth>>
    <3>1. IsFiniteSet(W) /\ w \in W
      BY <1>7, <2>1
    <3>2. OpenWindows(s)' = W \ {w}
      BY <1>7
    <3>. HIDE DEF W, w
    <3>3. Cardinality(W \ {w}) = Cardinality(W) - 1
      BY <3>1, FS_RemoveElement
    <3>. QED  BY <3>2, <3>3 DEF W
  <2>3. preparations[s] = leaked[s] + Cardinality(OpenWindows(s))
    BY <1>2 DEF AInv, CountsAreWindows
  <2>4. leaked[s] \in Nat /\ leaked'[s] \in Nat /\ preparations'[s] \in Nat
    BY <1>1, <1>2, <1>4
  <2>5. preparations'[s] = leaked'[s] + Cardinality(OpenWindows(s)')
    BY <1>4, <2>1, <2>2, <2>3, <2>4
  <2>. QED  BY <1>2, <1>4, <1>8, <2>5, CountsMove
<1>10. WindowSound(c)'
  <2>1. client[c].depth = 1 \/ (client[c].depth > 1 /\ client[c].depth - 1 >= 1)
    BY <1>2
  <2>. QED  BY <1>2, <1>3, <2>1 DEF WindowSound
<1>11. \A q \in Sessions : preparations[q] = 0 => preparations'[q] = 0
  BY <1>2, <1>4
<1>. QED  BY <1>3, <1>5, <1>9, <1>10, <1>11, WindowStep

LEMMA CloseSound ==
  ASSUME AInv, NEW c \in Clients, CloseWindow(c)
  PROVE  AInv'
<1>1. client[c].pc = "leaving" /\ UNCHANGED <<lock, accepting, deleting, closed, queued, slot, leaked>>
  BY DEF CloseWindow, jobVars
<1>2. PICK s \in client[c].on : preparations' = [preparations EXCEPT ![s] = @ - 1]
  BY DEF CloseWindow
<1>3. client \in [Clients -> ClientShape]
  BY DEF AInv, TypeOK, ClientShape
<1>4. Left(c) \in ClientShape /\ Left(c).pc \in {"out", "inside"}
  BY <1>1, AfterWindow
<1>. DEFINE left == [client EXCEPT ![c] = Left(c)]
<1>5. /\ left \in [Clients -> ClientShape] /\ left[c] = Left(c)
      /\ \A d \in Clients \ {c} : left[d] = client[d]
  BY <1>3, <1>4
<1>6. client' = NotifyAll(left)
  BY DEF CloseWindow
<1>. HIDE DEF left
<1>7. ASSUME NEW d \in Clients
      PROVE  /\ client'[d] \in ClientShape
             /\ left[d].pc # "asleep" => client'[d] = left[d]
             /\ left[d].pc = "asleep" => /\ client'[d].pc = "awake"
                                         /\ client'[d].on = left[d].on
                                         /\ client'[d].depth = left[d].depth
  <2>. DEFINE woken == [left[d] EXCEPT !.pc = "awake"]
  <2>1. client'[d] = IF left[d].pc = "asleep" THEN woken ELSE left[d]
    BY <1>6 DEF NotifyAll
  <2>2. left[d] \in ClientShape
    BY <1>5
  <2>3. /\ woken \in ClientShape /\ woken.pc = "awake" /\ woken.on = left[d].on
        /\ woken.depth = left[d].depth
    BY <2>2 DEF ClientShape
  <2>. HIDE DEF woken
  <2>. QED  BY <2>1, <2>2, <2>3
<1>8. client' \in [Clients -> ClientShape]
  <2>1. client' = [d \in Clients |-> client'[d]]
    BY <1>6 DEF NotifyAll
  <2>. QED  BY <1>7, <2>1
<1>9. client'[c] = Left(c)
  BY <1>4, <1>5, <1>7
<1>10. \A d \in Clients \ {c} : Alike(d)
  BY <1>5, <1>7 DEF Alike
<1>. QED  BY <1>1, <1>2, <1>8, <1>9, <1>10, Closes

LEMMA CancelInFinallySound ==
  ASSUME AInv, NEW c \in Clients, CancelInFinally(c)
  PROVE  AInv'
<1>1. /\ client[c].pc = "leaving" /\ client' = [client EXCEPT ![c] = Left(c)]
      /\ UNCHANGED <<lock, accepting, deleting, closed, queued, slot, preparations>>
  BY DEF CancelInFinally, jobVars
<1>2. PICK s \in client[c].on :
        leaked[s] < MaxLateCancels /\ leaked' = [leaked EXCEPT ![s] = @ + 1]
  BY DEF CancelInFinally
<1>3. client \in [Clients -> ClientShape] /\ Left(c) \in ClientShape
  BY <1>1, AfterWindow DEF AInv, TypeOK, ClientShape
<1>4. /\ client' \in [Clients -> ClientShape] /\ client'[c] = Left(c)
      /\ \A d \in Clients \ {c} : Alike(d)
  BY <1>1, <1>3 DEF Alike
<1>. QED  BY <1>1, <1>2, <1>4, Closes

-----------------------------------------------------------------------------
(* Steps without a window                                                  *)

(* A client without a window goes on: the counts are as before.            *)
LEMMA QuietStep ==
  ASSUME AInv, NEW c \in Clients, NEW r \in ClientShape, client' = [client EXCEPT ![c] = r],
         client[c].pc \notin WindowPc, r.pc \notin WindowPc,
         UNCHANGED <<preparations, leaked>>
  PROVE  /\ client'[c] = r /\ \A d \in Clients \ {c} : client'[d] = client[d]
         /\ client' \in [Clients -> ClientShape]
         /\ CountsAreWindows' /\ \A d \in Clients : WindowSound(d)'
<1>1. client \in [Clients -> ClientShape]
  BY DEF AInv, TypeOK, ClientShape
<1>2. /\ client'[c] = r /\ \A d \in Clients \ {c} : client'[d] = client[d]
      /\ client' \in [Clients -> ClientShape]
  BY <1>1
<1>3. \A s \in Sessions : OpenWindows(s)' = OpenWindows(s)
  <2>1. \A s \in Sessions, d \in Clients :
          /\ d \in Windows(s)' <=> d \in Windows(s)
          /\ d \in Windows(s) => client'[d].depth = client[d].depth
    BY <1>2 DEF Windows
  <2>. QED  BY <2>1, SameWindows
<1>4. CountsAreWindows'
  BY <1>3 DEF AInv, CountsAreWindows
<1>5. \A d \in Clients : WindowSound(d)'
  BY <1>2 DEF AInv, ClientSound, WindowSound
<1>. QED  BY <1>2, <1>4, <1>5

LEMMA IdleStepSound ==
  ASSUME AInv, NEW c \in Clients,
         EndIdle(c) \/ \E ss \in SUBSET Sessions \ {{}} : BeginIdle(c, ss)
  PROVE  AInv'
<1>1. UNCHANGED <<accepting, deleting, preparations, closed, queued, slot, leaked>>
  BY DEF EndIdle, BeginIdle, jobVars
<1>2. CASE EndIdle(c)
  <2>1. Idle \in ClientShape /\ Idle.pc = "out"
    BY DEF Idle, ClientShape
  <2>2. /\ client[c].pc = "idle" /\ lock' = NoClient
        /\ client' = [client EXCEPT ![c] = Idle]
    BY <1>2 DEF EndIdle
  <2>3. /\ client'[c] = Idle /\ \A d \in Clients \ {c} : client'[d] = client[d]
        /\ client' \in [Clients -> ClientShape]
        /\ CountsAreWindows' /\ \A d \in Clients : WindowSound(d)'
    BY <1>1, <2>1, <2>2, QuietStep
  <2>4. TypeOK'
    BY <1>1, <2>2, <2>3 DEF AInv, TypeOK, ClientShape
  <2>5. lock = c
    BY <2>2 DEF AInv, ClientSound, IdleSound
  <2>6. \A d \in Clients : IdleSound(d)'
    BY <1>1, <2>1, <2>3, <2>5 DEF AInv, ClientSound, IdleSound
  <2>7. \A d \in Clients : DeletionSound(d)'
    BY <1>1, <2>1, <2>2, <2>3 DEF AInv, ClientSound, DeletionSound
  <2>8. \A s \in Sessions : GoneSound(s)'
    BY <1>1, <2>1, <2>2, <2>3 DEF AInv, GoneSound, Gone
  <2>. QED  BY <2>3, <2>4, <2>6, <2>7, <2>8 DEF AInv, ClientSound
<1>3. ASSUME NEW ss \in SUBSET Sessions, BeginIdle(c, ss)
      PROVE  AInv'
  <2>. DEFINE r == [pc |-> "idle", on |-> ss, depth |-> 0]
  <2>1. r \in ClientShape /\ r.pc = "idle" /\ r.on = ss
    BY DEF ClientShape
  <2>2. /\ client[c].pc = "out" /\ lock = NoClient /\ lock' = c
        /\ client' = [client EXCEPT ![c] = r] /\ \A s \in ss : MayIdle(s)
    BY <1>3 DEF BeginIdle, Idle
  <2>. HIDE DEF r
  <2>3. /\ client'[c] = r /\ \A d \in Clients \ {c} : client'[d] = client[d]
        /\ client' \in [Clients -> ClientShape]
        /\ CountsAreWindows' /\ \A d \in Clients : WindowSound(d)'
    BY <1>1, <2>1, <2>2, QuietStep
  <2>4. TypeOK'
    BY <1>1, <2>2, <2>3 DEF AInv, TypeOK, ClientShape
  <2>5. ASSUME NEW d \in Clients PROVE IdleSound(d)'
    <3>1. CASE d = c
      BY <1>1, <2>1, <2>2, <2>3, <3>1 DEF IdleSound, MayIdle
    <3>2. CASE d # c
      <4>1. client'[d].pc # "idle"
        BY <2>2, <2>3, <3>2 DEF AInv, ClientSound, IdleSound
      <4>. QED  BY <4>1 DEF IdleSound
    <3>. QED  BY <3>1, <3>2
  <2>6. \A d \in Clients : DeletionSound(d)'
    BY <1>1, <2>1, <2>2, <2>3 DEF AInv, ClientSound, DeletionSound
  <2>7. \A s \in Sessions : GoneSound(s)'
    BY <1>1, <2>1, <2>2, <2>3 DEF AInv, GoneSound, Gone
  <2>. QED  BY <2>3, <2>4, <2>5, <2>6, <2>7 DEF AInv, ClientSound
<1>. QED  BY <1>2, <1>3

-----------------------------------------------------------------------------
(* Deletions                                                               *)

(* A client begins, continues or leaves a deletion.                        *)
LEMMA DeletionStep ==
  ASSUME AInv, NEW c \in Clients, NEW r \in ClientShape, client' = [client EXCEPT ![c] = r],
         client[c].pc \in DeletionPc \cup {"out"}, r.pc \in DeletionPc \cup {"out"},
         UNCHANGED <<lock, accepting, preparations, leaked>>,
         deleting' \in SUBSET Sessions, closed' \in SUBSET Sessions,
         queued' \in SUBSET queued, slot' \in [Sessions -> Slots],
         \A s \in Sessions : (s \in deleting' /\ s \notin deleting) => lock = NoClient,
         \A s \in Sessions : slot'[s] # slot[s] => s \in client[c].on /\ client[c].pc \in DeletionPc,
         \A d \in Clients \ {c} : client[d].pc \in DeletionPc => client[d].on \subseteq deleting',
         r.pc \in DeletionPc => r.on \subseteq deleting'
            /\ ((r.on = client[c].on /\ client[c].pc \in DeletionPc) \/ r.on \cap deleting = {}),
         r.pc \in DeletingPc => \A s \in r.on : preparations[s] = 0,
         r.pc \in {"cancelled", "settled"} =>
            \A s \in r.on : s \notin queued' /\ slot'[s] \notin {"reserved", "running"},
         r.pc = "settled" => \A s \in r.on : slot'[s] = "free",
         \A s \in Sessions :
            s \in deleting' /\ (r.pc \in DeletionPc => s \notin r.on) =>
                \/ s \in deleting /\ (client[c].pc \in DeletionPc => s \notin client[c].on)
                \/ client[c].pc = "settled" /\ s \in client[c].on /\ slot'[s] = "free"
  PROVE  AInv'
<1>1. /\ client'[c] = r /\ \A d \in Clients \ {c} : client'[d] = client[d]
      /\ client' \in [Clients -> ClientShape]
      /\ CountsAreWindows' /\ \A d \in Clients : WindowSound(d)'
  BY QuietStep
<1>2. TypeOK'
  BY <1>1 DEF AInv, TypeOK, ClientShape
<1>3. \A d \in Clients : client[d] \in ClientShape /\ ClientSound(d)
  BY DEF AInv, TypeOK, ClientShape
<1>4. ASSUME NEW d \in Clients PROVE IdleSound(d)'
  <2>1. CASE d = c
    BY <1>1, <2>1 DEF IdleSound
  <2>2. CASE d # c
    <3>1. client'[d] = client[d]
      BY <1>1, <2>2
    <3>2. ASSUME client[d].pc = "idle", NEW s \in client[d].on
          PROVE  lock = d /\ s \notin deleting' /\ preparations[s] = 0 /\ slot'[s] = "free"
      <4>1. lock = d /\ s \notin deleting /\ preparations[s] = 0 /\ slot[s] = "free" /\ s \in Sessions
        BY <1>3, <3>2 DEF ClientSound, IdleSound, ClientShape
      <4>2. slot'[s] = slot[s]
        BY <1>3, <4>1 DEF ClientSound, DeletionSound
      <4>. QED  BY <4>1, <4>2
    <3>3. client[d].pc = "idle" => lock' = d
      BY <1>3 DEF ClientSound, IdleSound
    <3>. QED  BY <3>1, <3>2, <3>3 DEF IdleSound
  <2>. QED  BY <2>1, <2>2
<1>5. ASSUME NEW d \in Clients \ {c}, client[d].pc \in DeletionPc
      PROVE  /\ client[d].on \subseteq deleting /\ client[d].on \subseteq Sessions
             /\ r.pc \in DeletionPc => client[d].on \cap r.on = {}
             /\ client[c].pc \in DeletionPc => client[d].on \cap client[c].on = {}
  BY <1>3, <1>5 DEF ClientSound, DeletionSound, ClientShape
<1>6. ASSUME NEW d \in Clients PROVE DeletionSound(d)'
  <2>1. CASE d = c
    <3>1. r.pc \in DeletionPc => \A q \in Clients \ {c} :
            client'[q].pc \in DeletionPc => client'[q].on \cap r.on = {}
      BY <1>1, <1>5
    <3>. QED  BY <1>1, <2>1, <3>1 DEF DeletionSound
  <2>2. CASE d # c
    <3>1. client'[d] = client[d] /\ DeletionSound(d)
      BY <1>1, <1>3, <2>2 DEF ClientSound
    <3>2. client[d].pc \in DeletionPc => \A q \in Clients \ {d} :
            client'[q].pc \in DeletionPc => client'[q].on \cap client[d].on = {}
      <4>. SUFFICES ASSUME client[d].pc \in DeletionPc, NEW q \in Clients \ {d},
                           client'[q].pc \in DeletionPc
                    PROVE  client'[q].on \cap client[d].on = {}
        OBVIOUS
      <4>1. CASE q = c
        BY <1>1, <1>5, <2>2, <4>1
      <4>2. CASE q # c
        BY <1>1, <3>1, <4>2 DEF DeletionSound
      <4>. QED  BY <4>1, <4>2
    <3>3. client[d].pc \in DeletionPc =>
            /\ client[d].on \subseteq deleting'
            /\ \A s \in client[d].on : slot'[s] = slot[s]
      BY <1>5, <2>2
    <3>4. client[d].pc \in {"cancelled", "settled"} =>
            \A s \in client[d].on : s \notin queued' /\ slot'[s] \notin {"reserved", "running"}
      BY <3>1, <3>3 DEF DeletionSound
    <3>5. client[d].pc = "settled" => \A s \in client[d].on : slot'[s] = "free"
      BY <3>1, <3>3 DEF DeletionSound
    <3>6. client[d].pc \in DeletingPc => \A s \in client[d].on : preparations'[s] = 0
      BY <3>1 DEF DeletionSound
    <3>. QED  BY <3>1, <3>2, <3>3, <3>4, <3>5, <3>6 DEF DeletionSound
  <2>. QED  BY <2>1, <2>2
<1>7. ASSUME NEW s \in Sessions PROVE GoneSound(s)'
  <2>. SUFFICES ASSUME Gone(s)'
                PROVE  preparations'[s] = 0 /\ s \notin queued' /\ slot'[s] = "free"
    BY DEF GoneSound
  <2>1. /\ s \in deleting' /\ (r.pc \in DeletionPc => s \notin r.on)
        /\ \A d \in Clients \ {c} : client[d].pc \in DeletionPc => s \notin client[d].on
    BY <1>1 DEF Gone
  <2>2. CASE s \in deleting /\ (client[c].pc \in DeletionPc => s \notin client[c].on)
    <3>1. Gone(s) /\ GoneSound(s)
      BY <2>1, <2>2 DEF Gone, AInv
    <3>2. slot'[s] = slot[s]
      BY <2>2
    <3>. QED  BY <3>1, <3>2 DEF GoneSound
  <2>3. CASE client[c].pc = "settled" /\ s \in client[c].on /\ slot'[s] = "free"
    BY <1>3, <2>3 DEF ClientSound, DeletionSound
  <2>. QED  BY <2>1, <2>2, <2>3
<1>. QED  BY <1>1, <1>2, <1>4, <1>6, <1>7 DEF AInv, ClientSound

(* A deletion goes to another stage.                                       *)
LEMMA StageSound ==
  ASSUME AInv, NEW c \in Clients, client[c].pc \in DeletionPc, NEW l \in DeletionPc,
         client' = [client EXCEPT ![c].pc = l],
         UNCHANGED <<lock, accepting, deleting, preparations, leaked>>,
         closed' \in SUBSET Sessions, queued' \in SUBSET queued, slot' \in [Sessions -> Slots],
         \A s \in Sessions : slot'[s] # slot[s] => s \in client[c].on,
         l \in DeletingPc => \A s \in client[c].on : preparations[s] = 0,
         l \in {"cancelled", "settled"} => \A s \in client[c].on :
            s \notin queued' /\ slot'[s] \notin {"reserved", "running"},
         l = "settled" => \A s \in client[c].on : slot'[s] = "free"
  PROVE  AInv'
<1>. DEFINE r == [client[c] EXCEPT !.pc = l]
<1>1. client[c] \in ClientShape /\ client[c].on \subseteq deleting /\ deleting \in SUBSET Sessions
  BY DEF AInv, TypeOK, ClientShape, ClientSound, DeletionSound
<1>2. r \in ClientShape /\ r.pc = l /\ r.on = client[c].on
  BY <1>1 DEF ClientShape
<1>3. client' = [client EXCEPT ![c] = r]
  OBVIOUS
<1>. HIDE DEF r
<1>4. \A d \in Clients \ {c} : client[d].pc \in DeletionPc => client[d].on \subseteq deleting'
  BY DEF AInv, ClientSound, DeletionSound
<1>5. r.pc \in DeletingPc => \A s \in r.on : preparations[s] = 0
  BY <1>2
<1>6. r.pc \in {"cancelled", "settled"} =>
        \A s \in r.on : s \notin queued' /\ slot'[s] \notin {"reserved", "running"}
  BY <1>2
<1>7. r.pc = "settled" => \A s \in r.on : slot'[s] = "free"
  BY <1>2
<1>8. \A s \in Sessions :
        s \in deleting' /\ (r.pc \in DeletionPc => s \notin r.on) =>
          s \in deleting /\ (client[c].pc \in DeletionPc => s \notin client[c].on)
  BY <1>2
<1>. QED  BY <1>1, <1>2, <1>3, <1>4, <1>5, <1>6, <1>7, <1>8, DeletionStep

LEMMA DeletionRuns ==
  ASSUME AInv, NEW c \in Clients,
         \/ WaitForWindows(c) \/ MarkCatalog(c) \/ CancelJobs(c) \/ SettleJobs(c)
         \/ RaiseDelete(c)
  PROVE  AInv'
<1>1. /\ client[c] \in ClientShape /\ DeletionSound(c) /\ TypeOK
      /\ closed \in SUBSET Sessions /\ queued \in SUBSET queued /\ slot \in [Sessions -> Slots]
  BY DEF AInv, TypeOK, ClientShape, ClientSound
<1>2. CASE WaitForWindows(c)
  <2>1. /\ client[c].pc = "awake"
        /\ UNCHANGED <<lock, accepting, deleting, preparations, closed, queued, slot, leaked>>
    BY <1>2 DEF WaitForWindows, jobVars
  <2>2. CASE Drained(client[c].on)
    <3>1. client' = [client EXCEPT ![c].pc = "delete"]
      BY <1>2, <2>2 DEF WaitForWindows
    <3>2. \A s \in client[c].on : preparations[s] = 0
      BY <2>2 DEF Drained
    <3>. QED  BY <1>1, <2>1, <3>1, <3>2, StageSound
  <2>3. CASE ~Drained(client[c].on)
    <3>1. client' = [client EXCEPT ![c].pc = "asleep"]
      BY <1>2, <2>3 DEF WaitForWindows
    <3>. QED  BY <1>1, <2>1, <3>1, StageSound
  <2>. QED  BY <2>2, <2>3
<1>3. CASE MarkCatalog(c)
  <2>1. /\ client[c].pc = "delete" /\ client' = [client EXCEPT ![c].pc = "marked"]
        /\ UNCHANGED <<lock, accepting, deleting, preparations, queued, slot, leaked>>
        /\ closed' = closed \cup client[c].on
    BY <1>3 DEF MarkCatalog, jobVars
  <2>2. closed' \in SUBSET Sessions /\ \A s \in client[c].on : preparations[s] = 0
    BY <1>1, <2>1 DEF ClientShape, DeletionSound
  <2>. QED  BY <1>1, <2>1, <2>2, StageSound
<1>4. CASE CancelJobs(c)
  <2>1. /\ client[c].pc = "marked" /\ client' = [client EXCEPT ![c].pc = "cancelled"]
        /\ UNCHANGED <<lock, accepting, deleting, preparations, closed, leaked>>
        /\ queued' = queued \ client[c].on
        /\ slot' = [s \in Sessions |->
                      IF s \notin client[c].on THEN slot[s]
                      ELSE CASE slot[s] = "reserved" -> "ended"
                             [] slot[s] = "running" -> "cancelling"
                             [] OTHER -> slot[s]]
    BY <1>4 DEF CancelJobs
  <2>2. slot' \in [Sessions -> Slots]
    BY <1>1, <2>1
  <2>3. \A s \in client[c].on : preparations[s] = 0
    BY <1>1, <2>1 DEF DeletionSound
  <2>4. \A s \in client[c].on : s \notin queued' /\ slot'[s] \notin {"reserved", "running"}
    BY <1>1, <2>1 DEF ClientShape
  <2>5. \A s \in Sessions : slot'[s] # slot[s] => s \in client[c].on
    BY <2>1
  <2>. QED  BY <1>1, <2>1, <2>2, <2>3, <2>4, <2>5, StageSound
<1>5. CASE SettleJobs(c)
  <2>1. /\ client[c].pc = "cancelled" /\ client' = [client EXCEPT ![c].pc = "settled"]
        /\ UNCHANGED <<lock, accepting, deleting, preparations, closed, queued, leaked>>
        /\ slot' = [s \in Sessions |-> IF s \in client[c].on THEN "free" ELSE slot[s]]
    BY <1>5 DEF SettleJobs
  <2>2. slot' \in [Sessions -> Slots]
    BY <1>1, <2>1
  <2>3. \A s \in client[c].on : preparations[s] = 0 /\ s \notin queued
    BY <1>1, <2>1 DEF DeletionSound
  <2>4. \A s \in client[c].on : s \notin queued' /\ slot'[s] = "free"
    BY <1>1, <2>1, <2>3 DEF ClientShape
  <2>5. \A s \in Sessions : slot'[s] # slot[s] => s \in client[c].on
    BY <2>1
  <2>. QED  BY <1>1, <2>1, <2>2, <2>3, <2>4, <2>5, StageSound
<1>6. CASE RaiseDelete(c)
  BY <1>1, <1>6, StageSound DEF RaiseDelete, jobVars
<1>. QED  BY <1>2, <1>3, <1>4, <1>5, <1>6

LEMMA BeginDeleteSound ==
  ASSUME AInv, NEW c \in Clients, NEW ss \in SUBSET Sessions, BeginDelete(c, ss)
  PROVE  AInv'
<1>. DEFINE r == [pc |-> "awake", on |-> ss, depth |-> 0]
<1>1. r \in ClientShape /\ r.pc = "awake" /\ r.on = ss
  BY DEF ClientShape
<1>2. /\ client[c].pc = "out" /\ lock = NoClient /\ ss \cap deleting = {}
      /\ deleting' = deleting \cup ss /\ client' = [client EXCEPT ![c] = r]
      /\ UNCHANGED <<lock, accepting, preparations, closed, queued, slot, leaked>>
  BY DEF BeginDelete, jobVars, Idle
<1>3. /\ deleting' \in SUBSET Sessions /\ closed' \in SUBSET Sessions
      /\ queued' \in SUBSET queued /\ slot' \in [Sessions -> Slots]
  BY <1>2 DEF AInv, TypeOK
<1>4. \A d \in Clients \ {c} : client[d].pc \in DeletionPc => client[d].on \subseteq deleting'
  BY <1>2 DEF AInv, ClientSound, DeletionSound
<1>. HIDE DEF r
<1>5. r.pc \in DeletionPc => r.on \subseteq deleting' /\ r.on \cap deleting = {}
  BY <1>1, <1>2
<1>6. r.pc \notin DeletingPc
  BY <1>1
<1>7. \A s \in Sessions : s \in deleting' /\ (r.pc \in DeletionPc => s \notin r.on) =>
        s \in deleting /\ (client[c].pc \in DeletionPc => s \notin client[c].on)
  BY <1>1, <1>2
<1>8. \A s \in Sessions : slot'[s] = slot[s]
  BY <1>2
<1>. QED  BY <1>1, <1>2, <1>3, <1>4, <1>5, <1>6, <1>7, <1>8, DeletionStep

LEMMA LeaveDeletionSound ==
  ASSUME AInv, NEW c \in Clients, EndDelete(c) \/ ReopenDelete(c)
  PROVE  AInv'
<1>1. Idle \in ClientShape /\ Idle.pc = "out"
  BY DEF Idle, ClientShape
<1>2. /\ client[c].pc \in DeletionPc /\ client' = [client EXCEPT ![c] = Idle]
      /\ UNCHANGED <<lock, accepting, preparations, closed, queued, slot, leaked>>
      /\ \/ client[c].pc = "settled" /\ deleting' = deleting
         \/ deleting' = deleting \ client[c].on
  BY DEF EndDelete, ReopenDelete, jobVars
<1>3. /\ deleting' \in SUBSET Sessions /\ closed' \in SUBSET Sessions
      /\ queued' \in SUBSET queued /\ slot' \in [Sessions -> Slots]
      /\ \A s \in Sessions : s \in deleting' => s \in deleting
  BY <1>2 DEF AInv, TypeOK
<1>4. \A d \in Clients \ {c} : client[d].pc \in DeletionPc => client[d].on \subseteq deleting'
  <2>. SUFFICES ASSUME NEW d \in Clients \ {c}, client[d].pc \in DeletionPc
                PROVE  client[d].on \subseteq deleting'
    OBVIOUS
  <2>1. client[d].on \subseteq deleting /\ client[d].on \cap client[c].on = {}
    BY <1>2 DEF AInv, ClientSound, DeletionSound
  <2>. QED  BY <1>2, <2>1
<1>5. \A s \in Sessions :
        s \in deleting' =>
          \/ s \in deleting /\ (client[c].pc \in DeletionPc => s \notin client[c].on)
          \/ client[c].pc = "settled" /\ s \in client[c].on /\ slot'[s] = "free"
  <2>1. client[c].pc = "settled" => \A s \in client[c].on : slot[s] = "free"
    BY DEF AInv, ClientSound, DeletionSound
  <2>. QED  BY <1>2, <1>3, <2>1
<1>6. Idle.pc \notin DeletionPc /\ Idle.pc \notin DeletingPc /\ \A s \in Sessions : slot'[s] = slot[s]
  BY <1>1, <1>2
<1>. QED  BY <1>1, <1>2, <1>3, <1>4, <1>5, <1>6, DeletionStep

-----------------------------------------------------------------------------
(* Jobs and admission                                                      *)

(* A slot moves only while no idle operation runs, and never out of what a *)
(* deletion has left.                                                      *)
LEMMA SlotStep ==
  ASSUME AInv, NEW s \in Sessions, NEW v \in Slots, lock = NoClient,
         slot' = [slot EXCEPT ![s] = v], queued' \in SUBSET queued,
         \/ s \in queued \ deleting
         \/ slot[s] = "reserved"
         \/ /\ slot[s] \in {"running", "cancelling"} /\ v \in {"ended", "free"},
         UNCHANGED <<lock, accepting, deleting, preparations, closed, client, leaked>>
  PROVE  AInv'
<1>1. TypeOK /\ slot \in [Sessions -> Slots] /\ queued \in SUBSET Sessions
  BY DEF AInv, TypeOK
<1>2. TypeOK'
  BY <1>1 DEF TypeOK
<1>3. \A q \in Sessions : OpenWindows(q)' = OpenWindows(q)
  BY DEF OpenWindows, Windows
<1>4. CountsAreWindows'
  BY <1>3 DEF AInv, CountsAreWindows
<1>5. /\ \A q \in Sessions \ {s} : slot'[q] = slot[q]
      /\ slot'[s] = v
  BY <1>1
<1>6. ASSUME NEW d \in Clients PROVE ClientSound(d)'
  <2>1. ClientSound(d) /\ client[d].on \subseteq Sessions
    BY <1>1 DEF AInv, TypeOK
  <2>2. WindowSound(d)' /\ IdleSound(d)'
    BY <2>1 DEF ClientSound, WindowSound, IdleSound
  <2>3. client[d].pc \in {"cancelled", "settled"} =>
          \A q \in client[d].on : q \notin queued' /\ slot'[q] \notin {"reserved", "running"}
    BY <1>5, <2>1 DEF ClientSound, DeletionSound
  <2>4. client[d].pc = "settled" => \A q \in client[d].on : slot'[q] = "free"
    BY <1>5, <2>1 DEF ClientSound, DeletionSound
  <2>5. DeletionSound(d)'
    BY <2>1, <2>3, <2>4 DEF ClientSound, DeletionSound
  <2>. QED  BY <2>2, <2>5 DEF ClientSound
<1>7. ASSUME NEW q \in Sessions PROVE GoneSound(q)'
  <2>1. GoneSound(q) /\ (Gone(q)' <=> Gone(q))
    BY DEF AInv, Gone
  <2>. QED  BY <1>5, <2>1 DEF GoneSound, Gone
<1>. QED  BY <1>2, <1>4, <1>6, <1>7 DEF AInv

LEMMA JobSound ==
  ASSUME AInv, NEW s \in Sessions, ReserveSlot(s) \/ LaunchJob(s) \/ JobEnds(s)
  PROVE  AInv'
<1>1. CASE ReserveSlot(s)
  BY <1>1, SlotStep DEF ReserveSlot
<1>2. CASE LaunchJob(s)
  BY <1>2, SlotStep DEF LaunchJob
<1>3. CASE JobEnds(s)
  <2>1. \E v \in {"ended", "free"} : slot' = [slot EXCEPT ![s] = v]
    BY <1>3 DEF JobEnds
  <2>. QED  BY <1>3, <2>1, SlotStep DEF JobEnds
<1>. QED  BY <1>1, <1>2, <1>3

LEMMA AdmissionStep ==
  ASSUME AInv, SetAdmission \/ UNCHANGED vars
  PROVE  AInv'
<1>1. /\ UNCHANGED <<lock, deleting, preparations, closed, queued, slot, client, leaked>>
      /\ accepting' = ~accepting \/ accepting' = accepting
  BY DEF SetAdmission, vars, jobVars
<1>2. TypeOK'
  BY <1>1 DEF AInv, TypeOK
<1>3. \A q \in Sessions : OpenWindows(q)' = OpenWindows(q)
  BY <1>1 DEF OpenWindows, Windows
<1>4. CountsAreWindows'
  BY <1>1, <1>3 DEF AInv, CountsAreWindows
<1>5. \A d \in Clients : ClientSound(d)'
  BY <1>1 DEF AInv, ClientSound, WindowSound, IdleSound, DeletionSound
<1>6. \A q \in Sessions : GoneSound(q)'
  BY <1>1 DEF AInv, GoneSound, Gone
<1>. QED  BY <1>2, <1>4, <1>5, <1>6 DEF AInv

-----------------------------------------------------------------------------
(* The specification                                                       *)

LEMMA StepSound == AInv /\ [Next]_vars => AInv'
<1>. SUFFICES ASSUME AInv, [Next]_vars PROVE AInv'
  OBVIOUS
<1>1. ASSUME NEW c \in Clients,
             \/ \E s \in Sessions, restoring \in BOOLEAN : OpenWindow(c, s, restoring)
             \/ \E restoring \in BOOLEAN : Nest(c, restoring)
             \/ StartJob(c) \/ CommitJob(c) \/ EndOperation(c) \/ CloseWindow(c)
             \/ CancelInFinally(c)
      PROVE  AInv'
  BY <1>1, OpenSound, NestSound, InsideSound, CloseSound, CancelInFinallySound
<1>2. ASSUME NEW c \in Clients,
             \/ \E ss \in SUBSET Sessions \ {{}} : BeginIdle(c, ss) \/ BeginDelete(c, ss)
             \/ EndIdle(c)
             \/ WaitForWindows(c) \/ MarkCatalog(c) \/ CancelJobs(c) \/ SettleJobs(c)
             \/ EndDelete(c) \/ RaiseDelete(c) \/ ReopenDelete(c)
      PROVE  AInv'
  BY <1>2, IdleStepSound, BeginDeleteSound, DeletionRuns, LeaveDeletionSound
<1>3. ASSUME NEW s \in Sessions, ReserveSlot(s) \/ LaunchJob(s) \/ JobEnds(s) PROVE AInv'
  BY <1>3, JobSound
<1>. QED  BY <1>1, <1>2, <1>3, AdmissionStep DEF Next

(* The counts, the set of deleting Sessions and the lock of the job        *)
(* service are enough for its windows, idle operations and deletions       *)
(* (run_session_preparation, run_session_idle_operation,                   *)
(* run_sessions_delete_operation).                                         *)
THEOREM AdmissionIsSound == Spec => []AInv
  BY InitSound, StepSound, PTL DEF Spec

(* While a deletion runs, no window, idle operation or other deletion of   *)
(* its Sessions is open; an idle operation has its Sessions for itself;    *)
(* and the count of a Session is that of its open windows.                 *)
THEOREM AdmissionInvariance == Spec => []AdmissionInv
<1>1. AInv => AdmissionInv
  <2>. SUFFICES ASSUME AInv PROVE AdmissionInv
    OBVIOUS
  <2>1. ASSUME NEW c \in Clients, NEW s \in client[c].on
        PROVE  s \in Sessions
    BY DEF AInv, TypeOK
  <2>2. DeletionAlone
    <3>. SUFFICES ASSUME NEW c \in Clients, client[c].pc \in DeletingPc, NEW s \in client[c].on
                  PROVE  /\ Windows(s) = {}
                         /\ \A d \in Clients \ {c} :
                              client[d].pc \in DeletionPc \cup {"idle"} => s \notin client[d].on
      BY DEF DeletionAlone
    <3>1. ClientSound(c) /\ s \in deleting /\ preparations[s] = 0
      BY DEF AInv, ClientSound, DeletionSound
    <3>2. Windows(s) = {}
      BY <2>1, <3>1, NoCountNoWindow
    <3>3. \A d \in Clients \ {c} : client[d].pc \in DeletionPc => s \notin client[d].on
      BY <3>1 DEF ClientSound, DeletionSound
    <3>4. \A d \in Clients : client[d].pc = "idle" => s \notin client[d].on
      BY <3>1 DEF AInv, ClientSound, IdleSound
    <3>. QED  BY <3>2, <3>3, <3>4
  <2>3. IdleAlone
    BY <2>1, NoCountNoWindow DEF IdleAlone, AInv, ClientSound, IdleSound
  <2>. QED  BY <2>2, <2>3 DEF AInv, AdmissionInv
<1>. QED  BY <1>1, AdmissionIsSound, PTL

(* A Session whose deletion has returned has no window, no queued job and  *)
(* no job in its slot, whatever the other clients do afterwards            *)
(* (delete_session_jobs).                                                  *)
THEOREM DeletionIsFinal == Spec => []DeletedStaysEmpty
<1>1. AInv => DeletedStaysEmpty
  <2>. SUFFICES ASSUME AInv, NEW s \in closed \cap deleting,
                       \A c \in Clients : client[c].pc \in DeletionPc => s \notin client[c].on
                PROVE  Windows(s) = {} /\ s \notin queued /\ slot[s] = "free"
    BY DEF DeletedStaysEmpty
  <2>1. s \in Sessions
    BY DEF AInv, TypeOK
  <2>2. preparations[s] = 0 /\ s \notin queued /\ slot[s] = "free"
    BY <2>1 DEF AInv, GoneSound, Gone
  <2>. QED  BY <2>1, <2>2, NoCountNoWindow
<1>. QED  BY <1>1, AdmissionIsSound, PTL

-----------------------------------------------------------------------------
(* No lost wake-up                                                         *)

(* A deletion sleeps over a Session whose count is not zero.               *)
Asleep(c) == client[c].pc = "asleep" => ~Drained(client[c].on)

WInv == AInv /\ \A c \in Clients : Asleep(c)

(* A client that stays asleep on its Sessions, while no count sinks.       *)
LEMMA StaysAsleep ==
  ASSUME NEW c \in Clients, Asleep(c), UNCHANGED preparations,
         client'[c].pc = "asleep" => client'[c] = client[c]
  PROVE  Asleep(c)'
BY DEF Asleep, Drained

(* A step of one client that does not put it to sleep.                     *)
LEMMA OthersSleepOn ==
  ASSUME WInv, NEW c \in Clients, NEW r, client' = [client EXCEPT ![c] = r], r.pc # "asleep",
         \/ UNCHANGED preparations
         \/ \E s \in Sessions : preparations' = [preparations EXCEPT ![s] = @ + 1]
  PROVE  \A d \in Clients : Asleep(d)'
<1>1. client \in [Clients -> ClientShape] /\ preparations \in [Sessions -> Nat]
  BY DEF WInv, AInv, TypeOK, ClientShape
<1>2. client'[c] = r /\ \A d \in Clients \ {c} : client'[d] = client[d]
  BY <1>1
<1>3. \A s \in Sessions : preparations[s] # 0 => preparations'[s] # 0
  BY <1>1
<1>4. ASSUME NEW d \in Clients \ {c} PROVE Asleep(d)'
  <2>1. Asleep(d) /\ client[d].on \subseteq Sessions
    BY <1>1 DEF WInv, ClientShape
  <2>. QED  BY <1>2, <1>3, <2>1 DEF Asleep, Drained
<1>5. Asleep(c)'
  BY <1>2 DEF Asleep
<1>. QED  BY <1>4, <1>5

(* Windows, idle operations and the stages of a deletion put nobody to     *)
(* sleep and lower no count.                                               *)
LEMMA WindowStepsLetSleep ==
  ASSUME WInv, NEW c \in Clients,
         \/ \E s \in Sessions, restoring \in BOOLEAN : OpenWindow(c, s, restoring)
         \/ \E restoring \in BOOLEAN : Nest(c, restoring)
         \/ StartJob(c) \/ CommitJob(c) \/ EndOperation(c) \/ CancelInFinally(c)
  PROVE  \A d \in Clients : Asleep(d)'
<1>1. CASE \E s \in Sessions, restoring \in BOOLEAN : OpenWindow(c, s, restoring)
  <2>1. PICK s \in Sessions :
          /\ preparations' = [preparations EXCEPT ![s] = @ + 1]
          /\ client' = [client EXCEPT ![c] = [pc |-> "inside", on |-> {s}, depth |-> 1]]
    BY <1>1 DEF OpenWindow
  <2>. DEFINE r == [pc |-> "inside", on |-> {s}, depth |-> 1]
  <2>2. client' = [client EXCEPT ![c] = r] /\ r.pc # "asleep"
    BY <2>1
  <2>. HIDE DEF r
  <2>. QED  BY <2>1, <2>2, OthersSleepOn
<1>2. CASE \E restoring \in BOOLEAN : Nest(c, restoring)
  <2>0. client[c].pc = "inside" /\ AInv
    BY <1>2 DEF Nest, WInv
  <2>1. \A s \in client[c].on : s \in Sessions
    BY <2>0, HasWindow
  <2>2. CASE \E s \in client[c].on : /\ preparations' = [preparations EXCEPT ![s] = @ + 1]
                                     /\ client' = [client EXCEPT ![c].depth = @ + 1]
    <3>. DEFINE r == [client[c] EXCEPT !.depth = @ + 1]
    <3>1. client' = [client EXCEPT ![c] = r] /\ r.pc = "inside"
      BY <2>0, <2>2 DEF AInv, TypeOK
    <3>. HIDE DEF r
    <3>. QED  BY <2>1, <2>2, <3>1, OthersSleepOn
  <2>3. CASE client' = [client EXCEPT ![c].pc = "leaving"] /\ UNCHANGED preparations
    <3>. DEFINE r == [client[c] EXCEPT !.pc = "leaving"]
    <3>1. client' = [client EXCEPT ![c] = r] /\ r.pc = "leaving"
      BY <2>3 DEF WInv, AInv, TypeOK
    <3>. HIDE DEF r
    <3>. QED  BY <2>3, <3>1, OthersSleepOn
  <2>. QED  BY <1>2, <2>2, <2>3 DEF Nest
<1>3. CASE StartJob(c) \/ CommitJob(c) \/ EndOperation(c)
  <2>1. PICK l \in {"admitting", "leaving", "inside"} : client' = [client EXCEPT ![c].pc = l]
    BY <1>3 DEF StartJob, CommitJob, EndOperation
  <2>. DEFINE r == [client[c] EXCEPT !.pc = l]
  <2>2. client' = [client EXCEPT ![c] = r] /\ r.pc = l
    BY <2>1 DEF WInv, AInv, TypeOK
  <2>3. UNCHANGED preparations
    BY <1>3 DEF StartJob, CommitJob, EndOperation
  <2>. HIDE DEF r
  <2>. QED  BY <2>2, <2>3, OthersSleepOn
<1>4. CASE CancelInFinally(c)
  <2>1. client[c].pc = "leaving" /\ client' = [client EXCEPT ![c] = Left(c)] /\ UNCHANGED preparations
    BY <1>4 DEF CancelInFinally
  <2>2. Left(c).pc # "asleep"
    <3>1. PICK s \in client[c].on : TRUE
      BY <1>4 DEF CancelInFinally
    <3>. QED  BY <2>1, <3>1, AfterWindow DEF WInv
  <2>. QED  BY <2>1, <2>2, OthersSleepOn
<1>. QED  BY <1>1, <1>2, <1>3, <1>4

LEMMA DeletionStepsLetSleep ==
  ASSUME WInv, NEW c \in Clients,
         \/ \E ss \in SUBSET Sessions \ {{}} : BeginIdle(c, ss) \/ BeginDelete(c, ss)
         \/ EndIdle(c)
         \/ MarkCatalog(c) \/ CancelJobs(c) \/ SettleJobs(c)
         \/ EndDelete(c) \/ RaiseDelete(c) \/ ReopenDelete(c)
  PROVE  \A d \in Clients : Asleep(d)'
<1>1. UNCHANGED preparations
  BY DEF BeginIdle, BeginDelete, EndIdle, MarkCatalog, CancelJobs, SettleJobs, EndDelete,
         RaiseDelete, ReopenDelete
<1>2. CASE \E ss \in SUBSET Sessions \ {{}} : BeginIdle(c, ss) \/ BeginDelete(c, ss)
  <2>1. PICK ss \in SUBSET Sessions : BeginIdle(c, ss) \/ BeginDelete(c, ss)
    BY <1>2
  <2>2. \E l \in {"idle", "awake"} :
          client' = [client EXCEPT ![c] = [pc |-> l, on |-> ss, depth |-> 0]]
    BY <2>1 DEF BeginIdle, BeginDelete
  <2>3. PICK l \in {"idle", "awake"} :
          client' = [client EXCEPT ![c] = [pc |-> l, on |-> ss, depth |-> 0]]
    BY <2>2
  <2>. DEFINE r == [pc |-> l, on |-> ss, depth |-> 0]
  <2>4. client' = [client EXCEPT ![c] = r] /\ r.pc # "asleep"
    BY <2>3
  <2>. HIDE DEF r
  <2>. QED  BY <1>1, <2>4, OthersSleepOn
<1>3. CASE EndIdle(c) \/ EndDelete(c) \/ ReopenDelete(c)
  <2>1. client' = [client EXCEPT ![c] = Idle] /\ Idle.pc = "out"
    BY <1>3 DEF EndIdle, EndDelete, ReopenDelete, Idle
  <2>. QED  BY <1>1, <2>1, OthersSleepOn
<1>4. CASE MarkCatalog(c) \/ CancelJobs(c) \/ SettleJobs(c) \/ RaiseDelete(c)
  <2>1. PICK l \in {"marked", "cancelled", "settled", "failed"} :
          client' = [client EXCEPT ![c].pc = l]
    BY <1>4 DEF MarkCatalog, CancelJobs, SettleJobs, RaiseDelete
  <2>. DEFINE r == [client[c] EXCEPT !.pc = l]
  <2>2. client' = [client EXCEPT ![c] = r] /\ r.pc = l
    BY <2>1 DEF WInv, AInv, TypeOK
  <2>. HIDE DEF r
  <2>. QED  BY <1>1, <2>2, OthersSleepOn
<1>. QED  BY <1>2, <1>3, <1>4

(* The count of a Session sinks only with notify_all, and whoever goes to  *)
(* sleep has just seen a count that is not zero.                           *)
LEMMA WakeStep == WInv /\ [Next]_vars => \A d \in Clients : Asleep(d)'
<1>. SUFFICES ASSUME WInv, [Next]_vars PROVE \A d \in Clients : Asleep(d)'
  OBVIOUS
<1>1. client \in [Clients -> ClientShape]
  BY DEF WInv, AInv, TypeOK, ClientShape
<1>2. ASSUME NEW c \in Clients, CloseWindow(c) PROVE \A d \in Clients : Asleep(d)'
  <2>. DEFINE left == [client EXCEPT ![c] = Left(c)]
  <2>1. client' = NotifyAll(left)
    BY <1>2 DEF CloseWindow
  <2>2. \A d \in Clients : left[d] \in ClientShape
    <3>1. PICK s \in client[c].on : TRUE
      BY <1>2 DEF CloseWindow
    <3>2. client[c].pc = "leaving"
      BY <1>2 DEF CloseWindow
    <3>3. Left(c) \in ClientShape
      BY <3>1, <3>2, AfterWindow DEF WInv
    <3>. QED  BY <1>1, <3>3
  <2>. HIDE DEF left
  <2>3. ASSUME NEW d \in Clients PROVE client'[d].pc # "asleep"
    <3>1. CASE left[d].pc = "asleep"
      <4>1. client'[d] = [left[d] EXCEPT !.pc = "awake"]
        BY <2>1, <3>1 DEF NotifyAll
      <4>. QED  BY <2>2, <4>1 DEF ClientShape
    <3>2. CASE left[d].pc # "asleep"
      <4>1. client'[d] = left[d]
        BY <2>1, <3>2 DEF NotifyAll
      <4>. QED  BY <3>2, <4>1
    <3>. QED  BY <3>1, <3>2
  <2>. QED  BY <2>3 DEF Asleep
<1>3. ASSUME NEW c \in Clients, WaitForWindows(c) PROVE \A d \in Clients : Asleep(d)'
  <2>. DEFINE l == IF Drained(client[c].on) THEN "delete" ELSE "asleep"
              r == [client[c] EXCEPT !.pc = l]
  <2>1. client' = [client EXCEPT ![c] = r] /\ UNCHANGED preparations
    BY <1>3 DEF WaitForWindows
  <2>2. r.pc = l /\ r.on = client[c].on
    BY <1>1 DEF ClientShape
  <2>. HIDE DEF r
  <2>3. client'[c] = r /\ \A d \in Clients \ {c} : client'[d] = client[d]
    BY <1>1, <2>1
  <2>4. Asleep(c)'
    BY <2>1, <2>2, <2>3 DEF Asleep, Drained
  <2>. QED  BY <2>1, <2>3, <2>4, StaysAsleep DEF WInv
<1>4. ASSUME NEW s \in Sessions, ReserveSlot(s) \/ LaunchJob(s) \/ JobEnds(s)
      PROVE  \A d \in Clients : Asleep(d)'
  BY <1>4, StaysAsleep DEF WInv, ReserveSlot, LaunchJob, JobEnds
<1>5. CASE SetAdmission \/ UNCHANGED vars
  BY <1>5, StaysAsleep DEF WInv, SetAdmission, vars
<1>. QED  BY <1>2, <1>3, <1>4, <1>5, WindowStepsLetSleep, DeletionStepsLetSleep DEF Next

(* No wake-up is lost: whatever clients, late cancellations and nested     *)
(* windows do, a deletion that sleeps on _preparation_changed has a window *)
(* that will wake it or a count that was lost                              *)
(* (run_sessions_delete_operation).                                        *)
THEOREM NoLostWakeUp == Spec => []SleepHasCause
<1>1. Init => WInv
  <2>1. Init => \A c \in Clients : Asleep(c)
    BY DEF Init, Idle, Asleep
  <2>. QED  BY <2>1, InitSound DEF WInv
<1>2. WInv /\ [Next]_vars => WInv'
  <2>1. WInv /\ [Next]_vars => AInv'
    BY StepSound DEF WInv
  <2>. QED  BY <2>1, WakeStep DEF WInv
<1>3. WInv => SleepHasCause
  <2>. SUFFICES ASSUME WInv, NEW c \in Clients, client[c].pc = "asleep"
                PROVE  \E s \in client[c].on : Windows(s) # {} \/ leaked[s] > 0
    BY DEF SleepHasCause
  <2>1. PICK s \in client[c].on : preparations[s] # 0
    BY DEF WInv, Asleep, Drained
  <2>2. s \in Sessions /\ leaked[s] \in Nat
    BY DEF WInv, AInv, TypeOK
  <2>3. preparations[s] = leaked[s] + Cardinality(OpenWindows(s))
    BY <2>2 DEF WInv, AInv, CountsAreWindows
  <2>4. CASE leaked[s] = 0
    <3>1. OpenWindows(s) # {}
      BY <2>1, <2>3, <2>4, FS_EmptySet
    <3>. QED  BY <3>1 DEF OpenWindows
  <2>. QED  BY <2>2, <2>4
<1>. QED  BY <1>1, <1>2, <1>3, PTL DEF Spec
=============================================================================
