------------------------- MODULE ThreadRuntimeProofs -------------------------
(***************************************************************************)
(* Proofs about what executes in a Thread: the runtime that its tracker    *)
(* builds, leases and unloads (ThreadResidency), and the body and the      *)
(* executors of a job that holds such a lease (ExecutorStop), for every    *)
(* number of executions, keys, blockers, resumes and control requests.     *)
(*                                                                         *)
(* ResidencyInv is not inductive.  It does not say who waits for what, so  *)
(* nothing in it keeps the end of a builder or of an unload from being     *)
(* missed, nor what a closer that is between two awaits may conclude from  *)
(* what it saw before.  RInv adds that the leases counted are the leases   *)
(* held, all on the runtime that is resident (LeasesSound); that whoever   *)
(* waits for a task waits for one that runs (WaitsSound); in which places  *)
(* of an unload the runtime is closing (ScopeSound); and what each closer  *)
(* knows of the state in each place it waits (ClosersSound).               *)
(***************************************************************************)
EXTENDS ThreadResidency, ExecutorStop, FiniteSetTheorems, SequenceTheorems, TLAPS

(***************************************************************************)
(* The runtime of a Thread                                                 *)
(***************************************************************************)

UserPlaces == {"none", "retry", "unload", "build", "fail", "lease"}
UserRecord == [at : UserPlaces, key : Keys \cup {"none"}, gen : Nat]
RuntimeRecord ==
    [gen : Nat, key : Keys \cup {"none"}, leases : Nat, closing : BOOLEAN, open : BOOLEAN]
UnloadRecord == [at : {"none", "drain", "listen", "close"}, forced : BOOLEAN]
StateRecord ==
    [runtime : RuntimeRecord, build : Keys \cup {"none"}, scope : {"none", "open", "broken"},
     unload : UnloadRecord, push : SUBSET Blockers, idle : {"blocked", "fresh", "old"},
     user : [Users -> UserRecord]]
CloserRecord ==
    [at : {"idle", "begin", "build", "built", "unload", "over", "done"},
     own : BOOLEAN, err : BOOLEAN]

(* The count of the leases is the number of their holders, and each works  *)
(* on the runtime that is resident.                                        *)
LeasesSound(s) ==
    /\ s.runtime.leases = Cardinality(Leasing(s))
    /\ \A u \in Leasing(s) :
        /\ Resident(s) /\ s.runtime.gen = s.user[u].gen /\ s.runtime.key = s.user[u].key
        /\ s.runtime.open /\ ~s.runtime.closing
    /\ s.idle # "blocked" => Leasing(s) = {}

(* Whoever waits for a task waits for one that runs.                       *)
WaitsSound(s) ==
    \A u \in Users :
        /\ s.user[u].at # "none" => s.user[u].key \in Keys
        /\ s.user[u].at = "unload" => s.unload.at # "none"
        /\ s.user[u].at = "build" => s.build # "none"

(* Builder, runtime and broken scope exclude each other, an unload has     *)
(* something to close, and a runtime closes exactly behind the drain.      *)
ScopeSound(s) ==
    /\ Resident(s) => s.build = "none" /\ s.scope = "none"
    /\ s.build # "none" => s.scope = "open" /\ s.unload.at = "none"
    /\ s.scope = "open" => s.build # "none"
    /\ s.unload.at # "none" => Resident(s) \/ s.scope = "broken"
    /\ s.unload.at \in {"drain", "listen"} => Resident(s)
    /\ s.unload.at \in {"listen", "close"} /\ Resident(s) => s.runtime.closing
    /\ s.runtime.closing => Resident(s) /\ s.unload.at \in {"listen", "close"}

BlocksSound(s) == s.runtime.closing /\ ~s.unload.forced => ~Blocked(s)

CoreSound(s, b) ==
    /\ s \in StateRecord /\ s.runtime.gen <= b
    /\ LeasesSound(s) /\ ScopeSound(s) /\ BlocksSound(s)

StateSound(s, b) == CoreSound(s, b) /\ WaitsSound(s)

Gone(s) == ~Resident(s) /\ s.build = "none" /\ s.scope = "none"
Empty(s) == Gone(s) /\ s.unload.at = "none" /\ Pending(s) = {}

(* What a closer may rely on.                                              *)
ClosersSound(s, cl) ==
    /\ cl \in [Closers -> CloserRecord]
    /\ \A c \in Closers :
        /\ cl[c].at = "done" => ~cl[c].own
        /\ cl[c].at = "built" /\ ~Resident(s) =>
            /\ s.build = "none"
            /\ \A u \in Users : s.user[u].at \notin {"retry", "unload", "build"}
    /\ cl["session"].at # "idle" =>
        /\ fenced
        /\ ~cl["session"].own => Empty(s)
    /\ cl["process"].at # "idle" =>
        /\ closing
        /\ ~cl["process"].own \/ (cl["process"].at = "over" /\ ~cl["process"].err) => Gone(s)

RInv ==
    /\ StateSound(st, built) /\ ClosersSound(st, closer)
    /\ built \in 0..MaxBuilds
    /\ pull \in BOOLEAN /\ closing \in BOOLEAN /\ fenced \in BOOLEAN

-----------------------------------------------------------------------------
(* Fields *)

Same(r, s) ==
    /\ r.runtime = s.runtime /\ r.build = s.build /\ r.scope = s.scope
    /\ r.unload = s.unload /\ r.push = s.push

LEMMA ObserveFields ==
    ASSUME NEW s \in StateRecord
    PROVE  /\ Observe(s) \in StateRecord /\ Same(Observe(s), s) /\ Observe(s).user = s.user
           /\ Observe(s).idle \in {s.idle, "blocked"} \/ ~HasUsers(s)
<1>1. CASE Blocked(s)
  BY <1>1 DEF StateRecord, Observe, Same
<1>2. CASE ~Blocked(s)
  BY <1>2 DEF StateRecord, Observe, Same
<1>. QED  BY <1>1, <1>2

LEMMA PlaceFields ==
    ASSUME NEW s \in StateRecord, NEW u \in Users, NEW at \in UserPlaces
    PROVE  /\ Place(s, u, at) \in StateRecord
           /\ Same(Place(s, u, at), s) /\ Place(s, u, at).idle = s.idle
           /\ \A v \in Users \ {u} : Place(s, u, at).user[v] = s.user[v]
           /\ Place(s, u, at).user[u].at = at /\ Place(s, u, at).user[u].key = s.user[u].key
<1> DEFINE r == [s.user[u] EXCEPT !.at = at]
<1>1. s.user \in [Users -> UserRecord]  BY DEF StateRecord
<1>2. s.user[u] \in UserRecord  BY <1>1
<1>3. r \in UserRecord /\ r.at = at /\ r.key = s.user[u].key  BY <1>2 DEF UserRecord
<1>4. Place(s, u, at) = [s EXCEPT !.user = [s.user EXCEPT ![u] = r]]  BY DEF Place
<1> HIDE DEF r
<1> DEFINE us == [s.user EXCEPT ![u] = r]
<1>5. us \in [Users -> UserRecord] /\ us[u] = r /\ \A v \in Users \ {u} : us[v] = s.user[v]
  BY <1>1, <1>3
<1> HIDE DEF us
<1>6. [s EXCEPT !.user = us] \in StateRecord /\ Same([s EXCEPT !.user = us], s)
      /\ [s EXCEPT !.user = us].idle = s.idle /\ [s EXCEPT !.user = us].user = us
  BY <1>5 DEF StateRecord, Same
<1>. QED  BY <1>3, <1>4, <1>5, <1>6 DEF us, r

LEMMA LeaveUserFields ==
    ASSUME NEW s \in StateRecord, NEW u \in Users
    PROVE  LET r == [s EXCEPT !.user[u] = NoUser] IN
           /\ r \in StateRecord /\ Same(r, s) /\ r.idle = s.idle
           /\ \A v \in Users \ {u} : r.user[v] = s.user[v]
           /\ r.user[u] = NoUser /\ NoUser.at = "none"
<1> DEFINE us == [s.user EXCEPT ![u] = NoUser]
<1>1. NoUser \in UserRecord /\ NoUser.at = "none"  BY DEF NoUser, UserRecord, UserPlaces
<1>2. us \in [Users -> UserRecord] /\ us[u] = NoUser /\ \A v \in Users \ {u} : us[v] = s.user[v]
  BY <1>1 DEF StateRecord
<1> HIDE DEF us
<1>3. LET r == [s EXCEPT !.user = us] IN
      r \in StateRecord /\ Same(r, s) /\ r.idle = s.idle /\ r.user = us
  BY <1>2 DEF StateRecord, Same
<1>. QED  BY <1>1, <1>2, <1>3 DEF us

LEMMA StartUnloadFields ==
    ASSUME NEW s \in StateRecord, NEW forced \in BOOLEAN
    PROVE  LET r == StartUnload(s, forced) IN
           /\ r \in StateRecord
           /\ r.runtime = s.runtime /\ r.build = s.build /\ r.scope = s.scope
           /\ r.push = s.push /\ r.idle = s.idle /\ r.user = s.user
           /\ r.unload.at # "none" /\ (s.unload.at # "none" => r = s)
           /\ s.unload.at = "none" => r.unload.at = IF Resident(s) THEN "drain" ELSE "close"
<1>1. CASE s.unload.at # "none"  BY <1>1 DEF StartUnload
<1>2. CASE s.unload.at = "none"
  <2> DEFINE x == [at |-> IF Resident(s) THEN "drain" ELSE "close", forced |-> forced]
  <2>1. x \in UnloadRecord /\ x.at = IF Resident(s) THEN "drain" ELSE "close"
    BY DEF UnloadRecord
  <2>2. StartUnload(s, forced) = [s EXCEPT !.unload = x]  BY <1>2 DEF StartUnload
  <2> HIDE DEF x
  <2>. QED  BY <1>2, <2>1, <2>2 DEF StateRecord
<1>. QED  BY <1>1, <1>2

LEMMA WakeFields ==
    ASSUME NEW s \in StateRecord, NEW place \in {"unload", "build"}, NEW ok \in BOOLEAN
    PROVE  LET r == WakeUsers(s, place, ok) IN
           /\ r \in StateRecord /\ Same(r, s) /\ r.idle = s.idle
           /\ \A v \in Users :
                /\ s.user[v].at # place => r.user[v] = s.user[v]
                /\ s.user[v].at = place => /\ r.user[v].at = IF ok THEN "retry" ELSE "fail"
                                           /\ r.user[v].key = s.user[v].key
<1> DEFINE woken == [v \in Users |-> [s.user[v] EXCEPT !.at = IF ok THEN "retry" ELSE "fail"]]
           us == [v \in Users |-> IF s.user[v].at = place THEN woken[v] ELSE s.user[v]]
<1>1. s.user \in [Users -> UserRecord]  BY DEF StateRecord
<1>2. ASSUME NEW v \in Users
      PROVE  /\ woken[v] \in UserRecord /\ woken[v].at = IF ok THEN "retry" ELSE "fail"
             /\ woken[v].key = s.user[v].key
  <2>1. s.user[v] \in UserRecord  BY <1>1
  <2>. QED  BY <2>1 DEF UserRecord, UserPlaces
<1>3. WakeUsers(s, place, ok) = [s EXCEPT !.user = us]  BY DEF WakeUsers
<1> HIDE DEF woken
<1>4. /\ us \in [Users -> UserRecord]
      /\ \A v \in Users : us[v] = IF s.user[v].at = place THEN woken[v] ELSE s.user[v]
  BY <1>1, <1>2
<1> HIDE DEF us
<1>5. LET r == [s EXCEPT !.user = us] IN
      r \in StateRecord /\ Same(r, s) /\ r.idle = s.idle /\ r.user = us
  BY <1>4 DEF StateRecord, Same
<1>. QED  BY <1>2, <1>3, <1>4, <1>5

-----------------------------------------------------------------------------
(* Steps of a caller *)

LEMMA LeasingFinite ==
    ASSUME NEW s PROVE IsFiniteSet(Leasing(s)) /\ Cardinality(Leasing(s)) \in Nat
                       /\ Cardinality(Leasing(s)) <= Cardinality(Users)
                       /\ Cardinality(Users) \in Nat
<1>1. Leasing(s) \subseteq Users  BY DEF Leasing
<1>. QED  BY <1>1, UsersAssumption, FS_Subset, FS_CardinalityType

LEMMA NoLeases ==
    ASSUME NEW s, LeasesSound(s), s.runtime.leases = 0
    PROVE  Leasing(s) = {}
BY LeasingFinite, FS_EmptySet DEF LeasesSound

LEMMA NobodyUses ==
    ASSUME NEW s \in StateRecord, LeasesSound(s), ~HasUsers(s)
    PROVE  Leasing(s) = {} /\ Pending(s) = {}
<1>1. Pending(s) = {} /\ ~(s.runtime.leases > 0) /\ s.runtime.leases \in Nat
  BY DEF HasUsers, StateRecord, RuntimeRecord
<1>. QED  BY <1>1, NoLeases

(* Only the idle clock moves.                                              *)
LEMMA ClockSound ==
    ASSUME NEW b, NEW s, StateSound(s, b), NEW r \in StateRecord, Same(r, s), r.user = s.user,
           r.idle # "blocked" => Leasing(s) = {}
    PROVE  StateSound(r, b)
BY DEF StateSound, CoreSound, LeasesSound, WaitsSound, ScopeSound, BlocksSound, Same, Leasing,
       Resident, Blocked

LEMMA ObserveSound ==
    ASSUME NEW b, NEW s, StateSound(s, b)
    PROVE  /\ StateSound(Observe(s), b) /\ Same(Observe(s), s) /\ Observe(s).user = s.user
<1>1. s \in StateRecord /\ LeasesSound(s)  BY DEF StateSound, CoreSound
<1>2. Observe(s).idle # "blocked" => Leasing(s) = {}
  BY <1>1, ObserveFields, NobodyUses DEF LeasesSound
<1>. QED  BY <1>1, <1>2, ObserveFields, ClockSound

(* A caller without a lease moves.                                         *)
LEMMA CallerSound ==
    ASSUME NEW b, NEW s, StateSound(s, b), NEW u \in Users, NEW r \in StateRecord,
           Same(r, s), r.idle = s.idle,
           \A v \in Users \ {u} : r.user[v] = s.user[v],
           s.user[u].at # "lease", r.user[u].at # "lease",
           r.user[u].at # "none" => r.user[u].key \in Keys,
           r.user[u].at = "unload" => s.unload.at # "none",
           r.user[u].at = "build" => s.build # "none"
    PROVE  StateSound(r, b) /\ Leasing(r) = Leasing(s)
<1>1. Leasing(r) = Leasing(s)  BY DEF Leasing
<1>2. r.runtime.gen <= b  BY DEF StateSound, CoreSound, Same
<1>3. LeasesSound(r)  BY <1>1 DEF StateSound, CoreSound, LeasesSound, Same, Resident, Leasing
<1>4. WaitsSound(r)  BY DEF StateSound, WaitsSound, Same
<1>5. ScopeSound(r) /\ BlocksSound(r)
  BY DEF StateSound, CoreSound, ScopeSound, BlocksSound, Same, Resident, Blocked
<1>. QED  BY <1>1, <1>2, <1>3, <1>4, <1>5 DEF StateSound, CoreSound

LEMMA PlaceSound ==
    ASSUME NEW b, NEW s, StateSound(s, b), NEW u \in Users,
           s.user[u].at \notin {"none", "lease"},
           NEW at, \/ at = "unload" /\ s.unload.at # "none"
                   \/ at = "build" /\ s.build # "none"
    PROVE  StateSound(Place(s, u, at), b)
<1>1. s.user[u].key \in Keys  BY DEF StateSound, WaitsSound
<1>a. s \in StateRecord  BY DEF StateSound, CoreSound
<1>b. at \in UserPlaces  BY DEF UserPlaces
<1> DEFINE r == Place(s, u, at)
<1>2. /\ r \in StateRecord /\ Same(r, s) /\ r.idle = s.idle
      /\ \A v \in Users \ {u} : r.user[v] = s.user[v]
      /\ r.user[u].at = at /\ r.user[u].key = s.user[u].key
  BY <1>a, <1>b, PlaceFields
<1> HIDE DEF r
<1>3. StateSound(r, b)
  <2>1. r.user[u].at # "lease" /\ r.user[u].key \in Keys  BY <1>1, <1>2
  <2>2. /\ r.user[u].at = "unload" => s.unload.at # "none"
        /\ r.user[u].at = "build" => s.build # "none"
    BY <1>2
  <2>. QED  BY <1>2, <2>1, <2>2, CallerSound
<1>. QED  BY <1>3 DEF r

LEMMA LeaveSound ==
    ASSUME NEW b, NEW s, StateSound(s, b), NEW u \in Users, s.user[u].at # "lease"
    PROVE  /\ StateSound(Leave(s, u), b) /\ Same(Leave(s, u), s)
           /\ \A v \in Users \ {u} : Leave(s, u).user[v] = s.user[v]
           /\ Leave(s, u).user[u].at = "none"
<1> DEFINE gone == [s EXCEPT !.user[u] = NoUser]
<1>1. s \in StateRecord  BY DEF StateSound, CoreSound
<1>2. Leave(s, u) \in {gone, Observe(gone)}  BY DEF Leave
<1>3. /\ gone \in StateRecord /\ Same(gone, s) /\ gone.idle = s.idle
      /\ \A v \in Users \ {u} : gone.user[v] = s.user[v]
      /\ gone.user[u].at = "none"
  BY <1>1, LeaveUserFields
<1> HIDE DEF gone
<1>4. StateSound(gone, b)  BY <1>3, CallerSound
<1>5. /\ StateSound(Observe(gone), b) /\ Same(Observe(gone), gone)
      /\ Observe(gone).user = gone.user
  BY <1>4, ObserveSound
<1>6. StateSound(Leave(s, u), b) /\ Same(Leave(s, u), s) /\ Leave(s, u).user = gone.user
  BY <1>2, <1>3, <1>4, <1>5 DEF Same
<1>. QED  BY <1>3, <1>6

LEMMA StartUnloadSound ==
    ASSUME NEW b, NEW s, StateSound(s, b), NEW forced \in BOOLEAN,
           Resident(s) \/ s.scope = "broken"
    PROVE  StateSound(StartUnload(s, forced), b)
<1> DEFINE r == StartUnload(s, forced)
<1>1. s \in StateRecord  BY DEF StateSound, CoreSound
<1>2. /\ r \in StateRecord
      /\ r.runtime = s.runtime /\ r.build = s.build /\ r.scope = s.scope
      /\ r.push = s.push /\ r.idle = s.idle /\ r.user = s.user
      /\ r.unload.at # "none" /\ (s.unload.at # "none" => r = s)
      /\ s.unload.at = "none" => r.unload.at = IF Resident(s) THEN "drain" ELSE "close"
  BY <1>1, StartUnloadFields
<1> HIDE DEF r
<1>3. Resident(r) = Resident(s) /\ Leasing(r) = Leasing(s)  BY <1>2 DEF Resident, Leasing
<1>4. s.build = "none"  BY DEF StateSound, CoreSound, ScopeSound
<1>5. LeasesSound(r)  BY <1>2, <1>3 DEF StateSound, CoreSound, LeasesSound, Leasing
<1>6. WaitsSound(r)  BY <1>2 DEF StateSound, WaitsSound
<1>7. ScopeSound(r)  BY <1>2, <1>3, <1>4 DEF StateSound, CoreSound, ScopeSound
<1>8. BlocksSound(r)
  BY <1>2, <1>3 DEF StateSound, CoreSound, ScopeSound, BlocksSound, Blocked
<1>9. StateSound(r, b)  BY <1>2, <1>5, <1>6, <1>7, <1>8 DEF StateSound, CoreSound
<1>. QED  BY <1>9 DEF r

LEMMA TakeLeaseFields ==
    ASSUME NEW s \in StateRecord, NEW u \in Users
    PROVE  LET r == TakeLease(s, u) IN
           /\ r \in StateRecord
           /\ r.runtime.leases = s.runtime.leases + 1
           /\ r.runtime.gen = s.runtime.gen /\ r.runtime.key = s.runtime.key
           /\ r.runtime.closing = s.runtime.closing /\ r.runtime.open = s.runtime.open
           /\ r.build = s.build /\ r.scope = s.scope /\ r.unload = s.unload
           /\ r.push = s.push /\ r.idle = "blocked"
           /\ \A v \in Users \ {u} : r.user[v] = s.user[v]
           /\ r.user[u].at = "lease" /\ r.user[u].gen = s.runtime.gen
           /\ r.user[u].key = s.user[u].key
<1> DEFINE e == [s.user[u] EXCEPT !.at = "lease", !.gen = s.runtime.gen]
           us == [s.user EXCEPT ![u] = e]
           x == [s.runtime EXCEPT !.leases = @ + 1]
<1>1. s.user \in [Users -> UserRecord] /\ s.runtime \in RuntimeRecord  BY DEF StateRecord
<1>2. s.user[u] \in UserRecord /\ s.runtime.gen \in Nat  BY <1>1 DEF RuntimeRecord
<1>3. /\ e \in UserRecord /\ e.at = "lease" /\ e.gen = s.runtime.gen /\ e.key = s.user[u].key
  BY <1>2 DEF UserRecord, UserPlaces
<1>4. /\ x \in RuntimeRecord /\ x.leases = s.runtime.leases + 1
      /\ x.gen = s.runtime.gen /\ x.key = s.runtime.key
      /\ x.closing = s.runtime.closing /\ x.open = s.runtime.open
  BY <1>1 DEF RuntimeRecord
<1>5. TakeLease(s, u) = [s EXCEPT !.user = us, !.runtime = x, !.idle = "blocked"]
  BY <1>1 DEF TakeLease, StateRecord
<1> HIDE DEF e, x
<1>6. us \in [Users -> UserRecord] /\ us[u] = e /\ \A v \in Users \ {u} : us[v] = s.user[v]
  BY <1>1, <1>3
<1> HIDE DEF us
<1>7. LET r == [s EXCEPT !.user = us, !.runtime = x, !.idle = "blocked"] IN
      /\ r \in StateRecord /\ r.user = us /\ r.runtime = x /\ r.idle = "blocked"
      /\ r.build = s.build /\ r.scope = s.scope /\ r.unload = s.unload /\ r.push = s.push
  BY <1>4, <1>6 DEF StateRecord
<1>. QED  BY <1>3, <1>4, <1>5, <1>6, <1>7

LEMMA TakeLeaseSound ==
    ASSUME NEW b, NEW s, StateSound(s, b), NEW u \in Users, s.user[u].at = "retry",
           Usable(s, u), Resident(s)
    PROVE  StateSound(TakeLease(s, u), b)
<1> DEFINE r == TakeLease(s, u)
<1>1. s \in StateRecord /\ s.runtime.leases \in Nat /\ s.runtime.gen \in Nat
  BY DEF StateSound, CoreSound, StateRecord, RuntimeRecord
<1>2. /\ r \in StateRecord
      /\ r.runtime.leases = s.runtime.leases + 1
      /\ r.runtime.gen = s.runtime.gen /\ r.runtime.key = s.runtime.key
      /\ r.runtime.closing = s.runtime.closing /\ r.runtime.open = s.runtime.open
      /\ r.build = s.build /\ r.scope = s.scope /\ r.unload = s.unload
      /\ r.push = s.push /\ r.idle = "blocked"
      /\ \A v \in Users \ {u} : r.user[v] = s.user[v]
      /\ r.user[u].at = "lease" /\ r.user[u].gen = s.runtime.gen
      /\ r.user[u].key = s.user[u].key
  BY <1>1, TakeLeaseFields
<1> HIDE DEF r
<1>3. Leasing(r) = Leasing(s) \cup {u} /\ u \notin Leasing(s)  BY <1>2 DEF Leasing
<1>4. Cardinality(Leasing(r)) = Cardinality(Leasing(s)) + 1
  BY <1>3, LeasingFinite, FS_AddElement
<1>5. Resident(r)  BY <1>2 DEF Resident
<1>6. ASSUME NEW v \in Leasing(r)
      PROVE  /\ r.runtime.gen = r.user[v].gen /\ r.runtime.key = r.user[v].key
             /\ r.runtime.open /\ ~r.runtime.closing
  <2>1. CASE v = u  BY <1>2, <2>1 DEF Usable
  <2>2. CASE v \in Leasing(s) /\ v # u
    BY <1>2, <2>2 DEF StateSound, CoreSound, LeasesSound, Leasing
  <2>. QED  BY <1>3, <2>1, <2>2
<1>7. LeasesSound(r)
  <2>1. r.runtime.leases = Cardinality(Leasing(r))
    BY <1>2, <1>4 DEF StateSound, CoreSound, LeasesSound
  <2>. QED  BY <1>2, <1>5, <1>6, <2>1 DEF LeasesSound
<1>8. WaitsSound(r)  BY <1>2 DEF StateSound, WaitsSound
<1>9. ScopeSound(r) /\ BlocksSound(r)
  BY <1>2, <1>5 DEF StateSound, CoreSound, ScopeSound, BlocksSound, Blocked, Resident
<1>10. r.runtime.gen <= b  BY <1>2 DEF StateSound, CoreSound
<1>11. StateSound(r, b)  BY <1>2, <1>7, <1>8, <1>9, <1>10 DEF StateSound, CoreSound
<1>. QED  BY <1>11 DEF r

(* The first caller of a cold Thread starts the builder.                   *)
LEMMA StartBuildSound ==
    ASSUME NEW b, NEW s, StateSound(s, b), NEW k \in Keys,
           ~Resident(s), s.unload.at = "none", s.build = "none", s.scope = "none"
    PROVE  LET r == [s EXCEPT !.build = k, !.scope = "open"] IN
           StateSound(r, b) /\ r.user = s.user /\ r.build # "none" /\ r.runtime = s.runtime
<1> DEFINE r == [s EXCEPT !.build = k, !.scope = "open"]
<1>1. s \in StateRecord  BY DEF StateSound, CoreSound
<1>2. /\ r \in StateRecord /\ r.build = k /\ r.scope = "open"
      /\ r.runtime = s.runtime /\ r.unload = s.unload /\ r.push = s.push
      /\ r.idle = s.idle /\ r.user = s.user /\ k # "none"
  BY <1>1, KeysAssumption DEF StateRecord
<1> HIDE DEF r
<1>3. Leasing(r) = Leasing(s) /\ ~Resident(r)  BY <1>2 DEF Leasing, Resident
<1>4. LeasesSound(r)
  BY <1>2, <1>3 DEF StateSound, CoreSound, LeasesSound, Resident, Leasing
<1>5. WaitsSound(r)  BY <1>2 DEF StateSound, WaitsSound
<1>6. ScopeSound(r) /\ BlocksSound(r)
  BY <1>2, <1>3 DEF StateSound, CoreSound, ScopeSound, BlocksSound, Blocked
<1>7. StateSound(r, b)  BY <1>2, <1>4, <1>5, <1>6 DEF StateSound, CoreSound
<1>. QED  BY <1>2, <1>7 DEF r

LEMMA TrySound ==
    ASSUME NEW b, NEW s, StateSound(s, b), NEW u \in Users, s.user[u].at = "retry"
    PROVE  /\ StateSound(Try(s, u), b)
           /\ Resident(Try(s, u)) <=> Resident(s)
           /\ closing => Same(Try(s, u), s)
<1>1. s \in StateRecord /\ s.user[u].key \in Keys
  BY DEF StateSound, CoreSound, WaitsSound
<1>2. CASE closing
  <2>1. Try(s, u) = Leave(s, u)  BY <1>2 DEF Try
  <2>. QED  BY <2>1, LeaveSound DEF Same, Resident
<1>3. CASE ~closing /\ s.unload.at # "none"
  <2>1. Try(s, u) = Place(s, u, "unload")  BY <1>3 DEF Try
  <2>2. Same(Place(s, u, "unload"), s)  BY <1>1, PlaceFields DEF UserPlaces
  <2>. QED  BY <1>3, <2>1, <2>2, PlaceSound DEF Same, Resident
<1>4. CASE ~closing /\ s.unload.at = "none" /\ Resident(s)
  <2>1. CASE Usable(s, u)
    <3>1. Try(s, u) = TakeLease(s, u)  BY <1>4, <2>1 DEF Try
    <3>2. TakeLease(s, u).runtime.gen = s.runtime.gen  BY <1>1, TakeLeaseFields
    <3>. QED  BY <1>4, <2>1, <3>1, <3>2, TakeLeaseSound DEF Resident
  <2>2. CASE ~Usable(s, u)
    <3> DEFINE r == StartUnload(s, FALSE)
    <3>1. Try(s, u) = Place(r, u, "unload")  BY <1>4, <2>2 DEF Try
    <3>2. StateSound(r, b)  BY <1>4, StartUnloadSound
    <3>3. r \in StateRecord /\ r.unload.at # "none" /\ r.user = s.user /\ r.runtime = s.runtime
      BY <1>1, StartUnloadFields
    <3> HIDE DEF r
    <3>4. StateSound(Place(r, u, "unload"), b)  BY <3>2, <3>3, PlaceSound
    <3>5. Same(Place(r, u, "unload"), r)  BY <3>3, PlaceFields DEF UserPlaces
    <3>. QED  BY <1>4, <3>1, <3>3, <3>4, <3>5 DEF Same, Resident
  <2>. QED  BY <2>1, <2>2
<1>5. CASE ~closing /\ s.unload.at = "none" /\ ~Resident(s)
  <2>1. CASE s.build # "none"
    <3>1. Try(s, u) = Place(s, u, "build")  BY <1>5, <2>1 DEF Try
    <3>2. Same(Place(s, u, "build"), s)  BY <1>1, PlaceFields DEF UserPlaces
    <3>. QED  BY <1>5, <2>1, <3>1, <3>2, PlaceSound DEF Same, Resident
  <2>2. CASE s.build = "none" /\ s.scope # "none"
    <3> DEFINE r == StartUnload(s, FALSE)
    <3>1. Try(s, u) = Place(r, u, "unload")  BY <1>5, <2>2 DEF Try
    <3>2. s.scope = "broken"
      BY <1>1, <2>2 DEF StateSound, CoreSound, ScopeSound, StateRecord
    <3>3. StateSound(r, b)  BY <3>2, StartUnloadSound
    <3>4. r \in StateRecord /\ r.unload.at # "none" /\ r.user = s.user /\ r.runtime = s.runtime
      BY <1>1, StartUnloadFields
    <3> HIDE DEF r
    <3>5. StateSound(Place(r, u, "unload"), b)  BY <3>3, <3>4, PlaceSound
    <3>6. Same(Place(r, u, "unload"), r)  BY <3>4, PlaceFields DEF UserPlaces
    <3>. QED  BY <1>5, <3>1, <3>4, <3>5, <3>6 DEF Same, Resident
  <2>3. CASE s.build = "none" /\ s.scope = "none"
    <3> DEFINE r == [s EXCEPT !.build = s.user[u].key, !.scope = "open"]
    <3>1. Try(s, u) = Place(r, u, "build")  BY <1>5, <2>3 DEF Try
    <3>2. StateSound(r, b) /\ r.user = s.user /\ r.build # "none" /\ r.runtime = s.runtime
      BY <1>1, <1>5, <2>3, StartBuildSound
    <3> HIDE DEF r
    <3>3. StateSound(Place(r, u, "build"), b)  BY <3>2, PlaceSound
    <3>4. r \in StateRecord  BY <3>2 DEF StateSound, CoreSound
    <3>5. Same(Place(r, u, "build"), r)  BY <3>4, PlaceFields DEF UserPlaces
    <3>. QED  BY <1>5, <3>1, <3>2, <3>3, <3>5 DEF Same, Resident
  <2>. QED  BY <2>1, <2>2, <2>3
<1>. QED  BY <1>2, <1>3, <1>4, <1>5

-----------------------------------------------------------------------------
(* The end of a task, and what is left of the state *)

(* Nobody but those who wait for the task that ends waits for nothing.     *)
WaitsBut(s, place) ==
    \A u \in Users :
        /\ s.user[u].at # "none" => s.user[u].key \in Keys
        /\ s.user[u].at = "unload" /\ place # "unload" => s.unload.at # "none"
        /\ s.user[u].at = "build" /\ place # "build" => s.build # "none"

LEMMA WakeSound ==
    ASSUME NEW b, NEW s, CoreSound(s, b), NEW place \in {"unload", "build"},
           WaitsBut(s, place), NEW ok \in BOOLEAN
    PROVE  StateSound(WakeUsers(s, place, ok), b)
<1> DEFINE r == WakeUsers(s, place, ok)
<1>1. s \in StateRecord  BY DEF CoreSound
<1>2. /\ r \in StateRecord /\ Same(r, s) /\ r.idle = s.idle
      /\ \A v \in Users :
           /\ s.user[v].at # place => r.user[v] = s.user[v]
           /\ s.user[v].at = place => /\ r.user[v].at = IF ok THEN "retry" ELSE "fail"
                                      /\ r.user[v].key = s.user[v].key
  BY <1>1, WakeFields
<1> HIDE DEF r
<1>3. \A v \in Users : r.user[v].at = "lease" \/ s.user[v].at = "lease" => r.user[v] = s.user[v]
  BY <1>2
<1>4. Leasing(r) = Leasing(s)  BY <1>3 DEF Leasing
<1>5. LeasesSound(r)
  BY <1>2, <1>3, <1>4 DEF CoreSound, LeasesSound, Same, Resident, Leasing
<1>6. WaitsSound(r)  BY <1>2 DEF WaitsBut, WaitsSound, Same
<1>7. ScopeSound(r) /\ BlocksSound(r) /\ r.runtime.gen <= b
  BY <1>2 DEF CoreSound, ScopeSound, BlocksSound, Blocked, Same, Resident
<1>8. StateSound(r, b)  BY <1>2, <1>5, <1>6, <1>7 DEF StateSound, CoreSound
<1>. QED  BY <1>8 DEF r

LEMMA NewStateSound ==
    ASSUME NEW b \in Nat
    PROVE  /\ StateSound(NewState, b) /\ Empty(NewState) /\ ~Resident(NewState)
           /\ \A u \in Users : NewState.user[u].at = "none"
<1>1. NoUser \in UserRecord /\ NoUser.at = "none"  BY DEF NoUser, UserRecord, UserPlaces
<1>2. NoRuntime \in RuntimeRecord /\ NoUnload \in UnloadRecord
  BY DEF NoRuntime, RuntimeRecord, NoUnload, UnloadRecord
<1>3. /\ NewState.user \in [Users -> UserRecord]
      /\ \A u \in Users : NewState.user[u].at = "none"
  BY <1>1 DEF NewState
<1>4. NewState \in StateRecord  BY <1>2, <1>3 DEF NewState, StateRecord
<1>5. ~Resident(NewState) /\ NewState.runtime.gen <= b /\ NewState.runtime.leases = 0
  BY DEF Resident, NewState, NoRuntime
<1>6. Leasing(NewState) = {} /\ Pending(NewState) = {}  BY <1>3 DEF Leasing, Pending
<1>7. LeasesSound(NewState)  BY <1>5, <1>6, FS_EmptySet DEF LeasesSound
<1>8. WaitsSound(NewState)  BY <1>3 DEF WaitsSound
<1>9. ScopeSound(NewState) /\ BlocksSound(NewState) /\ Gone(NewState)
      /\ NewState.unload.at = "none"
  BY <1>5 DEF ScopeSound, BlocksSound, Gone, NewState, NoRuntime, NoUnload
<1>. QED
  BY <1>3, <1>4, <1>5, <1>6, <1>7, <1>8, <1>9 DEF StateSound, CoreSound, Empty

LEMMA ColdIsEmpty ==
    ASSUME NEW s, Cold(s) PROVE Empty(s)
BY DEF Cold, Empty, Gone

(* The invariant of the next state, from a state that may be forgotten.    *)
LEMMA BecomesSound ==
    ASSUME built' \in 0..MaxBuilds, NEW s, StateSound(s, built'),
           NEW cl, ClosersSound(s, cl), Becomes(s, cl),
           pull \in BOOLEAN, closing \in BOOLEAN, fenced \in BOOLEAN,
           UNCHANGED <<pull, closing, fenced>>
    PROVE  RInv'
<1>1. built' \in Nat  BY BoundAssumption
<1>2. StateSound(st', built')
  <2>1. CASE Cold(s)  BY <1>1, <2>1, NewStateSound DEF Becomes
  <2>2. CASE ~Cold(s)  BY <2>2 DEF Becomes
  <2>. QED  BY <2>1, <2>2
<1>3. /\ closer' \in [Closers -> CloserRecord]
      /\ \A c \in Closers : /\ closer'[c].at = cl[c].at /\ closer'[c].err = cl[c].err
                            /\ closer'[c].own = (cl[c].own /\ ~Cold(s))
  <2> DEFINE x == [c \in Closers |-> [cl[c] EXCEPT !.own = @ /\ ~Cold(s)]]
  <2>1. closer' = x  BY DEF Becomes
  <2>2. ASSUME NEW c \in Closers
        PROVE  /\ x[c] \in CloserRecord /\ x[c].at = cl[c].at /\ x[c].err = cl[c].err
               /\ x[c].own = (cl[c].own /\ ~Cold(s))
    <3>1. cl[c] \in CloserRecord  BY DEF ClosersSound
    <3>2. Cold(s) \in BOOLEAN  BY DEF Cold
    <3>. QED  BY <3>1, <3>2 DEF CloserRecord
  <2>. QED  BY <2>1, <2>2
<1>4. ClosersSound(st', closer')
  <2>1. CASE Cold(s)
    <3>1. Empty(st') /\ ~Resident(st') /\ \A u \in Users : st'.user[u].at = "none"
      BY <1>1, <2>1, NewStateSound DEF Becomes
    <3>2. Gone(st') /\ st'.build = "none"  BY <3>1 DEF Empty, Gone
    <3>3. \A c \in Closers : ~closer'[c].own  BY <1>3, <2>1
    <3>4. "session" \in Closers /\ "process" \in Closers  BY DEF Closers
    <3>5. /\ cl["session"].at # "idle" => fenced
          /\ cl["process"].at # "idle" => closing
      BY DEF ClosersSound
    <3>. QED  BY <1>3, <3>1, <3>2, <3>3, <3>4, <3>5 DEF ClosersSound
  <2>2. CASE ~Cold(s)
    <3>1. st' = s  BY <2>2 DEF Becomes
    <3>2. \A c \in Closers : closer'[c].own = cl[c].own
      <4>. SUFFICES ASSUME NEW c \in Closers PROVE closer'[c].own = cl[c].own  OBVIOUS
      <4>1. cl[c].own \in BOOLEAN  BY DEF ClosersSound, CloserRecord
      <4>. QED  BY <1>3, <2>2, <4>1
    <3>3. "session" \in Closers /\ "process" \in Closers  BY DEF Closers
    <3>. QED  BY <1>3, <3>1, <3>2, <3>3 DEF ClosersSound
  <2>. QED  BY <2>1, <2>2
<1>5. StateSound(st, built)' /\ ClosersSound(st, closer)'
  BY <1>2, <1>4 DEF StateSound, CoreSound, WaitsSound, LeasesSound, ScopeSound, BlocksSound,
     Blocked, Leasing, Resident, ClosersSound, Empty, Gone, Pending
<1>. QED  BY <1>5 DEF RInv

-----------------------------------------------------------------------------
(* Closers *)

(* A step that nobody waited for.                                          *)
LEMMA ClosersKept ==
    ASSUME ClosersSound(st, closer), NEW s,
           Empty(st) => Empty(s), closing /\ Gone(st) => Gone(s),
           \/ \A c \in Closers : closer[c].at # "built"
           \/ Resident(s)
           \/ /\ ~Resident(st) /\ (st.build = "none" => s.build = "none")
              /\ \A u \in Users : s.user[u].at \in {"retry", "unload", "build"} =>
                                    st.user[u].at \in {"retry", "unload", "build"}
    PROVE  ClosersSound(s, closer)
BY DEF ClosersSound

(* Before the first close everything is allowed.                           *)
LEMMA ClosersIdle ==
    ASSUME ClosersSound(st, closer), NEW s, ~closing, ~fenced
    PROVE  ClosersSound(s, closer)
<1>1. \A c \in Closers : closer[c].at = "idle"  BY DEF ClosersSound, Closers
<1>. QED  BY <1>1 DEF ClosersSound, Closers

(* Those who wait for a task hear of its end.                              *)
LEMMA ClosersWoken ==
    ASSUME ClosersSound(st, closer), ~Gone(st), NEW s, NEW place \in {"unload", "build"},
           NEW to \in {"built", "over"}, NEW ok \in BOOLEAN,
           to = "over" /\ ok => Gone(s),
           \/ Resident(s)
           \/ to = "over" /\ \A c \in Closers : closer[c].at # "built"
           \/ /\ s.build = "none"
              /\ \A u \in Users : s.user[u].at \notin {"retry", "unload", "build"}
    PROVE  ClosersSound(s, WakeClosers(place, to, ok))
<1> DEFINE cl == WakeClosers(place, to, ok)
<1>1. \A c \in Closers : closer[c] \in CloserRecord  BY DEF ClosersSound
<1>2. ASSUME NEW c \in Closers
      PROVE  /\ cl[c] \in CloserRecord /\ cl[c].own = closer[c].own
             /\ closer[c].at # place => cl[c] = closer[c]
             /\ closer[c].at = place => cl[c].at = to /\ cl[c].err = (closer[c].err \/ ~ok)
  BY <1>1 DEF CloserRecord, WakeClosers
<1>3. cl \in [Closers -> CloserRecord]
  <2>1. cl = [c \in Closers |-> cl[c]]  BY DEF WakeClosers
  <2> HIDE DEF cl
  <2>. QED  BY <1>2, <2>1
<1> HIDE DEF cl
<1>4. \A c \in Closers : closer[c].err \in BOOLEAN /\ closer[c].own \in BOOLEAN
  BY <1>1 DEF CloserRecord
<1>5. "session" \in Closers /\ "process" \in Closers  BY DEF Closers
<1>6. \A c \in Closers :
        /\ cl[c].at = "done" => ~cl[c].own
        /\ cl[c].at = "built" /\ ~Resident(s) =>
             /\ s.build = "none"
             /\ \A u \in Users : s.user[u].at \notin {"retry", "unload", "build"}
  <2>. SUFFICES ASSUME NEW c \in Closers
       PROVE  /\ cl[c].at = "done" => ~cl[c].own
              /\ cl[c].at = "built" /\ ~Resident(s) =>
                   /\ s.build = "none"
                   /\ \A u \in Users : s.user[u].at \notin {"retry", "unload", "build"}
    OBVIOUS
  <2>1. cl[c].at = "done" => ~cl[c].own  BY <1>2 DEF ClosersSound
  <2>2. ASSUME cl[c].at = "built", ~Resident(s)
        PROVE  /\ s.build = "none"
               /\ \A u \in Users : s.user[u].at \notin {"retry", "unload", "build"}
    <3>1. CASE to = "over" /\ \A d \in Closers : closer[d].at # "built"
      BY <1>2, <2>2, <3>1
    <3>. QED  BY <2>2, <3>1
  <2>. QED  BY <2>1, <2>2
<1>7. cl["session"].at # "idle" => fenced /\ cl["session"].own
  BY <1>2, <1>5 DEF ClosersSound, Empty
<1>8. cl["process"].at # "idle" =>
        /\ closing /\ cl["process"].own
        /\ cl["process"].at = "over" /\ ~cl["process"].err => Gone(s)
  <2>1. CASE closer["process"].at = place
    BY <1>2, <1>4, <1>5, <2>1 DEF ClosersSound
  <2>2. CASE closer["process"].at # place
    BY <1>2, <1>5, <2>2 DEF ClosersSound
  <2>. QED  BY <2>1, <2>2
<1>9. ClosersSound(s, cl)  BY <1>3, <1>6, <1>7, <1>8 DEF ClosersSound
<1>. QED  BY <1>9 DEF cl

-----------------------------------------------------------------------------
(* Executions *)

LEMMA AcquireKeeps ==
    ASSUME RInv, NEW u \in Users, NEW k \in Keys, Acquire(u, k)
    PROVE  RInv'
<1> DEFINE e == [at |-> "retry", key |-> k, gen |-> 0]
           s == [st EXCEPT !.user[u] = e]
           us == [st.user EXCEPT ![u] = e]
<1>1. st \in StateRecord  BY DEF RInv, StateSound, CoreSound
<1>2. e \in UserRecord /\ e.at = "retry" /\ e.key = k  BY DEF UserRecord, UserPlaces
<1>3. st.user \in [Users -> UserRecord]  BY <1>1 DEF StateRecord
<1> HIDE DEF e
<1>4. us \in [Users -> UserRecord] /\ us[u] = e /\ \A v \in Users \ {u} : us[v] = st.user[v]
  BY <1>2, <1>3
<1>5. s = [st EXCEPT !.user = us]  OBVIOUS
<1> HIDE DEF us
<1>6. s \in StateRecord /\ Same(s, st) /\ s.idle = st.idle /\ s.user = us
  BY <1>1, <1>4, <1>5 DEF StateRecord, Same
<1>7. Becomes(Try(s, u), closer)  BY DEF Acquire, e
<1> HIDE DEF s
<1>8. StateSound(s, built)
  <2>1. s.user[u].at = "retry" /\ s.user[u].key \in Keys  BY <1>2, <1>4, <1>6
  <2>2. \A v \in Users \ {u} : s.user[v] = st.user[v]  BY <1>4, <1>6
  <2>3. StateSound(st, built) /\ st.user[u].at # "lease"  BY DEF RInv, Acquire
  <2>. QED  BY <1>6, <2>1, <2>2, <2>3, CallerSound
<1>9. StateSound(Try(s, u), built)  BY <1>2, <1>4, <1>6, <1>8, TrySound
<1>10. ClosersSound(Try(s, u), closer)  BY ClosersIdle DEF RInv, Acquire
<1>11. built' = built /\ UNCHANGED <<pull, closing, fenced>>  BY DEF Acquire
<1>. QED  BY <1>7, <1>9, <1>10, <1>11, BecomesSound DEF RInv

LEMMA ResumeKeeps ==
    ASSUME RInv, NEW u \in Users, Resume(u)
    PROVE  RInv'
<1>1. Becomes(Try(st, u), closer) /\ st.user[u].at = "retry"  BY DEF Resume
<1>2. built' = built /\ UNCHANGED <<pull, closing, fenced>>  BY DEF Resume
<1>3. /\ StateSound(Try(st, u), built) /\ (Resident(Try(st, u)) <=> Resident(st))
      /\ closing => Same(Try(st, u), st)
  BY <1>1, TrySound DEF RInv
<1>4. u \in Pending(st)  BY <1>1 DEF Pending
<1>5. ~Empty(st)  BY <1>4 DEF Empty
<1>6. closing /\ Gone(st) => Gone(Try(st, u))  BY <1>3 DEF Gone, Same, Resident
<1>7. (\A c \in Closers : closer[c].at # "built") \/ Resident(st)
  BY <1>1 DEF RInv, ClosersSound
<1>8. ClosersSound(Try(st, u), closer)
  BY <1>3, <1>5, <1>6, <1>7, ClosersKept DEF RInv
<1>. QED  BY <1>1, <1>2, <1>3, <1>8, BecomesSound DEF RInv

LEMMA AcquireFailsKeeps ==
    ASSUME RInv, NEW u \in Users, AcquireFails(u)
    PROVE  RInv'
<1> DEFINE s == Leave(st, u)
<1>1. Becomes(s, closer) /\ st.user[u].at \in {"unload", "build", "fail"}
  BY DEF AcquireFails
<1>2. built' = built /\ UNCHANGED <<pull, closing, fenced>>  BY DEF AcquireFails
<1>3. StateSound(st, built) /\ st \in StateRecord  BY DEF RInv, StateSound, CoreSound
<1>4. /\ StateSound(s, built) /\ Same(s, st)
      /\ \A v \in Users \ {u} : s.user[v] = st.user[v]
      /\ s.user[u].at = "none"
  BY <1>1, <1>3, LeaveSound
<1> HIDE DEF s
<1>6. u \in Pending(st)  BY <1>1 DEF Pending
<1>7. ~Empty(st)  BY <1>6 DEF Empty
<1>8. (Gone(st) => Gone(s)) /\ (Resident(s) <=> Resident(st)) /\ s.build = st.build
  BY <1>4 DEF Gone, Same, Resident
<1>9. \A v \in Users : s.user[v].at \in {"retry", "unload", "build"} =>
                         st.user[v].at \in {"retry", "unload", "build"}
  BY <1>4
<1>10. ClosersSound(s, closer)  BY <1>7, <1>8, <1>9, ClosersKept DEF RInv
<1>. QED  BY <1>1, <1>2, <1>4, <1>10, BecomesSound DEF RInv

LEMMA ReleaseKeeps ==
    ASSUME RInv, NEW u \in Users, Release(u)
    PROVE  RInv'
<1> DEFINE us == [st.user EXCEPT ![u] = NoUser]
           x == [st.runtime EXCEPT !.leases = @ - 1]
           gone == [st EXCEPT !.user[u] = NoUser, !.runtime.leases = @ - 1]
           free == [gone EXCEPT !.idle = "blocked"]
           s == IF HasUsers(gone) THEN gone ELSE Observe(free)
<1>1. Becomes(s, closer) /\ st.user[u].at = "lease"  BY DEF Release
<1>2. built' = built /\ UNCHANGED <<pull, closing, fenced>>  BY DEF Release
<1>3. StateSound(st, built) /\ st \in StateRecord /\ LeasesSound(st)
  BY DEF RInv, StateSound, CoreSound
<1>4. st.user \in [Users -> UserRecord] /\ st.runtime \in RuntimeRecord  BY <1>3 DEF StateRecord
<1>5. u \in Leasing(st)  BY <1>1 DEF Leasing
<1>6. Resident(st) /\ st.idle = "blocked"  BY <1>3, <1>5 DEF LeasesSound
<1>7. /\ Cardinality(Leasing(st) \ {u}) = Cardinality(Leasing(st)) - 1
      /\ Cardinality(Leasing(st) \ {u}) \in Nat
  <2>1. IsFiniteSet(Leasing(st) \ {u})  BY LeasingFinite, FS_Subset
  <2>. QED  BY <1>5, <2>1, LeasingFinite, FS_RemoveElement, FS_CardinalityType
<1>8. NoUser \in UserRecord /\ NoUser.at = "none"  BY DEF NoUser, UserRecord, UserPlaces
<1>9. us \in [Users -> UserRecord] /\ us[u] = NoUser /\ \A v \in Users \ {u} : us[v] = st.user[v]
  BY <1>4, <1>8
<1>10. /\ x \in RuntimeRecord /\ x.leases = st.runtime.leases - 1
       /\ x.gen = st.runtime.gen /\ x.key = st.runtime.key
       /\ x.closing = st.runtime.closing /\ x.open = st.runtime.open
  <2>1. st.runtime.leases - 1 \in Nat  BY <1>3, <1>7 DEF LeasesSound
  <2>. QED  BY <1>4, <2>1 DEF RuntimeRecord
<1>11. gone = [st EXCEPT !.user = us, !.runtime = x]  BY <1>3, <1>4 DEF StateRecord
<1>12. s \in {gone, Observe(free)}  OBVIOUS
<1> HIDE DEF s, us, x, gone
<1>13. /\ gone \in StateRecord /\ gone.user = us /\ gone.runtime = x /\ gone.idle = st.idle
       /\ gone.build = st.build /\ gone.scope = st.scope
       /\ gone.unload = st.unload /\ gone.push = st.push
  BY <1>3, <1>9, <1>10, <1>11 DEF StateRecord
<1>14. Leasing(gone) = Leasing(st) \ {u} /\ Resident(gone)
  BY <1>6, <1>8, <1>9, <1>10, <1>13 DEF Leasing, Resident
<1>15. StateSound(gone, built)
  <2>1. gone.runtime.leases = Cardinality(Leasing(gone))
    BY <1>3, <1>7, <1>10, <1>13, <1>14 DEF LeasesSound
  <2>2. \A v \in Leasing(gone) : v \in Leasing(st) /\ gone.user[v] = st.user[v]
    BY <1>9, <1>13, <1>14 DEF Leasing
  <2>3. LeasesSound(gone)
    BY <1>3, <1>6, <1>10, <1>13, <1>14, <2>1, <2>2 DEF LeasesSound
  <2>4. WaitsSound(gone)
    BY <1>3, <1>8, <1>9, <1>13 DEF StateSound, WaitsSound
  <2>5. ScopeSound(gone) /\ BlocksSound(gone) /\ gone.runtime.gen <= built
    BY <1>3, <1>6, <1>10, <1>13, <1>14
       DEF StateSound, CoreSound, ScopeSound, BlocksSound, Blocked
  <2>. QED  BY <1>13, <2>3, <2>4, <2>5 DEF StateSound, CoreSound
<1>16. free \in StateRecord /\ Same(free, gone) /\ free.user = gone.user /\ free.idle = "blocked"
  BY <1>13 DEF StateRecord, Same
<1> HIDE DEF free
<1>17. StateSound(free, built)  BY <1>15, <1>16, ClockSound
<1>18. StateSound(Observe(free), built) /\ Same(Observe(free), free)
  BY <1>17, ObserveSound
<1>19. StateSound(s, built) /\ Resident(s)
  BY <1>12, <1>14, <1>15, <1>16, <1>18 DEF Same, Resident
<1>20. ClosersSound(s, closer)
  BY <1>6, <1>19, ClosersKept DEF RInv, Empty, Gone
<1>. QED  BY <1>1, <1>2, <1>19, <1>20, BecomesSound DEF RInv

-----------------------------------------------------------------------------
(* The builder *)

(* Nobody holds a lease on a runtime that does not exist.                  *)
LEMMA NotResident ==
    ASSUME NEW s, LeasesSound(s), ~Resident(s)
    PROVE  Leasing(s) = {} /\ s.runtime.leases = 0
BY FS_EmptySet DEF LeasesSound

LEMMA BuildSucceedsKeeps ==
    ASSUME RInv, BuildSucceeds
    PROVE  RInv'
<1> DEFINE b == built + 1
           x == [NoRuntime EXCEPT !.gen = b, !.key = st.build]
           s == [st EXCEPT !.runtime = x, !.build = "none", !.scope = "none", !.idle = "blocked"]
           t == IF Pending(s) = {} THEN Observe(s) ELSE s
           r == WakeUsers(t, "build", TRUE)
           cl == WakeClosers("build", "built", TRUE)
<1>1. /\ st.build # "none" /\ built' = b /\ Becomes(r, cl)
      /\ UNCHANGED <<pull, closing, fenced>>
  BY DEF BuildSucceeds
<1>2. StateSound(st, built) /\ st \in StateRecord /\ LeasesSound(st) /\ ScopeSound(st)
  BY DEF RInv, StateSound, CoreSound
<1>3. b \in 0..MaxBuilds /\ b \in Nat /\ b > 0
  BY BoundAssumption DEF RInv, BuildSucceeds
<1>4. ~Resident(st) /\ st.unload.at = "none"  BY <1>1, <1>2 DEF ScopeSound
<1>5. Leasing(st) = {}  BY <1>2, <1>4, NotResident
<1>6. x \in RuntimeRecord /\ x.gen = b /\ x.leases = 0 /\ ~x.closing /\ x.open
  BY <1>2, <1>3 DEF NoRuntime, RuntimeRecord, StateRecord
<1> HIDE DEF x
<1>7. /\ s \in StateRecord /\ s.runtime = x /\ s.build = "none" /\ s.scope = "none"
      /\ s.unload = st.unload /\ s.user = st.user
  BY <1>2, <1>6 DEF StateRecord
<1>8. t \in {s, Observe(s)}  OBVIOUS
<1> HIDE DEF s, t, r, cl, b
<1>9. t \in StateRecord /\ Same(t, s) /\ t.user = s.user
  BY <1>7, <1>8, ObserveFields DEF Same
<1>10. Leasing(t) = {} /\ Resident(t)
  BY <1>3, <1>5, <1>6, <1>7, <1>9 DEF Leasing, Resident, Same
<1>11. CoreSound(t, b)
  <2>1. LeasesSound(t)
    BY <1>6, <1>7, <1>9, <1>10, FS_EmptySet DEF LeasesSound, Same
  <2>2. ScopeSound(t) /\ BlocksSound(t)
    BY <1>4, <1>6, <1>7, <1>9, <1>10 DEF ScopeSound, BlocksSound, Same
  <2>3. t.runtime.gen <= b  BY <1>3, <1>6, <1>7, <1>9 DEF Same
  <2>. QED  BY <1>9, <2>1, <2>2, <2>3 DEF CoreSound
<1>12. WaitsBut(t, "build")
  BY <1>2, <1>4, <1>7, <1>9 DEF StateSound, WaitsSound, WaitsBut
<1>13. StateSound(r, b)  BY <1>11, <1>12, WakeSound DEF r
<1>14. Same(r, t)  BY <1>9, WakeFields DEF r
<1>15. Resident(r)  BY <1>10, <1>14 DEF Same, Resident
<1>16. ~Gone(st)  BY <1>1 DEF Gone
<1>17. ClosersSound(r, cl)  BY <1>15, <1>16, ClosersWoken DEF RInv, cl
<1>. QED  BY <1>1, <1>3, <1>13, <1>17, BecomesSound DEF RInv

LEMMA BuildFailsKeeps ==
    ASSUME RInv, BuildFails
    PROVE  RInv'
<1> DEFINE Left(left) == [st EXCEPT !.build = "none", !.scope = left]
           cl == WakeClosers("build", "built", FALSE)
<1>1. PICK left \in {"none", "broken"} : Becomes(WakeUsers(Left(left), "build", FALSE), cl)
  BY DEF BuildFails
<1>2. /\ st.build # "none" /\ AllResumed /\ built' = built
      /\ UNCHANGED <<pull, closing, fenced>>
  BY DEF BuildFails
<1> DEFINE s == Left(left)
           r == WakeUsers(s, "build", FALSE)
<1>3. StateSound(st, built) /\ st \in StateRecord /\ LeasesSound(st) /\ ScopeSound(st)
      /\ BlocksSound(st) /\ st.runtime.gen <= built
  BY DEF RInv, StateSound, CoreSound
<1>4. ~Resident(st) /\ st.unload.at = "none"  BY <1>2, <1>3 DEF ScopeSound
<1>5. Leasing(st) = {} /\ st.runtime.leases = 0  BY <1>3, <1>4, NotResident
<1>6. /\ s \in StateRecord /\ s.runtime = st.runtime /\ s.build = "none" /\ s.scope = left
      /\ s.unload = st.unload /\ s.user = st.user
  BY <1>3 DEF StateRecord
<1>7. Becomes(r, cl)  BY <1>1
<1> HIDE DEF Left, s, r, cl
<1>8. Leasing(s) = {} /\ ~Resident(s)  BY <1>4, <1>5, <1>6 DEF Leasing, Resident
<1>9. CoreSound(s, built)
  <2>1. LeasesSound(s)  BY <1>5, <1>6, <1>8, FS_EmptySet DEF LeasesSound
  <2>2. ScopeSound(s) /\ BlocksSound(s)
    BY <1>3, <1>4, <1>6, <1>8 DEF ScopeSound, BlocksSound
  <2>. QED  BY <1>3, <1>6, <2>1, <2>2 DEF CoreSound
<1>10. WaitsBut(s, "build")
  BY <1>3, <1>4, <1>6 DEF StateSound, WaitsSound, WaitsBut
<1>11. StateSound(r, built)  BY <1>9, <1>10, WakeSound DEF r
<1>12. /\ Same(r, s)
       /\ \A v \in Users :
            /\ s.user[v].at # "build" => r.user[v] = s.user[v]
            /\ s.user[v].at = "build" => r.user[v].at = "fail"
  BY <1>6, WakeFields DEF r
<1>13. \A v \in Users : r.user[v].at \notin {"retry", "unload", "build"}
  <2>1. \A v \in Users : st.user[v].at \notin {"retry", "unload"}
    BY <1>2, <1>3, <1>4 DEF AllResumed, StateSound, WaitsSound
  <2>. QED  BY <1>6, <1>12, <2>1
<1>14. r.build = "none" /\ ~Gone(st)  BY <1>2, <1>6, <1>12 DEF Same, Gone
<1>15. ClosersSound(r, cl)  BY <1>13, <1>14, ClosersWoken DEF RInv, cl
<1>. QED  BY <1>2, <1>7, <1>11, <1>15, BecomesSound DEF RInv

-----------------------------------------------------------------------------
(* The unload *)

(* What the end of an unload leaves, whatever its result.                  *)
LEMMA UnloadEndsKeeps ==
    ASSUME RInv, st.unload.at # "none", NEW s, NEW ok \in BOOLEAN, UnloadEnds(s, ok),
           CoreSound([s EXCEPT !.unload = NoUnload], built), s \in StateRecord,
           s.user = st.user, ok => Gone(s),
           Resident(s) \/ \A c \in Closers : closer[c].at # "built",
           built' = built, UNCHANGED <<pull, closing, fenced>>
    PROVE  RInv'
<1> DEFINE t == [s EXCEPT !.unload = NoUnload]
           r == WakeUsers(t, "unload", ok)
           cl == WakeClosers("unload", "over", ok)
<1>1. Becomes(r, cl) /\ CoreSound(t, built)  BY DEF UnloadEnds
<1>2. StateSound(st, built) /\ ScopeSound(st) /\ st \in StateRecord
  BY DEF RInv, StateSound, CoreSound
<1>3. t \in StateRecord  BY <1>1 DEF CoreSound
<1>4. t.runtime = s.runtime /\ t.build = s.build /\ t.scope = s.scope /\ t.user = st.user
  BY DEF StateRecord
<1> HIDE DEF t, r, cl
<1>5. st.build = "none" /\ ~Gone(st)  BY <1>2 DEF ScopeSound, Gone
<1>6. WaitsBut(t, "unload")
  BY <1>2, <1>4, <1>5 DEF StateSound, WaitsSound, WaitsBut
<1>7. StateSound(r, built)  BY <1>1, <1>6, WakeSound DEF r
<1>8. Same(r, t)  BY <1>3, WakeFields DEF r
<1>9. (Resident(r) <=> Resident(s)) /\ (ok => Gone(r))
  BY <1>4, <1>8 DEF Same, Resident, Gone
<1>10. ClosersSound(r, cl)  BY <1>5, <1>9, ClosersWoken DEF RInv, cl
<1>. QED  BY <1>1, <1>7, <1>10, BecomesSound DEF RInv

(* A runtime that stays is open to executions again, or broken.            *)
LEMMA StaysSound ==
    ASSUME RInv, st.unload.at # "none", NEW s \in StateRecord, s.user = st.user,
           s.build = st.build, s.push = st.push,
           s.runtime.gen = st.runtime.gen, s.runtime.key = st.runtime.key,
           s.runtime.leases = st.runtime.leases, ~s.runtime.closing,
           Leasing(st) = {}, s.scope = IF Resident(st) THEN st.scope ELSE "broken"
    PROVE  CoreSound([s EXCEPT !.unload = NoUnload], built)
<1> DEFINE t == [s EXCEPT !.unload = NoUnload]
<1>1. /\ st \in StateRecord /\ LeasesSound(st) /\ ScopeSound(st)
      /\ st.runtime.gen <= built
  BY DEF RInv, StateSound, CoreSound
<1>2. NoUnload \in UnloadRecord /\ NoUnload.at = "none"  BY DEF NoUnload, UnloadRecord
<1>3. /\ t \in StateRecord /\ t.unload = NoUnload
      /\ t.runtime = s.runtime /\ t.build = s.build /\ t.scope = s.scope /\ t.user = s.user
  BY <1>2 DEF StateRecord
<1> HIDE DEF t
<1>4. Leasing(t) = {} /\ (Resident(t) <=> Resident(st))  BY <1>3 DEF Leasing, Resident
<1>5. LeasesSound(t)  BY <1>1, <1>3, <1>4 DEF LeasesSound
<1>6. ScopeSound(t) /\ BlocksSound(t)
  BY <1>1, <1>2, <1>3, <1>4 DEF ScopeSound, BlocksSound
<1>7. CoreSound(t, built)  BY <1>1, <1>3, <1>5, <1>6 DEF CoreSound
<1>. QED  BY <1>7 DEF t

(* The executions have gone: no lease is left behind the drain.            *)
LEMMA NoLeaseBehindDrain ==
    ASSUME RInv, st.unload.at \in {"listen", "close"}
    PROVE  Leasing(st) = {}
<1>1. LeasesSound(st) /\ ScopeSound(st)  BY DEF RInv, StateSound, CoreSound
<1>. QED  BY <1>1 DEF LeasesSound, ScopeSound

LEMMA DrainedKeeps ==
    ASSUME RInv, Drained
    PROVE  RInv'
<1>1. /\ st.unload.at = "drain" /\ st.runtime.leases = 0 /\ built' = built
      /\ UNCHANGED <<pull, closing, fenced>>
  BY DEF Drained
<1>2. /\ StateSound(st, built) /\ st \in StateRecord /\ LeasesSound(st) /\ ScopeSound(st)
      /\ st.runtime.gen <= built
  BY DEF RInv, StateSound, CoreSound
<1>3. Leasing(st) = {} /\ Resident(st)  BY <1>1, <1>2, NoLeases DEF ScopeSound
<1>4. /\ StateSound(Observe(st), built) /\ Observe(st) \in StateRecord
      /\ Same(Observe(st), st) /\ Observe(st).user = st.user
  BY <1>2, ObserveSound, ObserveFields
<1>5. CASE ~st.unload.forced /\ Blocked(st)
  <2> DEFINE o == Observe(st)
             x == [o.runtime EXCEPT !.closing = FALSE]
             s == [o EXCEPT !.runtime.closing = FALSE]
  <2>1. UnloadEnds(s, FALSE)  BY <1>5 DEF Drained
  <2>2. o.runtime \in RuntimeRecord  BY <1>4 DEF StateRecord
  <2>3. /\ x \in RuntimeRecord /\ ~x.closing /\ x.gen = o.runtime.gen /\ x.key = o.runtime.key
        /\ x.leases = o.runtime.leases
    BY <2>2 DEF RuntimeRecord
  <2>4. s = [o EXCEPT !.runtime = x]  OBVIOUS
  <2>5. o \in StateRecord /\ Same(o, st) /\ o.user = st.user  BY <1>4
  <2> HIDE DEF o, x, s
  <2>6. /\ s \in StateRecord /\ s.runtime = x /\ s.build = o.build /\ s.scope = o.scope
        /\ s.push = o.push /\ s.user = o.user
    BY <2>3, <2>4, <2>5 DEF StateRecord
  <2>7. /\ s.user = st.user /\ s.build = st.build /\ s.scope = st.scope /\ s.push = st.push
        /\ s.runtime.gen = st.runtime.gen /\ s.runtime.key = st.runtime.key
        /\ s.runtime.leases = st.runtime.leases /\ ~s.runtime.closing
    BY <2>3, <2>5, <2>6 DEF Same
  <2>8. CoreSound([s EXCEPT !.unload = NoUnload], built)
    BY <1>1, <1>3, <2>6, <2>7, StaysSound
  <2>9. Resident(s)  BY <1>3, <2>7 DEF Resident
  <2>. QED  BY <1>1, <2>1, <2>6, <2>7, <2>8, <2>9, UnloadEndsKeeps
<1>6. CASE ~(~st.unload.forced /\ Blocked(st))
  <2> DEFINE o == IF st.unload.forced THEN st ELSE Observe(st)
             x == [o.runtime EXCEPT !.closing = TRUE]
             y == [o.unload EXCEPT !.at = "listen"]
             s == [o EXCEPT !.runtime.closing = TRUE, !.unload.at = "listen"]
  <2>1. Becomes(s, closer)  BY <1>6 DEF Drained
  <2>2. /\ StateSound(o, built) /\ o \in StateRecord /\ Same(o, st) /\ o.user = st.user
    BY <1>2, <1>4 DEF Same
  <2>3. o.runtime \in RuntimeRecord /\ o.unload \in UnloadRecord  BY <2>2 DEF StateRecord
  <2>4. /\ x \in RuntimeRecord /\ x.closing
        /\ x.gen = o.runtime.gen /\ x.leases = o.runtime.leases
        /\ y \in UnloadRecord /\ y.at = "listen" /\ y.forced = o.unload.forced
    BY <2>3 DEF RuntimeRecord, UnloadRecord
  <2>5. s = [o EXCEPT !.runtime = x, !.unload = y]  OBVIOUS
  <2> HIDE DEF o, x, y, s
  <2>6. /\ s \in StateRecord /\ s.runtime = x /\ s.unload = y /\ s.build = o.build
        /\ s.scope = o.scope /\ s.push = o.push /\ s.user = o.user
    BY <2>2, <2>4, <2>5 DEF StateRecord
  <2>7. /\ s.runtime.gen = st.runtime.gen /\ s.runtime.leases = 0 /\ s.runtime.closing
        /\ s.unload.at = "listen" /\ s.unload.forced = st.unload.forced
        /\ s.build = st.build /\ s.scope = st.scope /\ s.push = st.push /\ s.user = st.user
    BY <1>1, <2>2, <2>4, <2>6 DEF Same
  <2>8. Leasing(s) = {} /\ Resident(s)  BY <1>3, <2>7 DEF Leasing, Resident
  <2>9. StateSound(s, built)
    <3>1. LeasesSound(s)  BY <2>7, <2>8, FS_EmptySet DEF LeasesSound
    <3>2. WaitsSound(s)  BY <1>1, <1>2, <2>7 DEF StateSound, WaitsSound
    <3>3. ScopeSound(s)  BY <1>1, <1>2, <1>3, <2>7, <2>8 DEF ScopeSound
    <3>4. BlocksSound(s)  BY <1>6, <2>7 DEF BlocksSound, Blocked
    <3>. QED  BY <1>2, <2>6, <2>7, <3>1, <3>2, <3>3, <3>4 DEF StateSound, CoreSound
  <2>10. ~Gone(st) /\ ~Empty(st)  BY <1>3 DEF Gone, Empty
  <2>11. ClosersSound(s, closer)  BY <2>8, <2>10, ClosersKept DEF RInv
  <2>. QED  BY <1>1, <2>1, <2>9, <2>11, BecomesSound DEF RInv
<1>. QED  BY <1>5, <1>6

LEMMA ListenersDoneKeeps ==
    ASSUME RInv, ListenersDone
    PROVE  RInv'
<1> DEFINE y == [st.unload EXCEPT !.at = "close"]
           s == [st EXCEPT !.unload.at = "close"]
<1>1. /\ st.unload.at = "listen" /\ Becomes(s, closer) /\ built' = built
      /\ UNCHANGED <<pull, closing, fenced>>
  BY DEF ListenersDone
<1>2. /\ StateSound(st, built) /\ st \in StateRecord /\ LeasesSound(st) /\ ScopeSound(st)
      /\ BlocksSound(st) /\ st.runtime.gen <= built
  BY DEF RInv, StateSound, CoreSound
<1>3. st.unload \in UnloadRecord  BY <1>2 DEF StateRecord
<1>4. y \in UnloadRecord /\ y.at = "close" /\ y.forced = st.unload.forced
  BY <1>3 DEF UnloadRecord
<1>5. s = [st EXCEPT !.unload = y]  OBVIOUS
<1> HIDE DEF y, s
<1>6. /\ s \in StateRecord /\ s.unload = y /\ s.runtime = st.runtime /\ s.build = st.build
      /\ s.scope = st.scope /\ s.push = st.push /\ s.user = st.user /\ s.idle = st.idle
  BY <1>2, <1>4, <1>5 DEF StateRecord
<1>7. Leasing(s) = Leasing(st) /\ (Resident(s) <=> Resident(st)) /\ Resident(st)
  BY <1>1, <1>2, <1>6 DEF Leasing, Resident, ScopeSound
<1>8. StateSound(s, built)
  <2>1. LeasesSound(s)  BY <1>2, <1>6, <1>7 DEF LeasesSound, Leasing
  <2>2. WaitsSound(s)  BY <1>1, <1>2, <1>4, <1>6 DEF StateSound, WaitsSound
  <2>3. ScopeSound(s)  BY <1>1, <1>2, <1>4, <1>6, <1>7 DEF ScopeSound
  <2>4. BlocksSound(s)  BY <1>2, <1>4, <1>6 DEF BlocksSound, Blocked
  <2>. QED  BY <1>2, <1>6, <2>1, <2>2, <2>3, <2>4 DEF StateSound, CoreSound
<1>9. ~Gone(st) /\ ~Empty(st)  BY <1>7 DEF Gone, Empty
<1>10. ClosersSound(s, closer)  BY <1>7, <1>9, ClosersKept DEF RInv
<1>. QED  BY <1>1, <1>8, <1>10, BecomesSound DEF RInv

LEMMA ListenerFailsKeeps ==
    ASSUME RInv, ListenerFails
    PROVE  RInv'
<1> DEFINE x == [st.runtime EXCEPT !.closing = FALSE]
           s == [st EXCEPT !.runtime.closing = FALSE]
<1>1. /\ st.unload.at = "listen" /\ UnloadEnds(s, FALSE) /\ built' = built
      /\ UNCHANGED <<pull, closing, fenced>>
  BY DEF ListenerFails
<1>2. st \in StateRecord /\ ScopeSound(st)  BY DEF RInv, StateSound, CoreSound
<1>3. st.runtime \in RuntimeRecord  BY <1>2 DEF StateRecord
<1>4. /\ x \in RuntimeRecord /\ ~x.closing /\ x.gen = st.runtime.gen /\ x.key = st.runtime.key
      /\ x.leases = st.runtime.leases
  BY <1>3 DEF RuntimeRecord
<1>5. s = [st EXCEPT !.runtime = x]  OBVIOUS
<1> HIDE DEF x, s
<1>6. /\ s \in StateRecord /\ s.runtime = x /\ s.build = st.build /\ s.scope = st.scope
      /\ s.push = st.push /\ s.user = st.user
  BY <1>2, <1>4, <1>5 DEF StateRecord
<1>7. Resident(st) /\ Resident(s) /\ Leasing(st) = {}
  BY <1>1, <1>2, <1>4, <1>6, NoLeaseBehindDrain DEF ScopeSound, Resident
<1>8. CoreSound([s EXCEPT !.unload = NoUnload], built)
  BY <1>1, <1>4, <1>6, <1>7, StaysSound
<1>. QED  BY <1>1, <1>6, <1>7, <1>8, UnloadEndsKeeps

LEMMA ScopeFailsKeeps ==
    ASSUME RInv, ScopeFails
    PROVE  RInv'
<1> DEFINE x == [st.runtime EXCEPT !.closing = FALSE, !.open = ~Resident(st)]
           sc == IF Resident(st) THEN st.scope ELSE "broken"
           s == [st EXCEPT !.runtime.closing = FALSE, !.runtime.open = ~Resident(st),
                           !.scope = IF Resident(st) THEN @ ELSE "broken"]
<1>1. /\ st.unload.at = "close" /\ AllResumed /\ UnloadEnds(s, FALSE) /\ built' = built
      /\ UNCHANGED <<pull, closing, fenced>>
  BY DEF ScopeFails
<1>2. st \in StateRecord  BY DEF RInv, StateSound, CoreSound
<1>3. st.runtime \in RuntimeRecord /\ sc \in {"none", "open", "broken"}
  BY <1>2 DEF StateRecord
<1>4. /\ x \in RuntimeRecord /\ ~x.closing /\ x.gen = st.runtime.gen /\ x.key = st.runtime.key
      /\ x.leases = st.runtime.leases
  <2>1. (~Resident(st)) \in BOOLEAN  BY DEF Resident
  <2>. QED  BY <1>3, <2>1 DEF RuntimeRecord
<1>5. s = [st EXCEPT !.runtime = x, !.scope = sc]  BY <1>2, <1>3 DEF StateRecord, RuntimeRecord
<1> HIDE DEF x, s, sc
<1>6. /\ s \in StateRecord /\ s.runtime = x /\ s.build = st.build /\ s.scope = sc
      /\ s.push = st.push /\ s.user = st.user
  BY <1>2, <1>3, <1>4, <1>5 DEF StateRecord
<1>7. Leasing(st) = {}  BY <1>1, NoLeaseBehindDrain
<1>8. CoreSound([s EXCEPT !.unload = NoUnload], built)
  BY <1>1, <1>4, <1>6, <1>7, StaysSound DEF sc
<1>9. \A c \in Closers : closer[c].at # "built"  BY <1>1 DEF AllResumed
<1>. QED  BY <1>1, <1>6, <1>8, <1>9, UnloadEndsKeeps

LEMMA ScopeClosesKeeps ==
    ASSUME RInv, ScopeCloses
    PROVE  RInv'
<1> DEFINE s == [st EXCEPT !.runtime = NoRuntime, !.scope = "none"]
           t == [s EXCEPT !.unload = NoUnload]
<1>1. /\ st.unload.at = "close" /\ AllResumed /\ UnloadEnds(s, TRUE) /\ built' = built
      /\ UNCHANGED <<pull, closing, fenced>>
  BY DEF ScopeCloses
<1>2. st \in StateRecord /\ ScopeSound(st) /\ built \in 0..MaxBuilds
  BY DEF RInv, StateSound, CoreSound
<1>3. /\ NoRuntime \in RuntimeRecord /\ NoRuntime.gen = 0 /\ NoRuntime.leases = 0
      /\ ~NoRuntime.closing /\ NoUnload \in UnloadRecord /\ NoUnload.at = "none"
  BY DEF NoRuntime, RuntimeRecord, NoUnload, UnloadRecord
<1>4. /\ s \in StateRecord /\ s.runtime = NoRuntime /\ s.build = st.build /\ s.scope = "none"
      /\ s.user = st.user
  BY <1>2, <1>3 DEF StateRecord
<1> HIDE DEF s
<1>5. /\ t \in StateRecord /\ t.unload = NoUnload /\ t.runtime = NoRuntime
      /\ t.build = st.build /\ t.scope = "none" /\ t.user = st.user
  BY <1>3, <1>4 DEF StateRecord
<1> HIDE DEF t
<1>6. st.build = "none" /\ Leasing(st) = {}
  BY <1>1, <1>2, NoLeaseBehindDrain DEF ScopeSound
<1>7. Leasing(t) = {} /\ ~Resident(t) /\ Gone(s)
  BY <1>3, <1>4, <1>5, <1>6 DEF Leasing, Resident, Gone
<1>8. CoreSound(t, built)
  <2>1. LeasesSound(t)  BY <1>3, <1>5, <1>7, FS_EmptySet DEF LeasesSound
  <2>2. ScopeSound(t) /\ BlocksSound(t)
    BY <1>3, <1>5, <1>6, <1>7 DEF ScopeSound, BlocksSound
  <2>3. t.runtime.gen <= built  BY <1>2, <1>3, <1>5
  <2>. QED  BY <1>5, <2>1, <2>2, <2>3 DEF CoreSound
<1>9. \A c \in Closers : closer[c].at # "built"  BY <1>1 DEF AllResumed
<1>10. CoreSound([s EXCEPT !.unload = NoUnload], built)  BY <1>8 DEF t
<1>. QED  BY <1>1, <1>4, <1>7, <1>9, <1>10, UnloadEndsKeeps

-----------------------------------------------------------------------------
(* Blockers, the clock and the sweep *)

(* Nothing closes a runtime that admits a blocker.                         *)
LEMMA AdmissionIsOpen ==
    ASSUME RInv, AdmitsBlocker
    PROVE  ~st.runtime.closing
BY DEF RInv, StateSound, CoreSound, ScopeSound, AdmitsBlocker

(* Blockers and clock of a state, nothing else.                            *)
LEMMA PushSound ==
    ASSUME NEW b, NEW s, StateSound(s, b), NEW r \in StateRecord,
           r.runtime = s.runtime, r.build = s.build, r.scope = s.scope, r.unload = s.unload,
           r.user = s.user, r.idle \in {s.idle, "blocked"},
           s.runtime.closing => r.push \subseteq s.push
    PROVE  StateSound(r, b)
<1>1. Leasing(r) = Leasing(s) /\ (Resident(r) <=> Resident(s))  BY DEF Leasing, Resident
<1>2. LeasesSound(r)  BY <1>1 DEF StateSound, CoreSound, LeasesSound, Leasing
<1>3. WaitsSound(r)  BY DEF StateSound, WaitsSound
<1>4. ScopeSound(r)  BY <1>1 DEF StateSound, CoreSound, ScopeSound
<1>5. BlocksSound(r)  BY DEF StateSound, CoreSound, BlocksSound, Blocked
<1>. QED  BY <1>2, <1>3, <1>4, <1>5 DEF StateSound, CoreSound

(* What closers see of a state: all but blockers, leases and clock.        *)
LEMMA SeenKept ==
    ASSUME ClosersSound(st, closer), NEW s,
           s.runtime = st.runtime, s.build = st.build, s.scope = st.scope,
           s.unload = st.unload, s.user = st.user
    PROVE  ClosersSound(s, closer)
<1>1. /\ (Resident(s) <=> Resident(st)) /\ (Gone(st) => Gone(s)) /\ Pending(s) = Pending(st)
  BY DEF Resident, Gone, Pending
<1>2. Empty(st) => Empty(s)  BY <1>1 DEF Empty
<1>. QED  BY <1>1, <1>2, ClosersKept

LEMMA RegisterBlockerKeeps ==
    ASSUME RInv, NEW b \in Blockers, RegisterBlocker(b)
    PROVE  RInv'
<1> DEFINE s == [st EXCEPT !.push = @ \cup {b}, !.idle = "blocked"]
<1>1. Becomes(s, closer) /\ built' = built /\ UNCHANGED <<pull, closing, fenced>>
  BY DEF RegisterBlocker
<1>2. StateSound(st, built) /\ st \in StateRecord  BY DEF RInv, StateSound, CoreSound
<1>3. /\ s \in StateRecord /\ s.runtime = st.runtime /\ s.build = st.build
      /\ s.scope = st.scope /\ s.unload = st.unload /\ s.user = st.user /\ s.idle = "blocked"
  BY <1>2 DEF StateRecord
<1> HIDE DEF s
<1>4. ~st.runtime.closing  BY AdmissionIsOpen DEF RegisterBlocker
<1>5. StateSound(s, built)  BY <1>2, <1>3, <1>4, PushSound
<1>6. ClosersSound(s, closer)  BY <1>3, SeenKept DEF RInv
<1>. QED  BY <1>1, <1>5, <1>6, BecomesSound DEF RInv

LEMMA ReleaseBlockerKeeps ==
    ASSUME RInv, NEW b \in Blockers, ReleaseBlocker(b)
    PROVE  RInv'
<1> DEFINE s == [st EXCEPT !.push = @ \ {b}]
           t == IF s.push = {} /\ s.idle = "blocked" /\ ~HasUsers(s) THEN Observe(s) ELSE s
<1>1. Becomes(t, closer) /\ built' = built /\ UNCHANGED <<pull, closing, fenced>>
  BY DEF ReleaseBlocker
<1>2. StateSound(st, built) /\ st \in StateRecord  BY DEF RInv, StateSound, CoreSound
<1>3. /\ s \in StateRecord /\ s.runtime = st.runtime /\ s.build = st.build
      /\ s.scope = st.scope /\ s.unload = st.unload /\ s.user = st.user /\ s.idle = st.idle
      /\ s.push \subseteq st.push
  BY <1>2 DEF StateRecord
<1>4. t \in {s, Observe(s)}  OBVIOUS
<1> HIDE DEF s, t
<1>5. StateSound(s, built)  BY <1>2, <1>3, PushSound
<1>6. /\ StateSound(t, built) /\ t.runtime = s.runtime /\ t.build = s.build
      /\ t.scope = s.scope /\ t.unload = s.unload /\ t.user = s.user
  BY <1>4, <1>5, ObserveSound DEF Same
<1>7. ClosersSound(t, closer)  BY <1>3, <1>6, SeenKept DEF RInv
<1>. QED  BY <1>1, <1>6, <1>7, BecomesSound DEF RInv

(* A step of the pull source leaves the tracker alone.                     *)
LEMMA PullKeeps ==
    ASSUME RInv, PullStarts \/ PullEnds
    PROVE  RInv'
<1>1. /\ st' = st /\ closer' = closer /\ built' = built /\ closing' = closing
      /\ fenced' = fenced /\ pull' \in BOOLEAN
  BY DEF PullStarts, PullEnds
<1>2. BlocksSound(st)'
  <2>1. CASE PullStarts
    <3>1. ~st.runtime.closing  BY <2>1, AdmissionIsOpen DEF PullStarts
    <3>. QED  BY <1>1, <3>1 DEF BlocksSound
  <2>2. CASE PullEnds
    BY <1>1, <2>2 DEF PullEnds, RInv, StateSound, CoreSound, BlocksSound, Blocked
  <2>. QED  BY <2>1, <2>2
<1>3. StateSound(st, built)'
  <2>1. st' \in StateRecord /\ st'.runtime.gen <= built'
    BY <1>1 DEF RInv, StateSound, CoreSound
  <2>2. (LeasesSound(st) /\ ScopeSound(st) /\ WaitsSound(st))'
    BY <1>1 DEF RInv, StateSound, CoreSound, LeasesSound, ScopeSound, WaitsSound, Leasing,
       Resident
  <2>. QED  BY <1>2, <2>1, <2>2 DEF StateSound, CoreSound
<1>4. ClosersSound(st, closer)'
  BY <1>1 DEF RInv, ClosersSound, Empty, Gone, Pending, Resident
<1>. QED  BY <1>1, <1>3, <1>4 DEF RInv

(* What the tracker does between two awaits when it keeps its state.       *)
LEMMA KeepsState ==
    ASSUME RInv, NEW s, StateSound(s, built), ClosersSound(s, closer), st' = s,
           UNCHANGED <<pull, closing, fenced, closer, built>>
    PROVE  RInv'
BY DEF RInv, StateSound, CoreSound, WaitsSound, LeasesSound, ScopeSound, BlocksSound, Blocked,
   Leasing, Resident, ClosersSound, Empty, Gone, Pending

LEMMA TickKeeps ==
    ASSUME RInv, Tick
    PROVE  RInv'
<1> DEFINE s == [st EXCEPT !.idle = "old"]
<1>1. /\ st' = s /\ st.idle = "fresh" /\ UNCHANGED <<pull, closing, fenced, closer, built>>
  BY DEF Tick
<1>2. StateSound(st, built) /\ st \in StateRecord /\ LeasesSound(st)
  BY DEF RInv, StateSound, CoreSound
<1>3. s \in StateRecord /\ Same(s, st) /\ s.user = st.user
  BY <1>2 DEF StateRecord, Same
<1> HIDE DEF s
<1>4. Leasing(st) = {}  BY <1>1, <1>2 DEF LeasesSound
<1>5. StateSound(s, built)  BY <1>2, <1>3, <1>4, ClockSound
<1>6. ClosersSound(s, closer)  BY <1>3, SeenKept DEF RInv, Same
<1>. QED  BY <1>1, <1>5, <1>6, KeepsState

(* An unload that starts is none of the closers' business: something is open. *)
LEMMA UnloadSeen ==
    ASSUME ClosersSound(st, closer), ~Gone(st), NEW s,
           s.runtime = st.runtime, s.build = st.build, s.user = st.user
    PROVE  ClosersSound(s, closer)
<1>1. (Resident(s) <=> Resident(st)) /\ ~Empty(st)  BY DEF Resident, Empty
<1>. QED  BY <1>1, ClosersKept

LEMMA SweepKeeps ==
    ASSUME RInv, Sweep
    PROVE  RInv'
<1> DEFINE o == Observe(st)
           r == StartUnload(o, FALSE)
<1>1. /\ Becomes(o, closer) \/ (Resident(o) /\ Becomes(r, closer))
      /\ built' = built /\ UNCHANGED <<pull, closing, fenced>>
  BY DEF Sweep
<1>2. StateSound(st, built)  BY DEF RInv
<1>3. StateSound(o, built) /\ Same(o, st) /\ o.user = st.user  BY <1>2, ObserveSound
<1> HIDE DEF o, r
<1>4. CASE Becomes(o, closer)
  <2>1. ClosersSound(o, closer)  BY <1>3, SeenKept DEF RInv, Same
  <2>. QED  BY <1>1, <1>3, <1>4, <2>1, BecomesSound DEF RInv
<1>5. CASE Resident(o) /\ Becomes(r, closer)
  <2>1. StateSound(r, built)  BY <1>3, <1>5, StartUnloadSound DEF r
  <2>2. o \in StateRecord  BY <1>3 DEF StateSound, CoreSound
  <2>3. r.runtime = o.runtime /\ r.build = o.build /\ r.user = o.user
    BY <2>2, StartUnloadFields DEF r
  <2>4. ~Gone(st)  BY <1>3, <1>5 DEF Gone, Same, Resident
  <2>5. ClosersSound(r, closer)  BY <1>3, <2>3, <2>4, UnloadSeen DEF RInv, Same
  <2>. QED  BY <1>1, <1>5, <2>1, <2>5, BecomesSound DEF RInv
<1>. QED  BY <1>1, <1>4, <1>5

-----------------------------------------------------------------------------
(* close *)

LEMMA ClosersMove ==
    ASSUME RInv, NEW c \in Closers, NEW e \in CloserRecord,
           closer' = [closer EXCEPT ![c] = e],
           UNCHANGED <<st, pull, built>>,
           UNCHANGED closing \/ closing', UNCHANGED fenced \/ fenced',
           fenced' \in BOOLEAN, closing' \in BOOLEAN,
           e.at = "done" => ~e.own,
           e.at # "built",
           c = "session" /\ e.at # "idle" => fenced' /\ (~e.own => Empty(st)),
           c = "process" /\ e.at # "idle" =>
              closing' /\ (~e.own \/ (e.at = "over" /\ ~e.err) => Gone(st))
    PROVE  RInv'
<1>1. /\ closer' \in [Closers -> CloserRecord]
      /\ \A d \in Closers : closer'[d] = IF d = c THEN e ELSE closer[d]
  BY DEF RInv, ClosersSound
<1>2. "session" \in Closers /\ "process" \in Closers  BY DEF Closers
<1>3. StateSound(st, built)'
  BY DEF RInv, StateSound, CoreSound, WaitsSound, LeasesSound, ScopeSound, BlocksSound,
     Blocked, Leasing, Resident
<1>4. (Empty(st) <=> Empty(st)') /\ (Gone(st) <=> Gone(st)') /\ (Resident(st) <=> Resident(st)')
      /\ st' = st
  BY DEF Empty, Gone, Pending, Resident
<1>5. \A d \in Closers :
        /\ closer'[d].at = "done" => ~closer'[d].own
        /\ closer'[d].at = "built" /\ ~Resident(st) =>
             /\ st.build = "none"
             /\ \A u \in Users : st.user[u].at \notin {"retry", "unload", "build"}
  BY <1>1 DEF RInv, ClosersSound
<1>6. closer'["session"].at # "idle" =>
        fenced' /\ (~closer'["session"].own => Empty(st))
  BY <1>1, <1>2 DEF RInv, ClosersSound
<1>7. closer'["process"].at # "idle" => closing'  BY <1>1, <1>2 DEF RInv, ClosersSound
<1>8. /\ closer'["process"].at # "idle"
      /\ \/ ~closer'["process"].own
         \/ closer'["process"].at = "over" /\ ~closer'["process"].err
      => Gone(st)
  BY <1>1, <1>2 DEF RInv, ClosersSound
<1>9. ClosersSound(st, closer)'
  BY <1>1, <1>4, <1>5, <1>6, <1>7, <1>8 DEF ClosersSound
<1>. QED  BY <1>3, <1>9 DEF RInv

LEMMA CloseKeeps ==
    ASSUME RInv, NEW c \in Closers, Close(c)
    PROVE  RInv'
<1> DEFINE e == [at |-> IF Cold(st) THEN "done" ELSE "begin", own |-> ~Cold(st), err |-> FALSE]
<1>1. /\ closer' = [closer EXCEPT ![c] = e] /\ UNCHANGED <<st, pull, built>>
      /\ closing' = (closing \/ c = "process") /\ fenced' = (fenced \/ c = "session")
      /\ closing \in BOOLEAN /\ fenced \in BOOLEAN
  BY DEF Close, RInv
<1>2. /\ e \in CloserRecord /\ e.at \in {"done", "begin"} /\ e.own = ~Cold(st)
      /\ (e.at = "done" <=> Cold(st))
  <2>1. (~Cold(st)) \in BOOLEAN  BY DEF Cold
  <2>. QED  BY <2>1 DEF CloserRecord
<1> HIDE DEF e
<1>3. ~e.own => Empty(st) /\ Gone(st)  BY <1>2, ColdIsEmpty DEF Empty
<1>. QED  BY <1>1, <1>2, <1>3, ClosersMove

LEMMA CloseWaitsBuildKeeps ==
    ASSUME RInv, NEW c \in Closers, CloseWaitsBuild(c)
    PROVE  RInv'
<1> DEFINE e == [closer[c] EXCEPT !.at = "build"]
<1>1. /\ closer' = [closer EXCEPT ![c] = e] /\ closer[c].at = "begin" /\ closer[c].own
      /\ UNCHANGED <<st, pull, closing, fenced, built>>
  BY DEF CloseWaitsBuild
<1>2. closer[c] \in CloserRecord  BY DEF RInv, ClosersSound
<1>3. e \in CloserRecord /\ e.at = "build" /\ e.own  BY <1>1, <1>2 DEF CloserRecord
<1> HIDE DEF e
<1>4. /\ (c = "session" => fenced) /\ (c = "process" => closing)
      /\ fenced \in BOOLEAN /\ closing \in BOOLEAN
  BY <1>1 DEF RInv, ClosersSound
<1>. QED  BY <1>1, <1>3, <1>4, ClosersMove

LEMMA CloseGivesUpKeeps ==
    ASSUME RInv, NEW c \in Closers, CloseGivesUp(c)
    PROVE  RInv'
<1> DEFINE e == [at |-> "idle", own |-> FALSE, err |-> FALSE]
<1>1. /\ closer' = [closer EXCEPT ![c] = e] /\ UNCHANGED <<st, pull, closing, fenced, built>>
      /\ fenced \in BOOLEAN /\ closing \in BOOLEAN
  BY DEF CloseGivesUp, RInv
<1>2. e \in CloserRecord /\ e.at = "idle"  BY DEF CloserRecord
<1> HIDE DEF e
<1>. QED  BY <1>1, <1>2, ClosersMove

LEMMA CloseReturnsKeeps ==
    ASSUME RInv, NEW c \in Closers, CloseReturns(c)
    PROVE  RInv'
<1> DEFINE failed == closer[c].err \/ (c = "session" /\ closer[c].own)
           e == [at |-> IF failed THEN "idle" ELSE "done", own |-> FALSE, err |-> FALSE]
<1>1. /\ closer' = [closer EXCEPT ![c] = e] /\ UNCHANGED <<st, pull, closing, fenced, built>>
      /\ \/ closer[c].at = "begin" /\ (closer[c].own => st.build = "none") /\ ~Something(c)
         \/ closer[c].at = "built" /\ ~Something(c)
         \/ closer[c].at = "over"
      /\ fenced \in BOOLEAN /\ closing \in BOOLEAN
  BY DEF CloseReturns, RInv
<1>2. e \in CloserRecord /\ e.at \in {"idle", "done"} /\ ~e.own /\ (e.at = "idle" <=> failed)
  BY DEF CloserRecord
<1> HIDE DEF e
<1>3. c = "session" /\ e.at # "idle" => fenced /\ Empty(st)
  BY <1>1, <1>2 DEF RInv, ClosersSound
<1>4. c = "process" /\ e.at # "idle" => closing /\ Gone(st)
  <2>. SUFFICES ASSUME c = "process", e.at # "idle" PROVE closing /\ Gone(st)  OBVIOUS
  <2>1. ~closer[c].err  BY <1>2
  <2>2. /\ closing
        /\ ~closer[c].own \/ (closer[c].at = "over" /\ ~closer[c].err) => Gone(st)
    BY <1>1 DEF RInv, ClosersSound
  <2>3. CASE closer[c].at = "over"  BY <2>1, <2>2, <2>3
  <2>4. CASE ~closer[c].own  BY <2>2, <2>4
  <2>5. CASE closer[c].own /\ closer[c].at # "over"
    <3>1. ~Resident(st) /\ st.scope = "none"  BY <1>1, <2>5 DEF Something
    <3>2. st.build = "none"  BY <1>1, <2>5, <3>1 DEF RInv, ClosersSound
    <3>. QED  BY <2>2, <3>1, <3>2 DEF Gone
  <2>. QED  BY <2>3, <2>4, <2>5
<1>. QED  BY <1>1, <1>2, <1>3, <1>4, ClosersMove

LEMMA CloseUnloadsKeeps ==
    ASSUME RInv, NEW c \in Closers, CloseUnloads(c)
    PROVE  RInv'
<1> DEFINE cl == [closer EXCEPT ![c].at = "unload"]
           e == [closer[c] EXCEPT !.at = "unload"]
           forced == (c = "process")
           s == StartUnload(st, forced)
<1>1. /\ \/ closer[c].at = "begin" /\ (closer[c].own => st.build = "none")
         \/ closer[c].at = "built"
      /\ Something(c) /\ Becomes(s, cl) /\ built' = built /\ UNCHANGED <<pull, closing, fenced>>
  BY DEF CloseUnloads
<1>2. /\ StateSound(st, built) /\ st \in StateRecord /\ ScopeSound(st)
      /\ ClosersSound(st, closer)
  BY DEF RInv, StateSound, CoreSound
<1>3. closer[c].own /\ (Resident(st) \/ st.scope # "none") /\ ~Gone(st) /\ ~Empty(st)
  BY <1>1 DEF Something, Gone, Empty
<1>4. st.build = "none"  BY <1>1, <1>2, <1>3 DEF ClosersSound, ScopeSound
<1>5. Resident(st) \/ st.scope = "broken"
  BY <1>2, <1>3, <1>4 DEF ScopeSound, StateRecord
<1>6. StateSound(s, built)  BY <1>2, <1>5, StartUnloadSound
<1>7. s.runtime = st.runtime /\ s.build = st.build /\ s.scope = st.scope /\ s.user = st.user
  BY <1>2, StartUnloadFields
<1> HIDE DEF s
<1>8. \A d \in Closers : closer[d] \in CloserRecord  BY <1>2 DEF ClosersSound
<1>9. e \in CloserRecord /\ e.at = "unload" /\ e.own = closer[c].own
  BY <1>8 DEF CloserRecord
<1>10. cl = [closer EXCEPT ![c] = e]  OBVIOUS
<1> HIDE DEF cl, e
<1>11. /\ cl \in [Closers -> CloserRecord] /\ cl[c] = e
       /\ \A d \in Closers \ {c} : cl[d] = closer[d]
  BY <1>2, <1>9, <1>10 DEF ClosersSound
<1>12. (Resident(s) <=> Resident(st)) /\ "session" \in Closers /\ "process" \in Closers
  BY <1>7 DEF Resident, Closers
<1>13. \A d \in Closers :
         /\ cl[d].at = "done" => ~cl[d].own
         /\ cl[d].at = "built" /\ ~Resident(s) =>
              /\ s.build = "none"
              /\ \A u \in Users : s.user[u].at \notin {"retry", "unload", "build"}
  BY <1>2, <1>7, <1>9, <1>11, <1>12 DEF ClosersSound
<1>14. cl["session"].at # "idle" => fenced /\ cl["session"].own
  <2>1. CASE c = "session"  BY <1>1, <1>2, <1>3, <1>9, <1>11, <2>1 DEF ClosersSound
  <2>2. CASE c # "session"  BY <1>2, <1>3, <1>11, <1>12, <2>2 DEF ClosersSound
  <2>. QED  BY <2>1, <2>2
<1>15. cl["process"].at # "idle" =>
         /\ closing /\ cl["process"].own
         /\ ~(cl["process"].at = "over" /\ ~cl["process"].err)
  <2>1. CASE c = "process"  BY <1>1, <1>2, <1>3, <1>9, <1>11, <2>1 DEF ClosersSound
  <2>2. CASE c # "process"  BY <1>2, <1>3, <1>11, <1>12, <2>2 DEF ClosersSound
  <2>. QED  BY <2>1, <2>2
<1>16. ClosersSound(s, cl)  BY <1>11, <1>13, <1>14, <1>15 DEF ClosersSound
<1>. QED  BY <1>1, <1>6, <1>16, BecomesSound DEF RInv

-----------------------------------------------------------------------------
(* Theorems *)

LEMMA RInvInit ==
    ASSUME Init PROVE RInv
<1>1. built = 0 /\ st = NewState /\ 0 \in 0..MaxBuilds /\ 0 \in Nat
  BY BoundAssumption DEF Init
<1>2. StateSound(st, built)  BY <1>1, NewStateSound
<1>3. ClosersSound(st, closer)
  <2>1. \A c \in Closers : closer[c] = [at |-> "idle", own |-> FALSE, err |-> FALSE]
    BY DEF Init
  <2>2. [at |-> "idle", own |-> FALSE, err |-> FALSE] \in CloserRecord  BY DEF CloserRecord
  <2>3. closer \in [Closers -> CloserRecord]  BY <2>2 DEF Init
  <2>4. "session" \in Closers /\ "process" \in Closers  BY DEF Closers
  <2>. QED  BY <2>1, <2>3, <2>4 DEF ClosersSound
<1>. QED  BY <1>1, <1>2, <1>3 DEF Init, RInv

LEMMA RInvNext ==
    ASSUME RInv, [Next]_vars PROVE RInv'
<1>1. ASSUME NEW u \in Users, NEW k \in Keys, Acquire(u, k) PROVE RInv'
  BY <1>1, AcquireKeeps
<1>2. ASSUME NEW u \in Users, UserStep(u) PROVE RInv'
  BY <1>2, ResumeKeeps, AcquireFailsKeeps, ReleaseKeeps DEF UserStep
<1>3. CASE BuildSucceeds \/ BuildFails  BY <1>3, BuildSucceedsKeeps, BuildFailsKeeps
<1>4. CASE UnloadStep \/ ListenerFails \/ ScopeFails
  BY <1>4, DrainedKeeps, ListenersDoneKeeps, ScopeClosesKeeps, ListenerFailsKeeps,
     ScopeFailsKeeps DEF UnloadStep
<1>5. ASSUME NEW b \in Blockers, RegisterBlocker(b) \/ ReleaseBlocker(b) PROVE RInv'
  BY <1>5, RegisterBlockerKeeps, ReleaseBlockerKeeps
<1>6. CASE PullStarts \/ PullEnds  BY <1>6, PullKeeps
<1>7. CASE Tick \/ Sweep  BY <1>7, TickKeeps, SweepKeeps
<1>8. ASSUME NEW c \in Closers, Close(c) \/ CloserStep(c) \/ CloseGivesUp(c) PROVE RInv'
  BY <1>8, CloseKeeps, CloseWaitsBuildKeeps, CloseUnloadsKeeps, CloseReturnsKeeps,
     CloseGivesUpKeeps DEF CloserStep
<1>9. CASE UNCHANGED vars
  <2>1. StateSound(st, built) /\ ClosersSound(st, closer)  BY DEF RInv
  <2>. QED  BY <1>9, <2>1, KeepsState DEF vars
<1>. QED  BY <1>1, <1>2, <1>3, <1>4, <1>5, <1>6, <1>7, <1>8, <1>9 DEF Next

(* The invariant of the tracker: leases are counted, whoever waits waits for *)
(* a task that runs, and a closer knows what is left.                      *)
THEOREM ResidencyIsSound == Spec => []RInv
<1>1. Init => RInv  BY RInvInit
<1>2. RInv /\ [Next]_vars => RInv'  BY RInvNext
<1>. QED  BY <1>1, <1>2, PTL DEF Spec

LEMMA RInvResidency ==
    ASSUME RInv PROVE ResidencyInv
<1>1. /\ st \in StateRecord /\ st.runtime.gen <= built /\ built \in 0..MaxBuilds
      /\ LeasesSound(st) /\ ScopeSound(st) /\ BlocksSound(st) /\ ClosersSound(st, closer)
  BY DEF RInv, StateSound, CoreSound
<1>2. TypeOK
  <2>1. /\ st.runtime \in RuntimeRecord /\ st.unload \in UnloadRecord
        /\ st.build \in Keys \cup {"none"} /\ st.scope \in {"none", "open", "broken"}
        /\ st.push \subseteq Blockers /\ st.idle \in {"blocked", "fresh", "old"}
    BY <1>1 DEF StateRecord
  <2>2. st.runtime.leases = Cardinality(Leasing(st))  BY <1>1 DEF LeasesSound
  <2>3. st.runtime.gen \in 0..MaxBuilds /\ st.runtime.leases \in 0..Cardinality(Users)
    BY <1>1, <2>1, <2>2, LeasingFinite, BoundAssumption DEF RuntimeRecord
  <2>4. st.runtime \in Runtimes  BY <2>1, <2>3 DEF RuntimeRecord, Runtimes
  <2>. QED  BY <2>1, <2>2, <2>4 DEF TypeOK, UnloadRecord, RInv
<1>3. UnloadRespectsBlockers  BY <1>1 DEF BlocksSound, UnloadRespectsBlockers
<1>4. OneScope  BY <1>1 DEF ScopeSound, OneScope
<1>5. ClosedIsEmpty
  <2>. SUFFICES ASSUME NEW c \in Closers, closer[c].at = "done" PROVE Gone(st)
    BY DEF ClosedIsEmpty, Gone
  <2>1. c \in {"session", "process"} /\ ~closer[c].own  BY <1>1 DEF Closers, ClosersSound
  <2>. QED  BY <1>1, <2>1 DEF ClosersSound, Empty
<1>6. IdleClockStops  BY <1>1 DEF LeasesSound, IdleClockStops
<1>. QED  BY <1>2, <1>3, <1>4, <1>5, <1>6 DEF ResidencyInv

(* A Thread has one scope, which is closed only when nobody blocks it, and *)
(* none once the tracker is closed, over every failure and retry.          *)
THEOREM ResidencyInvariance == Spec => []ResidencyInv
BY ResidencyIsSound, RInvResidency, PTL

(* An execution works on the generation it was built for, which no unload  *)
(* has begun to close, until it gives its lease back.                      *)
THEOREM LeasesAreUsable == Spec => []LeaseIsUsable
<1>1. RInv => LeaseIsUsable
  BY DEF RInv, StateSound, CoreSound, LeasesSound, LeaseIsUsable
<1>. QED  BY <1>1, ResidencyIsSound, PTL


(***************************************************************************)
(* The body and the executors of a job                                     *)
(*                                                                         *)
(* A completion is announced at most once and only when it is durable, and *)
(* two executors never hold the scope of the Turn together.                *)
(*                                                                         *)
(* StopInv is not inductive: it does not say why an executor that is about *)
(* to publish JOB_COMPLETED is the only one.  EInv adds that an executor   *)
(* between its final checkpoint and the publication (Announcing) has       *)
(* committed the outcome, that nobody else is there with it, and that      *)
(* nothing has been announced yet.                                         *)
(***************************************************************************)

Bodies == [at : Waiting \cup Stopping \cup {"leave", "done"},
           why : {"result", "error", "startup", "timeout", "cancelled"},
           again : BOOLEAN]
Executors == [at : Places, hit : BOOLEAN, ready : BOOLEAN, scope : BOOLEAN, end : Ended]

(* The executor has committed the completion and has not announced it.     *)
Announcing(i) ==
    \/ ex[i].at \in {"close", "publish"}
    \/ ex[i].at = "release" /\ ex[i].end = "returned"

Completions == {n \in 1..Len(events) : events[n] = "JOB_COMPLETED"}

Announcers ==
    /\ \A i \in Runs : Announcing(i) => outcome = "completed" /\ Completions = {}
    /\ \A i, k \in Runs : Announcing(i) /\ Announcing(k) => i = k

EInv ==
    /\ StopTypeOK
    /\ Announcers
    /\ AnnouncedIsDurable
    /\ OneTurnScope

-----------------------------------------------------------------------------
(* The announcements *)

(* An event other than JOB_COMPLETED leaves the announcements as they are. *)
LEMMA OtherEvent ==
    ASSUME StopTypeOK, NEW e, e # "JOB_COMPLETED", events' = Append(events, e)
    PROVE  Completions' = Completions
BY DEF StopTypeOK, Completions

(* The first JOB_COMPLETED is the only one.                                *)
LEMMA FirstCompletion ==
    ASSUME StopTypeOK, Completions = {}, events' = Append(events, "JOB_COMPLETED")
    PROVE  \A m, n \in Completions' : m = n
BY DEF StopTypeOK, Completions

(* A terminal mark never takes a completion back.                          *)
LEMMA CompletionAbsorbs ==
    ASSUME NEW mark PROVE MarkedOutcome("completed", mark) = "completed"
BY DEF MarkedOutcome

LEMMA MarkTyped ==
    ASSUME NEW o \in Outcomes, NEW mark \in TerminalMarks
    PROVE  MarkedOutcome(o, mark) \in Outcomes
BY DEF MarkedOutcome, OutcomeOf, Outcomes, TerminalMarks

(* A step after which nobody else announces or holds a scope.              *)
LEMMA QuietStep ==
    ASSUME EInv, StopTypeOK',
           \A i \in Runs : Announcing(i)' => Announcing(i),
           \A i \in Runs : ex'[i].scope => ex[i].scope,
           Completions' = Completions,
           outcome = "completed" => outcome' = "completed"
    PROVE  EInv'
<1>1. Announcers'  BY DEF EInv, Announcers
<1>2. AnnouncedIsDurable'
  <2>1. Completions = {n \in 1..Len(events) : events[n] = "JOB_COMPLETED"}  BY DEF Completions
  <2>2. Completions' = {n \in 1..Len(events') : events'[n] = "JOB_COMPLETED"}
    BY DEF Completions
  <2>. QED  BY <2>1, <2>2 DEF EInv, AnnouncedIsDurable
<1>3. OneTurnScope'  BY DEF EInv, OneTurnScope
<1>. QED  BY <1>1, <1>2, <1>3 DEF EInv

-----------------------------------------------------------------------------
(* The executor *)

(* An executor that is moved stays one; the others do not change.          *)
LEMMA ExecutorMoved ==
    ASSUME StopTypeOK, NEW i \in Runs, NEW place \in Places, ExAt(i, place)
    PROVE  /\ ex' \in [Runs -> Executors]
           /\ \A k \in Runs \ {i} : ex'[k] = ex[k]
           /\ ex'[i].at = place /\ ex'[i].scope = ex[i].scope /\ ex'[i].end = ex[i].end
BY DEF StopTypeOK, ExAt, Executors

(* The types survive a step of the executor.                               *)
LEMMA ExecutorTyped ==
    ASSUME StopTypeOK, ExOnly, ex' \in [Runs -> Executors], outcome' \in Outcomes,
           events' = events \/ events' = Append(events, "JOB_COMPLETED")
    PROVE  StopTypeOK'
<1>1. events' \in Seq({"JOB_COMPLETED", "JOB_CANCELLED", "JOB_FAILED"})  BY DEF StopTypeOK
<1>. QED  BY <1>1 DEF StopTypeOK, ExOnly, Executors

(* An executor goes on to a place at which nothing is announced, or that   *)
(* it reaches with the completion it has already committed.                *)
LEMMA MovesOn ==
    ASSUME EInv, NEW i \in Runs, ExOnly, ex' \in [Runs -> Executors],
           \A k \in Runs \ {i} : ex'[k] = ex[k],
           ex'[i].scope => ex[i].scope,
           Announcing(i)' => Announcing(i),
           outcome' \in Outcomes, outcome = "completed" => outcome' = "completed",
           events' = events
    PROVE  EInv'
<1>1. StopTypeOK'  BY ExecutorTyped DEF EInv
<1>2. Completions' = Completions  BY DEF Completions
<1>3. \A k \in Runs : Announcing(k)' => Announcing(k)  BY DEF Announcing
<1>4. \A k \in Runs : ex'[k].scope => ex[k].scope  OBVIOUS
<1>. QED  BY <1>1, <1>2, <1>3, <1>4, QuietStep

(* The steps that only move the executor.                                  *)
LEMMA SimpleMoves ==
    ASSUME EInv, NEW i \in Runs,
           \/ RunnerStarts(i) \/ StepFails(i) \/ StepInterrupted(i) \/ LoopEnds(i) \/ Returns(i)
    PROVE  EInv'
<1>1. PICK place \in {"admit", "unfail", "unintr", "persist", "returned"} : ExAt(i, place)
  BY DEF RunnerStarts, StepFails, StepInterrupted, LoopEnds, Returns
<1>2. ExOnly /\ UNCHANGED <<outcome, events>>
  BY DEF RunnerStarts, StepFails, StepInterrupted, LoopEnds, Returns
<1>3. StopTypeOK /\ place \in Places  BY DEF EInv, Places, Protected, Ended
<1>4. /\ ex' \in [Runs -> Executors] /\ \A k \in Runs \ {i} : ex'[k] = ex[k]
      /\ ex'[i].at = place /\ ex'[i].scope = ex[i].scope
  BY <1>1, <1>3, ExecutorMoved
<1>5. ~Announcing(i)'  BY <1>4 DEF Announcing
<1>6. outcome' \in Outcomes  BY <1>2, <1>3 DEF StopTypeOK
<1>. QED  BY <1>2, <1>4, <1>5, <1>6, MovesOn

(* The loop begins when nobody has a scope.                                *)
LEMMA LoopBeginsSound ==
    ASSUME EInv, NEW i \in Runs, LoopBegins(i)
    PROVE  EInv'
<1>1. ExOnly /\ UNCHANGED <<outcome, events>> /\ ScopeFree /\ StopTypeOK
  BY DEF LoopBegins, EInv
<1>2. /\ ex' \in [Runs -> Executors] /\ \A k \in Runs \ {i} : ex'[k] = ex[k]
      /\ ex'[i].at = "loop"
  BY <1>1 DEF LoopBegins, StopTypeOK, Executors, Places
<1>3. StopTypeOK'  BY <1>1, <1>2, ExecutorTyped DEF StopTypeOK
<1>4. Completions' = Completions  BY <1>1 DEF Completions
<1>5. \A k \in Runs : Announcing(k)' => Announcing(k)  BY <1>2 DEF Announcing
<1>6. Announcers'  BY <1>1, <1>4, <1>5 DEF EInv, Announcers
<1>7. AnnouncedIsDurable'  BY <1>1 DEF EInv, AnnouncedIsDurable
<1>8. OneTurnScope'
  <2>1. \A k \in Runs \ {i} : ~ex'[k].scope  BY <1>1, <1>2 DEF ScopeFree
  <2>. QED  BY <2>1 DEF OneTurnScope
<1>. QED  BY <1>3, <1>6, <1>7, <1>8 DEF EInv

(* The final checkpoint commits the completion, once.                      *)
LEMMA ConvergesSound ==
    ASSUME EInv, NEW i \in Runs, Converges(i)
    PROVE  EInv'
<1>0. ExOnly /\ events' = events /\ StopTypeOK  BY DEF Converges, EInv
<1>1. CASE outcome = "unknown" /\ outcome' = "completed" /\ ExAt(i, "close")
  <2>1. "close" \in Places /\ "completed" \in Outcomes  BY DEF Places, Protected, Outcomes
  <2>2. /\ ex' \in [Runs -> Executors] /\ \A k \in Runs \ {i} : ex'[k] = ex[k]
        /\ ex'[i].at = "close" /\ ex'[i].scope = ex[i].scope
    BY <1>0, <1>1, <2>1, ExecutorMoved
  <2>3. StopTypeOK'  BY <1>0, <1>1, <2>1, <2>2, ExecutorTyped
  <2>4. \A k \in Runs : ~Announcing(k)  BY <1>1 DEF EInv, Announcers
  <2>5. Completions = {}  BY <1>1 DEF EInv, AnnouncedIsDurable, Completions
  <2>6. Completions' = {}  BY <1>0, <2>5 DEF Completions
  <2>7. \A k \in Runs \ {i} : ~Announcing(k)'  BY <2>2, <2>4 DEF Announcing
  <2>8. Announcers'  BY <1>1, <2>6, <2>7 DEF Announcers
  <2>9. AnnouncedIsDurable'  BY <2>6 DEF AnnouncedIsDurable, Completions
  <2>10. OneTurnScope'  BY <2>2 DEF EInv, OneTurnScope
  <2>. QED  BY <2>3, <2>8, <2>9, <2>10 DEF EInv
<1>2. CASE ExAt(i, "unfail") /\ UNCHANGED outcome
  <2>1. "unfail" \in Places  BY DEF Places, Protected
  <2>2. /\ ex' \in [Runs -> Executors] /\ \A k \in Runs \ {i} : ex'[k] = ex[k]
        /\ ex'[i].at = "unfail" /\ ex'[i].scope = ex[i].scope
    BY <1>0, <1>2, <2>1, ExecutorMoved
  <2>3. ~Announcing(i)' /\ outcome' \in Outcomes  BY <1>0, <1>2, <2>2 DEF Announcing, StopTypeOK
  <2>. QED  BY <1>0, <1>2, <2>2, <2>3, MovesOn
<1>. QED  BY <1>1, <1>2 DEF Converges

(* The completion is closed: the executor goes to its release with it.     *)
LEMMA ClosesSound ==
    ASSUME EInv, NEW i \in Runs, Closes(i)
    PROVE  EInv'
<1>1. ExOnly /\ UNCHANGED <<outcome, events>> /\ StopTypeOK /\ ex[i].at = "close"
  BY DEF Closes, ExFree, EInv
<1>2. /\ ex' \in [Runs -> Executors] /\ \A k \in Runs \ {i} : ex'[k] = ex[k]
      /\ ex'[i].scope = ex[i].scope
  BY ZenonT(60) DEF Closes, EInv, StopTypeOK, Executors, Places, Protected, Ended
<1>3. Announcing(i)  BY <1>1 DEF Announcing
<1>4. outcome' \in Outcomes  BY <1>1 DEF StopTypeOK
<1>. QED  BY <1>1, <1>2, <1>3, <1>4, MovesOn

(* A cleanup ends without a completion to announce.                        *)
LEMMA CleansUpSound ==
    ASSUME EInv, NEW i \in Runs, CleansUp(i)
    PROVE  EInv'
<1>1. ExOnly /\ events' = events /\ StopTypeOK  BY DEF CleansUp, EInv
<1>2. /\ ex' \in [Runs -> Executors] /\ \A k \in Runs \ {i} : ex'[k] = ex[k]
      /\ ex'[i].scope = ex[i].scope /\ ex'[i].at = "release"
      /\ ex'[i].end \in {"raised", "cancelled"}
  <2> DEFINE e == IF ex[i].at = "unfail" THEN "raised" ELSE "cancelled"
  <2>1. e \in {"raised", "cancelled"}  OBVIOUS
  <2>2. ex' = [ex EXCEPT ![i] = [@ EXCEPT !.at = "release", !.end = e]]  BY Zenon DEF CleansUp
  <2> HIDE DEF e
  <2>. QED  BY <1>1, <2>1, <2>2, ZenonT(60) DEF StopTypeOK, Executors, Places, Protected, Ended
<1>3. ~Announcing(i)'  BY <1>2 DEF Announcing
<1>4. outcome' \in Outcomes /\ (outcome = "completed" => outcome' = "completed")
  <2>1. ex[i].at \in {"uncancel", "unintr", "unfail"}  BY DEF CleansUp, ExFree
  <2>2. CASE ex[i].at = "uncancel"  BY <1>1, <2>2 DEF CleansUp, StopTypeOK, Outcomes
  <2>3. CASE ex[i].at = "unintr"  BY <1>1, <2>3 DEF CleansUp, StopTypeOK, Outcomes
  <2>4. CASE ex[i].at = "unfail"  BY <1>1, <2>4 DEF CleansUp, StopTypeOK, Outcomes
  <2>. QED  BY <2>1, <2>2, <2>3, <2>4
<1>. QED  BY <1>1, <1>2, <1>3, <1>4, MovesOn

LEMMA ReleasesSound ==
    ASSUME EInv, NEW i \in Runs, Releases(i)
    PROVE  EInv'
<1>1. ExOnly /\ UNCHANGED <<outcome, events>> /\ StopTypeOK /\ ex[i].at = "release"
  BY DEF Releases, ExFree, EInv
<1>2. /\ ex' \in [Runs -> Executors] /\ \A k \in Runs \ {i} : ex'[k] = ex[k]
      /\ ~ex'[i].scope
      /\ ex'[i].at = IF ex[i].end = "returned" THEN "publish" ELSE ex[i].end
  <2> DEFINE place == IF ex[i].end = "returned" THEN "publish" ELSE ex[i].end
  <2>1. place \in Places  BY <1>1 DEF StopTypeOK, Places
  <2>2. ex' = [ex EXCEPT ![i] = [@ EXCEPT !.scope = FALSE, !.at = place]]
    BY Zenon DEF Releases
  <2> HIDE DEF place
  <2>3. /\ ex' \in [Runs -> Executors] /\ \A k \in Runs \ {i} : ex'[k] = ex[k]
        /\ ~ex'[i].scope /\ ex'[i].at = place
    BY <1>1, <2>1, <2>2 DEF StopTypeOK, Executors
  <2>. QED  BY <2>3 DEF place
<1>3. ex[i].end \in Ended  BY <1>1 DEF StopTypeOK
<1>4. Announcing(i)' => Announcing(i)  BY <1>1, <1>2, <1>3 DEF Announcing, Ended
<1>5. outcome' \in Outcomes  BY <1>1 DEF StopTypeOK
<1>. QED  BY <1>1, <1>2, <1>4, <1>5, MovesOn

(* The one executor that announces does so; nobody is left to.             *)
LEMMA PublishesSound ==
    ASSUME EInv, NEW i \in Runs, Publishes(i)
    PROVE  EInv'
<1>1. /\ ExOnly /\ outcome' = outcome /\ StopTypeOK /\ ExAt(i, "published")
      /\ events' = Append(events, "JOB_COMPLETED") /\ ex[i].at = "publish"
  BY DEF Publishes, ExFree, EInv
<1>2. "published" \in Places  BY DEF Places
<1>3. /\ ex' \in [Runs -> Executors] /\ \A k \in Runs \ {i} : ex'[k] = ex[k]
      /\ ex'[i].at = "published" /\ ex'[i].scope = ex[i].scope
  BY <1>1, <1>2, ExecutorMoved
<1>4. StopTypeOK'  BY <1>1, <1>3, ExecutorTyped DEF StopTypeOK
<1>5. Announcing(i)  BY <1>1 DEF Announcing
<1>6. outcome = "completed" /\ Completions = {}  BY <1>5 DEF EInv, Announcers
<1>7. \A k \in Runs \ {i} : ~Announcing(k)  BY <1>5 DEF EInv, Announcers
<1>8. \A k \in Runs : ~Announcing(k)'  BY <1>3, <1>7 DEF Announcing
<1>9. Announcers'  BY <1>8 DEF Announcers
<1>10. \A m, n \in Completions' : m = n  BY <1>1, <1>6, FirstCompletion
<1>11. AnnouncedIsDurable'
  <2>1. Completions' = {n \in 1..Len(events') : events'[n] = "JOB_COMPLETED"}
    BY DEF Completions
  <2>. QED  BY <1>1, <1>6, <1>10, <2>1 DEF AnnouncedIsDurable
<1>12. OneTurnScope'  BY <1>3 DEF EInv, OneTurnScope
<1>. QED  BY <1>4, <1>9, <1>11, <1>12 DEF EInv

(* A cancellation is thrown: it never takes an executor to an announcement *)
(* it was not at.                                                          *)
LEMMA HitSound ==
    ASSUME EInv, NEW i \in Runs, Hit(i)
    PROVE  EInv'
<1>1. ExOnly /\ UNCHANGED <<outcome, events>> /\ StopTypeOK  BY DEF Hit, EInv
<1>2. PICK place \in Places :
        /\ ex' = [ex EXCEPT ![i] = [@ EXCEPT !.hit = FALSE, !.at = place]]
        /\ \/ ex[i].at \in {"before", "publish", "published"} /\ place = "cancelled"
           \/ ex[i].at \in {"admit", "loop", "persist", "close"} /\ place = "uncancel"
           \/ ex[i].at \in {"loop", "uncancel", "unintr", "unfail", "release"} /\ place = ex[i].at
  BY DEF Hit
<1>3. /\ ex' \in [Runs -> Executors] /\ \A k \in Runs \ {i} : ex'[k] = ex[k]
      /\ ex'[i].scope = ex[i].scope /\ ex'[i].at = place /\ ex'[i].end = ex[i].end
  BY <1>1, <1>2 DEF StopTypeOK, Executors
<1>4. Announcing(i)' => Announcing(i)  BY <1>2, <1>3 DEF Announcing
<1>5. outcome' \in Outcomes  BY <1>1 DEF StopTypeOK
<1>. QED  BY <1>1, <1>3, <1>4, <1>5, MovesOn

LEMMA ExecutorSound ==
    ASSUME EInv, NEW i \in Runs, ExecutorStep(i)
    PROVE  EInv'
<1>1. CASE RunnerStarts(i) \/ StepFails(i) \/ StepInterrupted(i) \/ LoopEnds(i) \/ Returns(i)
  BY <1>1, SimpleMoves
<1>2. CASE LoopBegins(i) \/ Converges(i) \/ Closes(i) \/ CleansUp(i)
  BY <1>2, LoopBeginsSound, ConvergesSound, ClosesSound, CleansUpSound
<1>3. CASE Releases(i) \/ Publishes(i) \/ Hit(i)
  BY <1>3, ReleasesSound, PublishesSound, HitSound
<1>. QED  BY <1>1, <1>2, <1>3 DEF ExecutorStep

-----------------------------------------------------------------------------
(* The body and the controls *)

(* The body asks its executor to stop: only the request changes.           *)
LEMMA CancelsTyped ==
    ASSUME StopTypeOK, ex' = Cancels(run)
    PROVE  /\ ex' \in [Runs -> Executors]
           /\ \A k \in Runs : /\ ex'[k].at = ex[k].at /\ ex'[k].scope = ex[k].scope
                             /\ ex'[k].end = ex[k].end
BY DEF StopTypeOK, Cancels, Executors

(* A step of the body or of a control leaves the places of the executors,  *)
(* starts one at most, and announces no completion.                        *)
LEMMA BesideTheExecutors ==
    ASSUME EInv, StopTypeOK',
           \A k \in Runs : \/ /\ ex'[k].at = ex[k].at /\ ex'[k].end = ex[k].end
                              /\ ex'[k].scope = ex[k].scope
                           \/ ex'[k] = Started,
           \/ UNCHANGED <<outcome, events>>
           \/ \E mark, e : /\ outcome' = MarkedOutcome(outcome, mark)
                           /\ e # "JOB_COMPLETED" /\ events' = Append(events, e)
    PROVE  EInv'
<1>1. Started.at = "before" /\ ~Started.scope  BY DEF Started, Idle
<1>2. \A k \in Runs : Announcing(k)' => Announcing(k)  BY <1>1 DEF Announcing
<1>3. \A k \in Runs : ex'[k].scope => ex[k].scope  BY <1>1
<1>4. StopTypeOK  BY DEF EInv
<1>5. CASE UNCHANGED <<outcome, events>>
  <2>1. Completions' = Completions  BY <1>5 DEF Completions
  <2>. QED  BY <1>2, <1>3, <1>5, <2>1, QuietStep
<1>6. ASSUME NEW mark, NEW e, outcome' = MarkedOutcome(outcome, mark),
             e # "JOB_COMPLETED", events' = Append(events, e)
      PROVE  EInv'
  <2>1. Completions' = Completions  BY <1>4, <1>6, OtherEvent
  <2>2. outcome = "completed" => outcome' = "completed"  BY <1>6, CompletionAbsorbs
  <2>. QED  BY <1>2, <1>3, <2>1, <2>2, QuietStep
<1>. QED  BY <1>5, <1>6

(* _cancel_execution_task returns.                                         *)
LEMMA StoppedTyped ==
    ASSUME StopTypeOK, Stopped
    PROVE  /\ body' \in Bodies /\ ex' \in [Runs -> Executors]
           /\ \A k \in Runs : /\ ex'[k].at = ex[k].at /\ ex'[k].scope = ex[k].scope
                             /\ ex'[k].end = ex[k].end
<1>1. CASE body.again /\ ~ExDone(run)
  <2>1. ex' = Cancels(run) /\ body' = [at |-> "round1", why |-> "cancelled", again |-> FALSE]
    BY <1>1 DEF Stopped
  <2>2. body' \in Bodies  BY <2>1 DEF Bodies, Stopping
  <2>. QED  BY <2>1, <2>2, CancelsTyped
<1>2. CASE ~(body.again /\ ~ExDone(run))
  <2>1. /\ ex' = ex
        /\ body' = [at |-> "leave", again |-> FALSE,
                    why |-> IF body.again THEN "cancelled" ELSE body.why]
    BY <1>2, Zenon DEF Stopped
  <2>2. body' \in Bodies  BY <2>1 DEF Bodies, StopTypeOK
  <2>. QED  BY <2>1, <2>2 DEF StopTypeOK, Executors
<1>. QED  BY <1>1, <1>2

(* A step of the body that leaves the executors where they are.            *)
LEMMA BodyMoves ==
    ASSUME EInv, BodyOnly, body' \in Bodies, asked' \in BOOLEAN,
           ex' \in [Runs -> Executors],
           \A k \in Runs : /\ ex'[k].at = ex[k].at /\ ex'[k].scope = ex[k].scope
                           /\ ex'[k].end = ex[k].end
    PROVE  EInv'
<1>1. StopTypeOK'  BY DEF EInv, StopTypeOK, BodyOnly, Bodies, Executors
<1>2. UNCHANGED <<outcome, events>>  BY DEF BodyOnly
<1>. QED  BY <1>1, <1>2, BesideTheExecutors

(* The steps of the body at which no executor is asked anything.           *)
LEMMA QuietBody ==
    ASSUME EInv,
           \/ Collect \/ ReadySeen \/ TotalTimeoutReady \/ CancelledStopping \/ CancelledLeaving
    PROVE  EInv'
<1>1. StopTypeOK /\ BodyOnly /\ ex' = ex
  BY DEF EInv, Collect, ReadySeen, TotalTimeoutReady, CancelledStopping,
                CancelledLeaving
<1>2. asked' \in BOOLEAN
  BY <1>1 DEF StopTypeOK, Collect, ReadySeen, TotalTimeoutReady, CancelledStopping,
                CancelledLeaving
<1>3. body' \in Bodies
  <2>1. body \in Bodies  BY <1>1 DEF StopTypeOK, Bodies
  <2>2. CASE Collect
    <3>1. ex[run].at \in Ended  BY <2>2 DEF Collect, ExDone
    <3> DEFINE why == CASE ex[run].at = "returned" -> "result"
                        [] ex[run].at = "raised" -> "error"
                        [] ex[run].at = "cancelled" -> "cancelled"
    <3>2. why \in {"result", "error", "cancelled"}  BY <3>1 DEF Ended
    <3>3. body' = [body EXCEPT !.at = "leave", !.why = why]  BY <2>2, Zenon DEF Collect
    <3> HIDE DEF why
    <3>. QED  BY <2>1, <3>2, <3>3 DEF Bodies
  <2>3. CASE ReadySeen \/ TotalTimeoutReady
    BY <2>1, <2>3 DEF ReadySeen, TotalTimeoutReady, Bodies, Waiting
  <2>4. CASE CancelledStopping
    <3> DEFINE more == body.again \/ body.why # "cancelled"
    <3>1. body' = [body EXCEPT !.again = more]  BY <2>4 DEF CancelledStopping
    <3>2. more \in BOOLEAN  OBVIOUS
    <3> HIDE DEF more
    <3>. QED  BY <2>1, <3>1, <3>2 DEF Bodies
  <2>5. CASE CancelledLeaving  BY <2>1, <2>5 DEF CancelledLeaving, Bodies
  <2>. QED  BY <2>2, <2>3, <2>4, <2>5
<1>4. ex' \in [Runs -> Executors]  BY <1>1 DEF StopTypeOK, Executors
<1>. QED  BY <1>1, <1>2, <1>3, <1>4, BodyMoves

(* The steps of the body that ask the executor to stop, or give it up.     *)
LEMMA StoppingBody ==
    ASSUME EInv,
           \/ StartupTimeout \/ TotalTimeout \/ GraceOver \/ CancelledWaiting
           \/ RoundOver \/ ForceOver \/ Settles
    PROVE  EInv'
<1>1. StopTypeOK /\ BodyOnly
  BY DEF EInv, StartupTimeout, TotalTimeout, GraceOver, CancelledWaiting, RoundOver, ForceOver,
         Settles
<1>2. asked' \in BOOLEAN
  BY <1>1 DEF StopTypeOK, StartupTimeout, TotalTimeout, GraceOver, CancelledWaiting, RoundOver,
              ForceOver, Settles
<1>3. CASE Stopped
  BY <1>1, <1>2, <1>3, StoppedTyped, BodyMoves
<1>4. CASE body' \in Bodies /\ (ex' = Cancels(run) \/ ex' = ex)
  <2>1. /\ ex' \in [Runs -> Executors]
        /\ \A k \in Runs : /\ ex'[k].at = ex[k].at /\ ex'[k].scope = ex[k].scope
                          /\ ex'[k].end = ex[k].end
    BY <1>1, <1>4, CancelsTyped DEF StopTypeOK, Executors
  <2>. QED  BY <1>1, <1>2, <1>4, <2>1, BodyMoves
<1>5. body \in Bodies  BY <1>1 DEF StopTypeOK, Bodies
<1>6. CASE StartupTimeout \/ TotalTimeout \/ GraceOver \/ CancelledWaiting
  <2>1. body' \in Bodies
    BY <1>5, <1>6 DEF StartupTimeout, TotalTimeout, GraceOver, CancelledWaiting, Bodies, Stopping
  <2>2. ex' = Cancels(run) \/ ex' = ex
    BY <1>6 DEF StartupTimeout, TotalTimeout, GraceOver, CancelledWaiting
  <2>. QED  BY <1>4, <2>1, <2>2
<1>7. CASE RoundOver
  <2>1. Stopped \/ (body' = [body EXCEPT !.at = "round2"] /\ ex' = Cancels(run))
    BY <1>7 DEF RoundOver
  <2>. QED  BY <1>3, <1>4, <1>5, <2>1 DEF Bodies, Stopping
<1>8. CASE ForceOver \/ Settles
  <2>1. Stopped \/ (body' = [body EXCEPT !.at = "settle"] /\ ex' = ex)
    BY <1>8 DEF ForceOver, Settles
  <2>. QED  BY <1>3, <1>4, <1>5, <2>1 DEF Bodies, Stopping
<1>. QED  BY <1>6, <1>7, <1>8

(* A terminal write and its event keep the types, and announce nothing.    *)
LEMMA TerminalTyped ==
    ASSUME StopTypeOK, NEW s, NEW mark, NEW e, Terminal(s, mark, e),
           s \in {"cancelled", "timed_out", "failed"}, mark \in TerminalMarks,
           e \in {"JOB_CANCELLED", "JOB_FAILED"}
    PROVE  /\ status' \in {"running", "paused", "cancelling",
                            "completed", "cancelled", "timed_out", "failed"}
           /\ outcome' \in Outcomes
           /\ events' \in Seq({"JOB_COMPLETED", "JOB_CANCELLED", "JOB_FAILED"})
           /\ \E m, x : /\ outcome' = MarkedOutcome(outcome, m)
                        /\ x # "JOB_COMPLETED" /\ events' = Append(events, x)
<1>1. outcome' = MarkedOutcome(outcome, mark) /\ events' = Append(events, e) /\ status' = s
  BY DEF Terminal
<1>2. outcome' \in Outcomes  BY <1>1, MarkTyped DEF StopTypeOK
<1>3. events' \in Seq({"JOB_COMPLETED", "JOB_CANCELLED", "JOB_FAILED"})  BY <1>1 DEF StopTypeOK
<1>. QED  BY <1>1, <1>2, <1>3

LEMMA BodyLeaves ==
    ASSUME EInv, LeaveBody
    PROVE  EInv'
<1>1. StopTypeOK /\ ex' = ex /\ UNCHANGED <<run, asked, ex, resuming, controls>>
  BY DEF EInv, LeaveBody
<1>2. body' \in Bodies
  <2>1. body \in Bodies /\ body' = [body EXCEPT !.at = "done"]
    BY <1>1 DEF StopTypeOK, Bodies, LeaveBody
  <2>. QED  BY <2>1 DEF Bodies
<1>3. \/ status' = "completed" /\ UNCHANGED <<outcome, events>>
      \/ UNCHANGED <<status, outcome, events>>
      \/ Terminal("cancelled", "cancelled", "JOB_CANCELLED")
      \/ Terminal("timed_out", "timed_out", "JOB_FAILED")
      \/ Terminal("failed", "failed", "JOB_FAILED")
  <2>1. body.why \in {"result", "error", "startup", "timeout", "cancelled"}
    BY <1>1 DEF StopTypeOK
  <2>2. CASE body.why = "result"  BY <2>2 DEF LeaveBody
  <2>3. CASE body.why = "cancelled" /\ status = "paused"  BY <2>3 DEF LeaveBody
  <2>4. CASE body.why = "cancelled" /\ status # "paused"  BY <2>4 DEF LeaveBody
  <2>5. CASE body.why \in {"startup", "timeout"}  BY <2>5 DEF LeaveBody
  <2>6. CASE body.why = "error"  BY <2>6 DEF LeaveBody
  <2>. QED  BY <2>1, <2>2, <2>3, <2>4, <2>5, <2>6
<1> DEFINE Written ==
      /\ status' \in {"running", "paused", "cancelling",
                       "completed", "cancelled", "timed_out", "failed"}
      /\ outcome' \in Outcomes
      /\ events' \in Seq({"JOB_COMPLETED", "JOB_CANCELLED", "JOB_FAILED"})
      /\ \/ UNCHANGED <<outcome, events>>
         \/ \E m, x : /\ outcome' = MarkedOutcome(outcome, m)
                      /\ x # "JOB_COMPLETED" /\ events' = Append(events, x)
<1>4. Written
  <2>1. CASE UNCHANGED <<outcome, events>> /\ (status' = "completed" \/ status' = status)
    BY <1>1, <2>1 DEF StopTypeOK
  <2>2. ASSUME NEW s, NEW mark, NEW e, Terminal(s, mark, e),
               s \in {"cancelled", "timed_out", "failed"}, mark \in TerminalMarks,
               e \in {"JOB_CANCELLED", "JOB_FAILED"}
        PROVE  Written
    BY <1>1, <2>2, TerminalTyped
  <2>. QED  BY <1>3, <2>1, <2>2 DEF TerminalMarks
<1>5. StopTypeOK'  BY <1>1, <1>2, <1>4 DEF StopTypeOK, Bodies
<1>. QED  BY <1>1, <1>4, <1>5, BesideTheExecutors

(* A new body starts an executor that has not begun.                       *)
LEMMA NextRunTyped ==
    ASSUME StopTypeOK, NextRun
    PROVE  /\ run' \in Runs /\ body' \in Bodies /\ ex' \in [Runs -> Executors]
           /\ status' = "running"
           /\ \A k \in Runs : ex'[k] = ex[k] \/ ex'[k] = Started
<1>1. run \in 1..MaxRuns /\ run < MaxRuns /\ run' = run + 1  BY DEF NextRun, StopTypeOK, Runs
<1>2. run + 1 \in Runs  BY <1>1, RunsAssumption DEF Runs
<1>3. Started \in Executors  BY DEF Started, Idle, Executors, Places, Ended
<1>4. ex \in [Runs -> Executors] /\ ex' = [ex EXCEPT ![run + 1] = Started]
  BY DEF StopTypeOK, Executors, NextRun
<1>5. ex' \in [Runs -> Executors] /\ \A k \in Runs : ex'[k] = ex[k] \/ ex'[k] = Started
  BY <1>2, <1>3, <1>4
<1>6. body' \in Bodies  BY DEF NextRun, NewBody, Bodies, Waiting
<1>. QED  BY <1>1, <1>2, <1>5, <1>6 DEF NextRun

LEMMA ControlSound ==
    ASSUME EInv, Control \/ ResumeAfterTask
    PROVE  EInv'
<1>1. StopTypeOK  BY DEF EInv
<1>2. controls' \in 0..MaxControls
  BY <1>1, RunsAssumption
  DEF Control, Pause, ResumeNow, ResumeWaits, CancelLive, CancelPaused, ResumeAfterTask, Request,
      StopTypeOK
<1>3. CASE Pause \/ ResumeWaits \/ CancelLive
  <2>1. StopTypeOK' /\ UNCHANGED <<ex, outcome, events>>
    BY <1>1, <1>2, <1>3 DEF StopTypeOK, Pause, ResumeWaits, CancelLive
  <2>. QED  BY <2>1, BesideTheExecutors
<1>4. CASE ResumeNow \/ (ResumeAfterTask /\ status = "paused")
  <2>1. NextRun /\ UNCHANGED <<asked, outcome, events>> /\ resuming' \in BOOLEAN
    BY <1>1, <1>4 DEF ResumeNow, ResumeAfterTask, StopTypeOK
  <2>2. StopTypeOK'  BY <1>1, <1>2, <2>1, NextRunTyped DEF StopTypeOK, Bodies, Executors
  <2>3. \A k \in Runs : ex'[k] = ex[k] \/ ex'[k] = Started  BY <1>1, <2>1, NextRunTyped
  <2>. QED  BY <2>1, <2>2, <2>3, BesideTheExecutors
<1>5. CASE ResumeAfterTask /\ status # "paused"
  <2>1. StopTypeOK' /\ UNCHANGED <<ex, outcome, events>>
    BY <1>1, <1>2, <1>5 DEF StopTypeOK, ResumeAfterTask
  <2>. QED  BY <2>1, BesideTheExecutors
<1>6. CASE CancelPaused
  <2>1. /\ Terminal("cancelled", "cancelled", "JOB_CANCELLED")
        /\ UNCHANGED <<run, body, asked, ex, resuming>>
    BY <1>6 DEF CancelPaused
  <2>2. /\ status' \in {"running", "paused", "cancelling",
                         "completed", "cancelled", "timed_out", "failed"}
        /\ outcome' \in Outcomes
        /\ events' \in Seq({"JOB_COMPLETED", "JOB_CANCELLED", "JOB_FAILED"})
        /\ \E m, x : /\ outcome' = MarkedOutcome(outcome, m)
                     /\ x # "JOB_COMPLETED" /\ events' = Append(events, x)
    BY <1>1, <2>1, TerminalTyped DEF TerminalMarks
  <2>3. StopTypeOK'  BY <1>1, <1>2, <2>1, <2>2 DEF StopTypeOK
  <2>. QED  BY <2>1, <2>2, <2>3, BesideTheExecutors
<1>. QED  BY <1>3, <1>4, <1>5, <1>6 DEF Control

-----------------------------------------------------------------------------
(* The theorems *)

LEMMA InitSound == StopInit => EInv
<1> SUFFICES ASSUME StopInit PROVE EInv  OBVIOUS
<1>1. Started \in Executors /\ Idle \in Executors
  BY DEF Started, Idle, Executors, Places, Ended
<1>2. ex \in [Runs -> Executors]  BY <1>1 DEF StopInit
<1>3. StopTypeOK
  <2>1. 1 \in Runs /\ 0 \in 0..MaxControls  BY RunsAssumption DEF Runs
  <2>2. NewBody \in Bodies  BY DEF NewBody, Bodies, Waiting
  <2>3. "unknown" \in Outcomes  BY DEF Outcomes
  <2>4. <<>> \in Seq({"JOB_COMPLETED", "JOB_CANCELLED", "JOB_FAILED"})  OBVIOUS
  <2>. QED  BY <1>2, <2>1, <2>2, <2>3, <2>4 DEF StopInit, StopTypeOK, Bodies, Executors
<1>4. \A i \in Runs : ex[i].at \in {"none", "before"} /\ ~ex[i].scope
  BY DEF StopInit, Started, Idle
<1>5. Announcers  BY <1>4 DEF Announcers, Announcing
<1>6. AnnouncedIsDurable  BY DEF StopInit, AnnouncedIsDurable
<1>7. OneTurnScope  BY <1>4 DEF OneTurnScope
<1>. QED  BY <1>3, <1>5, <1>6, <1>7 DEF EInv

LEMMA StepSound == EInv /\ [StopNext]_stopVars => EInv'
<1> SUFFICES ASSUME EInv, [StopNext]_stopVars PROVE EInv'  OBVIOUS
<1>1. CASE \E i \in Runs : ExecutorStep(i)  BY <1>1, ExecutorSound
<1>2. CASE BodyStep
  <2>1. CASE \/ Collect \/ ReadySeen \/ TotalTimeoutReady \/ CancelledStopping
             \/ CancelledLeaving
    BY <2>1, QuietBody
  <2>2. CASE \/ StartupTimeout \/ TotalTimeout \/ GraceOver \/ CancelledWaiting
             \/ RoundOver \/ ForceOver \/ Settles
    BY <2>2, StoppingBody
  <2>3. CASE LeaveBody  BY <2>3, BodyLeaves
  <2>. QED  BY <1>2, <2>1, <2>2, <2>3 DEF BodyStep, StopStep
<1>3. CASE Control \/ ResumeAfterTask  BY <1>3, ControlSound
<1>4. CASE UNCHANGED stopVars
  BY <1>4 DEF stopVars, EInv, StopTypeOK, Announcers, Announcing, Completions,
              AnnouncedIsDurable, OneTurnScope
<1>. QED  BY <1>1, <1>2, <1>3, <1>4 DEF StopNext

(* The executor that is about to announce a completion is the only one,    *)
(* and nothing has been announced before it.                               *)
THEOREM StopIsSound == StopSpec => []EInv
<1>. QED  BY InitSound, StepSound, PTL DEF StopSpec

(* A completion is announced once and only when it is durable, and a Turn  *)
(* has one scope at a time, over every timeout, control and resume.        *)
THEOREM StopInvariance == StopSpec => []StopInv
<1>1. EInv => StopInv  BY DEF EInv, StopInv
<1>. QED  BY <1>1, StopIsSound, PTL

(* A body abandons a live executor only outside its writes and cleanups.   *)
THEOREM WritersAreAwaited == StopSpec => WritersKeepTheSlot
<1>1. ASSUME StopTypeOK, [StopNext]_stopVars, body.at # "leave", body'.at = "leave", Live(run)
      PROVE  Settled(run)
  <2>1. ~ExDone(run)  BY <1>1 DEF Live, ExDone
  <2>2. body \in Bodies  BY <1>1 DEF StopTypeOK, Bodies
  <2>3. CASE Stopped /\ (ExDone(run) \/ Settled(run))  BY <2>1, <2>3
  <2>4. ASSUME body' = body PROVE FALSE  BY <1>1, <2>4
  <2>5. CASE \E i \in Runs : ExecutorStep(i)
    <3>1. body' = body
      BY <2>5 DEF ExecutorStep, RunnerStarts, LoopBegins, StepFails, StepInterrupted, LoopEnds,
                  Converges, Closes, CleansUp, Releases, Publishes, Returns, Hit, ExOnly
    <3>. QED  BY <2>4, <3>1
  <2>6. CASE Control \/ ResumeAfterTask
    <3>1. body' = body \/ NextRun
      BY <2>6 DEF Control, Pause, ResumeNow, ResumeWaits, CancelLive, CancelPaused, ResumeAfterTask
    <3>2. ~NextRun  BY <1>1 DEF NextRun, NewBody
    <3>. QED  BY <2>4, <3>1, <3>2
  <2>7. CASE Collect  BY <2>1, <2>7 DEF Collect
  <2>8. CASE \/ ReadySeen \/ StartupTimeout \/ TotalTimeout \/ TotalTimeoutReady \/ GraceOver
             \/ CancelledStopping \/ CancelledLeaving \/ LeaveBody
    <3>1. body'.at \in {"ready", "round1", "grace", "done", body.at}
      BY <2>2, <2>8 DEF ReadySeen, StartupTimeout, TotalTimeout, TotalTimeoutReady, GraceOver,
                        CancelledStopping, CancelledLeaving, LeaveBody, Bodies
    <3>. QED  BY <1>1, <3>1
  <2>9. CASE CancelledWaiting  BY <1>1, <2>1, <2>2, <2>9 DEF CancelledWaiting, Bodies
  <2>10. CASE RoundOver  BY <1>1, <2>1, <2>2, <2>10 DEF RoundOver, Bodies
  <2>11. CASE ForceOver \/ Settles
    BY <1>1, <2>2, <2>3, <2>11 DEF ForceOver, Settles, Bodies
  <2>12. CASE UNCHANGED stopVars  BY <2>4, <2>12 DEF stopVars
  <2>. QED
    BY <1>1, <2>5, <2>6, <2>7, <2>8, <2>9, <2>10, <2>11, <2>12 DEF StopNext, BodyStep, StopStep
<1>2. EInv /\ [StopNext]_stopVars =>
        [body.at # "leave" /\ body'.at = "leave" /\ Live(run) => Settled(run)]_stopVars
  BY <1>1 DEF EInv
<1>. QED  BY <1>2, StopIsSound, PTL DEF StopSpec, WritersKeepTheSlot
=============================================================================
