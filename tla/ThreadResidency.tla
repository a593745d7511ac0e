-------------------------- MODULE ThreadResidency --------------------------
(***************************************************************************)
(* The runtime of one Thread and the tracker that owns it: executions      *)
(* acquire and release leases, a generation is built and unloaded by tasks *)
(* of the tracker, blockers keep it resident, and an idle sweep, the       *)
(* deletion of the session and the shutdown of the process close it.       *)
(* Everything runs on one event loop; an action is what a coroutine does   *)
(* between two awaits.                                                     *)
(***************************************************************************)
EXTENDS Naturals, FiniteSets

CONSTANTS
    Users,       \* executions that acquire the runtime
    Keys,        \* generation keys (configurations a runtime is built from)
    Blockers,    \* keys of blockers pushed by the debug owner
    MaxAcquires, \* bound on acquire calls
    MaxBuilds,   \* bound on generations
    MaxFaults,   \* bound on failing builders, listeners and scopes
    MaxCloses,   \* bound on close calls, retries included
    MaxPulls     \* bound on background work that blocks the Thread

ASSUME UsersAssumption == IsFiniteSet(Users)
ASSUME KeysAssumption == "none" \notin Keys
ASSUME BoundAssumption == {MaxAcquires, MaxBuilds, MaxFaults, MaxCloses, MaxPulls} \subseteq Nat

VARIABLES
    st,       \* _ThreadResidencyState of the Thread
    pull,     \* a pull source reports a blocker
    closing,  \* the tracker closes and refuses admissions
    fenced,   \* the session is being deleted: no new admission commits
    closer,   \* close(session_id) and close()
    built,    \* _next_generation
    budget

vars == <<st, pull, closing, fenced, closer, built, budget>>

Closers == {"session", "process"}
NoRuntime == [gen |-> 0, key |-> "none", leases |-> 0, closing |-> FALSE, open |-> TRUE]
NoUnload == [at |-> "none", forced |-> FALSE]
NoUser == [at |-> "none", key |-> "none", gen |-> 0]

(* A state as _ensure_state makes it: idle counts from now. build is the   *)
(* key of the running builder, scope the scope it fills.                   *)
NewState ==
    [runtime |-> NoRuntime, build |-> "none", scope |-> "none", unload |-> NoUnload,
     push |-> {}, idle |-> "fresh", user |-> [u \in Users |-> NoUser]]

Init ==
    /\ st = NewState /\ built = 0
    /\ pull = FALSE /\ closing = FALSE /\ fenced = FALSE
    /\ closer = [c \in Closers |-> [at |-> "idle", own |-> FALSE, err |-> FALSE]]
    /\ budget = [acquire |-> MaxAcquires, fault |-> MaxFaults,
                 close |-> MaxCloses, pull |-> MaxPulls]

-----------------------------------------------------------------------------
(* Bookkeeping *)

Resident(s) == s.runtime.gen > 0
Leasing(s) == {u \in Users : s.user[u].at = "lease"}
Pending(s) == {u \in Users : s.user[u].at \in {"retry", "unload", "build", "fail"}}
HasUsers(s) == Pending(s) # {} \/ s.runtime.leases > 0
Blocked(s) == s.push # {} \/ pull

(* _observe: blockers stop the idle clock; it restarts when the last one   *)
(* is gone, nobody uses the runtime and there is something to unload.      *)
Observe(s) ==
    IF Blocked(s) THEN [s EXCEPT !.idle = "blocked"]
    ELSE IF s.idle = "blocked" /\ ~HasUsers(s) /\ (Resident(s) \/ s.scope # "none")
         THEN [s EXCEPT !.idle = "fresh"] ELSE s

Cold(s) ==
    /\ ~Resident(s) /\ s.build = "none" /\ s.scope = "none"
    /\ s.unload.at = "none" /\ Pending(s) = {} /\ s.push = {}

(* _drop_cold_state: a cold state is forgotten. A closer that still holds  *)
(* the old object sees an empty one from then on.                          *)
Becomes(s, cl) ==
    /\ st' = IF Cold(s) THEN NewState ELSE s
    /\ closer' = [c \in Closers |-> [cl[c] EXCEPT !.own = @ /\ ~Cold(s)]]

(* Those who wait for a task are woken with its result; each resumes in a  *)
(* step of its own.                                                        *)
WakeUsers(s, place, ok) ==
    [s EXCEPT !.user = [u \in Users |->
        IF @[u].at = place THEN [@[u] EXCEPT !.at = IF ok THEN "retry" ELSE "fail"] ELSE @[u]]]

WakeClosers(place, to, ok) ==
    [c \in Closers |-> IF closer[c].at = place
                       THEN [closer[c] EXCEPT !.at = to, !.err = @ \/ ~ok] ELSE closer[c]]

(* _start_runtime_unload: one task per state, also for a later caller.     *)
StartUnload(s, forced) ==
    IF s.unload.at # "none" THEN s
    ELSE [s EXCEPT !.unload = [at |-> IF Resident(s) THEN "drain" ELSE "close",
                               forced |-> forced]]

-----------------------------------------------------------------------------
(* acquire *)

Place(s, u, at) == [s EXCEPT !.user[u].at = at]

Usable(s, u) ==
    s.runtime.key = s.user[u].key /\ ~s.runtime.closing /\ s.runtime.open

TakeLease(s, u) ==
    [s EXCEPT !.user[u].at = "lease", !.user[u].gen = s.runtime.gen,
              !.runtime.leases = @ + 1, !.idle = "blocked"]

Leave(s, u) ==
    LET gone == [s EXCEPT !.user[u] = NoUser]
    IN IF HasUsers(gone) THEN gone ELSE Observe(gone)

(* One pass of the loop: refuse, wait for an unload, replace a runtime     *)
(* that does not fit, take a lease, or wait for a build, after what a      *)
(* failed build has left open is closed.                                   *)
Try(s, u) ==
    CASE closing -> Leave(s, u)
      [] ~closing /\ s.unload.at # "none" -> Place(s, u, "unload")
      [] ~closing /\ s.unload.at = "none" /\ Resident(s) ->
            IF Usable(s, u) THEN TakeLease(s, u)
            ELSE Place(StartUnload(s, FALSE), u, "unload")
      [] ~closing /\ s.unload.at = "none" /\ ~Resident(s) ->
            IF s.build # "none" THEN Place(s, u, "build")
            ELSE IF s.scope # "none" THEN Place(StartUnload(s, FALSE), u, "unload")
            ELSE Place([s EXCEPT !.build = s.user[u].key, !.scope = "open"], u, "build")

Acquire(u, k) ==
    /\ st.user[u].at = "none" /\ ~closing /\ ~fenced /\ budget.acquire > 0
    /\ budget' = [budget EXCEPT !.acquire = @ - 1]
    /\ Becomes(Try([st EXCEPT !.user[u] = [at |-> "retry", key |-> k, gen |-> 0]], u), closer)
    /\ UNCHANGED <<pull, closing, fenced, built>>

Resume(u) ==
    /\ st.user[u].at = "retry"
    /\ Becomes(Try(st, u), closer)
    /\ UNCHANGED <<pull, closing, fenced, built, budget>>

(* The awaited task failed, the 30 s are over or the caller is cancelled.  *)
AcquireFails(u) ==
    /\ st.user[u].at \in {"unload", "build", "fail"}
    /\ Becomes(Leave(st, u), closer)
    /\ UNCHANGED <<pull, closing, fenced, built, budget>>

Release(u) ==
    /\ st.user[u].at = "lease"
    /\ LET gone == [st EXCEPT !.user[u] = NoUser, !.runtime.leases = @ - 1]
       IN Becomes(IF HasUsers(gone) THEN gone
                  ELSE Observe([gone EXCEPT !.idle = "blocked"]), closer)
    /\ UNCHANGED <<pull, closing, fenced, built, budget>>

-----------------------------------------------------------------------------
(* _build_runtime *)

BuildSucceeds ==
    /\ st.build # "none" /\ built < MaxBuilds
    /\ built' = built + 1
    /\ LET s == [st EXCEPT !.runtime = [NoRuntime EXCEPT !.gen = built + 1, !.key = st.build],
                           !.build = "none", !.scope = "none", !.idle = "blocked"]
       IN Becomes(WakeUsers(IF Pending(s) = {} THEN Observe(s) ELSE s, "build", TRUE),
                  WakeClosers("build", "built", TRUE))
    /\ UNCHANGED <<pull, closing, fenced, budget>>

(* Callbacks run first in, first out: whoever was woken has resumed before *)
(* a scope, which closes in a task of its own, is closed; that is where an *)
(* unload and a failing build end.                                         *)
AllResumed ==
    /\ \A u \in Users : st.user[u].at \notin {"retry", "fail"}
    /\ \A c \in Closers : closer[c].at \notin {"built", "over"}

(* The builder raises; its scope closes, or fails to and stays with the    *)
(* state.                                                                  *)
BuildFails ==
    /\ st.build # "none" /\ AllResumed /\ budget.fault > 0
    /\ budget' = [budget EXCEPT !.fault = @ - 1]
    /\ \E left \in {"none", "broken"} :
          Becomes(WakeUsers([st EXCEPT !.build = "none", !.scope = left], "build", FALSE),
                  WakeClosers("build", "built", FALSE))
    /\ UNCHANGED <<pull, closing, fenced, built>>

-----------------------------------------------------------------------------
(* _close_runtime *)

UnloadEnds(s, ok) ==
    Becomes(WakeUsers([s EXCEPT !.unload = NoUnload], "unload", ok),
            WakeClosers("unload", "over", ok))

(* Mutant: acquire does not clear the drained event.                       *)
DrainedAtOnce ==
    /\ st.unload.at = "drain"
    /\ Becomes([st EXCEPT !.runtime.closing = TRUE, !.unload.at = "listen"], closer)
    /\ UNCHANGED <<pull, closing, fenced, built, budget>>

(* Mutant: the blockers are not looked at again after the leases have      *)
(* drained.                                                                *)
DrainedUnchecked ==
    /\ st.unload.at = "drain" /\ st.runtime.leases = 0
    /\ Becomes([st EXCEPT !.runtime.closing = TRUE, !.unload.at = "listen"], closer)
    /\ UNCHANGED <<pull, closing, fenced, built, budget>>

Drained ==
    /\ st.unload.at = "drain" /\ st.runtime.leases = 0
    /\ IF ~st.unload.forced /\ Blocked(st)
       THEN UnloadEnds([Observe(st) EXCEPT !.runtime.closing = FALSE], FALSE)
       ELSE LET s == IF st.unload.forced THEN st ELSE Observe(st)
            IN Becomes([s EXCEPT !.runtime.closing = TRUE, !.unload.at = "listen"], closer)
    /\ UNCHANGED <<pull, closing, fenced, built, budget>>

ListenersDone ==
    /\ st.unload.at = "listen"
    /\ Becomes([st EXCEPT !.unload.at = "close"], closer)
    /\ UNCHANGED <<pull, closing, fenced, built, budget>>

ListenerFails ==
    /\ st.unload.at = "listen" /\ budget.fault > 0
    /\ budget' = [budget EXCEPT !.fault = @ - 1]
    /\ UnloadEnds([st EXCEPT !.runtime.closing = FALSE], FALSE)
    /\ UNCHANGED <<pull, closing, fenced, built>>

ScopeCloses ==
    /\ st.unload.at = "close" /\ AllResumed
    /\ UnloadEnds([st EXCEPT !.runtime = NoRuntime, !.scope = "none"], TRUE)
    /\ UNCHANGED <<pull, closing, fenced, built, budget>>

(* The scope stays with its owner in state close_failed, for a retry.      *)
ScopeFails ==
    /\ st.unload.at = "close" /\ AllResumed /\ budget.fault > 0
    /\ budget' = [budget EXCEPT !.fault = @ - 1]
    /\ UnloadEnds([st EXCEPT !.runtime.closing = FALSE, !.runtime.open = ~Resident(st),
                             !.scope = IF Resident(st) THEN @ ELSE "broken"], FALSE)
    /\ UNCHANGED <<pull, closing, fenced, built>>

-----------------------------------------------------------------------------
(* Blockers and the idle sweep *)

(* assert_blocker_admission: asked before the claim or the task is written.*)
AdmitsBlocker == ~Resident(st) \/ (~st.runtime.closing /\ st.runtime.open)

RegisterBlocker(b) ==
    /\ AdmitsBlocker /\ b \notin st.push /\ budget.pull > 0
    /\ budget' = [budget EXCEPT !.pull = @ - 1]
    /\ Becomes([st EXCEPT !.push = @ \cup {b}, !.idle = "blocked"], closer)
    /\ UNCHANGED <<pull, closing, fenced, built>>

ReleaseBlocker(b) ==
    /\ b \in st.push
    /\ LET s == [st EXCEPT !.push = @ \ {b}]
       IN Becomes(IF s.push = {} /\ s.idle = "blocked" /\ ~HasUsers(s) THEN Observe(s) ELSE s,
                  closer)
    /\ UNCHANGED <<pull, closing, fenced, built, budget>>

PullStarts ==
    /\ ~pull /\ AdmitsBlocker /\ ~fenced /\ budget.pull > 0
    /\ pull' = TRUE /\ budget' = [budget EXCEPT !.pull = @ - 1]
    /\ UNCHANGED <<st, closing, fenced, closer, built>>

PullEnds ==
    /\ pull /\ pull' = FALSE
    /\ UNCHANGED <<st, closing, fenced, closer, built, budget>>

(* The idle threshold is reached.                                          *)
Tick ==
    /\ st.idle = "fresh" /\ ~Cold(st)
    /\ st' = [st EXCEPT !.idle = "old"]
    /\ UNCHANGED <<pull, closing, fenced, closer, built, budget>>

(* Mutant: only a usable runtime is swept, one that failed to close stays. *)
SweepOpenOnly ==
    /\ ~Cold(st)
    /\ LET s == Observe(st)
           coldEligible == /\ Resident(s) /\ s.scope = "none" /\ Pending(s) = {}
                           /\ s.unload.at = "none" /\ s.runtime.leases = 0 /\ s.idle = "old"
                           /\ s.runtime.open
       IN /\ s # st \/ coldEligible
          /\ Becomes(IF coldEligible THEN StartUnload(s, FALSE) ELSE s, closer)
    /\ UNCHANGED <<pull, closing, fenced, built, budget>>

(* _sweep_thread: looks at the blockers and unloads what is cold eligible. *)
Sweep ==
    /\ ~Cold(st)
    /\ LET s == Observe(st)
           coldEligible == /\ Resident(s) /\ s.scope = "none" /\ Pending(s) = {}
                           /\ s.unload.at = "none" /\ s.runtime.leases = 0 /\ s.idle = "old"
       IN /\ s # st \/ coldEligible
          /\ Becomes(IF coldEligible THEN StartUnload(s, FALSE) ELSE s, closer)
    /\ UNCHANGED <<pull, closing, fenced, built, budget>>

-----------------------------------------------------------------------------
(* close *)

(* Deletion closes the fence before it drains; shutdown sets _closing.     *)
Close(c) ==
    /\ closer[c].at = "idle" /\ budget.close > 0
    /\ budget' = [budget EXCEPT !.close = @ - 1]
    /\ closer' = [closer EXCEPT ![c] = [at |-> IF Cold(st) THEN "done" ELSE "begin",
                                        own |-> ~Cold(st), err |-> FALSE]]
    /\ closing' = (closing \/ c = "process") /\ fenced' = (fenced \/ c = "session")
    /\ UNCHANGED <<st, pull, built>>

CloseWaitsBuild(c) ==
    /\ closer[c].at = "begin" /\ closer[c].own /\ st.build # "none"
    /\ closer' = [closer EXCEPT ![c].at = "build"]
    /\ UNCHANGED <<st, pull, closing, fenced, built, budget>>

Something(c) == closer[c].own /\ (Resident(st) \/ st.scope # "none")

CloseUnloads(c) ==
    /\ \/ closer[c].at = "begin" /\ (closer[c].own => st.build = "none")
       \/ closer[c].at = "built"
    /\ Something(c)
    /\ Becomes(StartUnload(st, c = "process"), [closer EXCEPT ![c].at = "unload"])
    /\ UNCHANGED <<pull, closing, fenced, built, budget>>

(* A session must have no state left; the process only needs the runtimes  *)
(* gone.                                                                   *)
CloseReturns(c) ==
    /\ \/ closer[c].at = "begin" /\ (closer[c].own => st.build = "none") /\ ~Something(c)
       \/ closer[c].at = "built" /\ ~Something(c)
       \/ closer[c].at = "over"
    /\ LET failed == closer[c].err \/ (c = "session" /\ closer[c].own)
       IN closer' = [closer EXCEPT ![c] = [at |-> IF failed THEN "idle" ELSE "done",
                                           own |-> FALSE, err |-> FALSE]]
    /\ UNCHANGED <<st, pull, closing, fenced, built, budget>>

(* The deadline of the close is over; the tasks it waited for go on.       *)
CloseGivesUp(c) ==
    /\ closer[c].at \in {"build", "unload"}
    /\ closer' = [closer EXCEPT ![c] = [at |-> "idle", own |-> FALSE, err |-> FALSE]]
    /\ UNCHANGED <<st, pull, closing, fenced, built, budget>>

-----------------------------------------------------------------------------
UserStep(u) == Resume(u) \/ AcquireFails(u) \/ Release(u)
UnloadStep == Drained \/ ListenersDone \/ ScopeCloses
CloserStep(c) == CloseWaitsBuild(c) \/ CloseUnloads(c) \/ CloseReturns(c)

Next ==
    \/ \E u \in Users : (\E k \in Keys : Acquire(u, k)) \/ UserStep(u)
    \/ BuildSucceeds \/ BuildFails
    \/ UnloadStep \/ ListenerFails \/ ScopeFails
    \/ \E b \in Blockers : RegisterBlocker(b) \/ ReleaseBlocker(b)
    \/ PullStarts \/ PullEnds \/ Tick \/ Sweep
    \/ \E c \in Closers : Close(c) \/ CloserStep(c) \/ CloseGivesUp(c)

Spec == Init /\ [][Next]_vars

(* Builders, listeners, scopes and woken callers go on; executions release *)
(* their leases; the sweep is called again and again and time passes.      *)
Fairness ==
    /\ \A u \in Users : WF_vars(Resume(u)) /\ WF_vars(Release(u))
                        /\ WF_vars(st.user[u].at = "fail" /\ AcquireFails(u))
    /\ WF_vars(BuildSucceeds) /\ WF_vars(UnloadStep)
    /\ WF_vars(Tick) /\ WF_vars(Sweep)
    /\ \A c \in Closers : WF_vars(CloserStep(c))

FairSpec == Spec /\ Fairness

-----------------------------------------------------------------------------
(* Properties *)

Runtimes == [gen : 0 .. MaxBuilds, key : Keys \cup {"none"}, leases : 0 .. Cardinality(Users),
             closing : BOOLEAN, open : BOOLEAN]

(* Type invariant of the tracker; a runtime has as many leases as there    *)
(* are executions that hold one.                                           *)
TypeOK ==
    /\ st.runtime \in Runtimes
    /\ st.build \in Keys \cup {"none"} /\ st.scope \in {"none", "open", "broken"}
    /\ st.unload \in [at : {"none", "drain", "listen", "close"}, forced : BOOLEAN]
    /\ st.push \subseteq Blockers /\ st.idle \in {"blocked", "fresh", "old"}
    /\ st.runtime.leases = Cardinality(Leasing(st))
    /\ pull \in BOOLEAN /\ closing \in BOOLEAN /\ fenced \in BOOLEAN

(* An execution that holds a lease works on the generation that is         *)
(* resident, built for its own key, whose scope is open and which no       *)
(* unload has begun to close (acquire 193-212, _close_runtime 354-361).    *)
LeaseIsUsable ==
    \A u \in Leasing(st) :
        /\ st.runtime.gen = st.user[u].gen /\ st.runtime.key = st.user[u].key
        /\ st.runtime.open /\ ~st.runtime.closing

(* While an idle unload, a change of key or the deletion of a session      *)
(* closes the runtime, neither a debug claim nor a background task of the  *)
(* Thread is active: a blocker that arrived during the drain has stopped   *)
(* the unload, a later one is refused (_close_runtime 355-358,             *)
(* assert_blocker_admission).                                              *)
UnloadRespectsBlockers ==
    st.runtime.closing /\ ~st.unload.forced => ~Blocked(st)

(* A Thread owns one scope: no builder runs, and no scope of a failed      *)
(* build waits, beside a resident runtime, no unload touches the scope a   *)
(* builder fills, and a running builder has an open scope of its own.      *)
OneScope ==
    /\ Resident(st) => st.build = "none" /\ st.scope = "none"
    /\ st.build # "none" => st.scope = "open" /\ st.unload.at = "none"
    /\ st.scope = "open" => st.build # "none"

(* Once the shutdown of the tracker, or the drain of a deleted session,    *)
(* has returned without an error no runtime, builder or scope exists, and  *)
(* none comes back (close 421-450).                                        *)
ClosedIsEmpty ==
    \A c \in Closers : closer[c].at = "done" =>
        ~Resident(st) /\ st.build = "none" /\ st.scope = "none"

(* The idle clock never runs while an execution holds the runtime, so a    *)
(* long execution does not count as idle time (_observe 656-660).          *)
IdleClockStops == st.idle # "blocked" => Leasing(st) = {}

(* The state invariant: a Thread has one scope, which is closed only when  *)
(* nobody blocks it, and none once the tracker is closed.                  *)
ResidencyInv ==
    /\ TypeOK
    /\ UnloadRespectsBlockers
    /\ OneScope
    /\ ClosedIsEmpty
    /\ IdleClockStops

(* A resident runtime that is no longer wanted and not blocked is          *)
(* unloaded in the end, also after its scope failed to close.              *)
IdleUnloads ==
    []<>(\/ ~Resident(st) \/ Blocked(st)
         \/ HasUsers(st))
=============================================================================
