--------------------------- MODULE PendingPolicy ---------------------------
(***************************************************************************)
(* The waiting requests of a session as its clients see and change them:   *)
(* each Thread has its own queue table with a revision, the backend keeps  *)
(* a mirror of the waiting requests and caches the sum of the revisions as *)
(* the version of the session, clients list the queue and change delivery  *)
(* policies or withdraw requests against the version they have seen.       *)
(***************************************************************************)
EXTENDS Naturals, Sequences

CONSTANTS
    Requests,    \* messages of one session
    Thread,      \* the Thread of each request
    Order,       \* the Threads in the order they are read
    Clients,
    Policies,
    MaxChanges,  \* bound on admissions, claims and withdrawals
    MaxLists,    \* bound on lists and restores
    MaxUpdates,  \* bound on updates that clients send
    MaxStarts    \* bound on restarts of the backend

ASSUME RequestAssumption ==
    /\ DOMAIN Thread = Requests /\ "none" \notin Requests
    /\ Order \in Seq({Thread[r] : r \in Requests})
    /\ \A r \in Requests : \E i \in 1..Len(Order) : Order[i] = Thread[r]
ASSUME ClientAssumption == "free" \notin Clients
ASSUME PolicyBounds == {MaxChanges, MaxLists, MaxUpdates, MaxStarts} \subseteq Nat

Threads == {Thread[r] : r \in Requests}

VARIABLES
    row,      \* execution_queue: phase and delivery policy
    rev,      \* execution_queue_revision of each Thread
    mirror,   \* JobPendingQueue: the policy of a waiting request, or "none"
    left,     \* jobs in memory that wait no more
    fresh,    \* requests just admitted: their jobs are in memory and wait for
              \* the restore that brings them into the mirror
    early,    \* observation: fresh requests whose row a client has closed
    version,  \* the cached version of the session
    lock,     \* the client that holds the dispatch lock, or "free"
    restore,  \* the restore in progress
    client,
    changed,  \* Threads that have changed since the client's list
    budget

jobs == <<mirror, left, fresh, early>>
policyVars == <<row, rev, jobs, version, lock, restore, client, changed, budget>>

(* The sum of the revisions f of the first n Threads, in the order they    *)
(* are read, and of all of them: the version of a session.                 *)
SumTo(f, n) ==
    LET S[i \in 0..n] == IF i = 0 THEN 0 ELSE S[i - 1] + f[Order[i]]
    IN S[n]
Total(f) == SumTo(f, Len(Order))

\* Reading starts with the first Thread and is over when `next' is past the last.
ReadAll == Len(Order) + 1

NoRequest == "none"
Idle == [at |-> "idle", next |-> 1, sum |-> 0, target |-> NoRequest, policy |-> "none",
         expect |-> 0, base |-> 0]
NoRestore == [at |-> "idle", next |-> 1, sum |-> 0, rows |-> [r \in Requests |-> "none"]]

PolicyInit ==
    /\ row = [r \in Requests |-> [phase |-> "absent", policy |-> "none"]]
    /\ rev = [t \in Threads |-> 0]
    /\ mirror = [r \in Requests |-> "none"] /\ left = {} /\ fresh = {} /\ early = {}
    /\ version = 0 /\ lock = "free"
    /\ restore = NoRestore
    /\ client = [c \in Clients |-> [op |-> Idle, listed |-> FALSE, version |-> 0]]
    /\ changed = [c \in Clients |-> {}]
    /\ budget = [change |-> MaxChanges, list |-> MaxLists, update |-> MaxUpdates, start |-> MaxStarts]

(* Triggers: every insert and update of a row counts the revision of its   *)
(* Thread.                                                                 *)
Written(t) ==
    /\ rev' = [rev EXCEPT ![t] = @ + 1]
    /\ changed' = [c \in Clients |-> changed[c] \cup {t}]

Spend(kind) == budget' = [budget EXCEPT ![kind] = @ - 1] /\ budget[kind] > 0

-----------------------------------------------------------------------------
(* What happens to requests *)

(* accept_job_input, under the lock of the restore.                        *)
Admit(r) ==
    /\ row[r].phase = "absent" /\ restore.at = "idle" /\ Spend("change")
    /\ \E p \in Policies : row' = [row EXCEPT ![r] = [phase |-> "queued", policy |-> p]]
    /\ Written(Thread[r]) /\ fresh' = fresh \cup {r}
    /\ UNCHANGED <<mirror, left, early, version, lock, restore, client>>

(* _start_next_pending claims the request and takes it off the mirror      *)
(* within the dispatch lock.                                               *)
Dispatch(r) ==
    /\ mirror[r] # "none" /\ lock = "free" /\ row[r].phase = "queued" /\ Spend("change")
    /\ row' = [row EXCEPT ![r].phase = "claimed"] /\ Written(Thread[r])
    /\ mirror' = [mirror EXCEPT ![r] = "none"] /\ left' = left \cup {r}
    /\ UNCHANGED <<fresh, early, version, lock, restore, client>>

(* remove, and one round of clear: a row that is closed already is not     *)
(* written again.                                                          *)
Withdraw(r) ==
    /\ mirror[r] # "none" /\ lock = "free" /\ Spend("change")
    /\ IF row[r].phase = "terminal"
       THEN UNCHANGED <<row, rev, changed>>
       ELSE row' = [row EXCEPT ![r].phase = "terminal"] /\ Written(Thread[r])
    /\ mirror' = [mirror EXCEPT ![r] = "none"] /\ left' = left \cup {r}
    /\ UNCHANGED <<fresh, early, version, lock, restore, client>>

(* control of a job that is queued in memory but not in the mirror yet: the *)
(* row is closed, then taking the job off the mirror fails and the request *)
(* raises.  The job stays queued.                                          *)
CancelsEarly(r) ==
    /\ r \in fresh /\ lock = "free" /\ Spend("change")
    /\ row' = [row EXCEPT ![r].phase = "terminal"] /\ Written(Thread[r])
    /\ fresh' = fresh \ {r} /\ early' = early \cup {r}
    /\ UNCHANGED <<mirror, left, version, lock, restore, client>>

-----------------------------------------------------------------------------
(* The restore that every request asks for first *)

RestoreBegins ==
    /\ restore.at = "idle" /\ Spend("list")
    /\ restore' = [NoRestore EXCEPT !.at = "read"]
    /\ UNCHANGED <<row, rev, jobs, version, lock, client, changed>>

RestoreReads ==
    LET t == Order[restore.next] IN
    /\ restore.at = "read" /\ restore.next < ReadAll
    /\ restore' = [restore EXCEPT
          !.next = @ + 1, !.sum = @ + rev[t],
          !.rows = [r \in Requests |->
              IF Thread[r] = t /\ row[r].phase = "queued" THEN row[r].policy ELSE @[r]]]
    /\ UNCHANGED <<row, rev, jobs, version, lock, client, changed, budget>>

(* Mutant: the state of the jobs in memory is not looked at.               *)
RestoreInstallsAll ==
    /\ restore.at = "read" /\ restore.next = ReadAll /\ lock = "free"
    /\ mirror' = restore.rows
    /\ version' = IF \E r \in Requests : restore.rows[r] # "none" THEN restore.sum ELSE 0
    /\ restore' = NoRestore /\ fresh' = {}
    /\ UNCHANGED <<row, rev, left, early, lock, client, changed, budget>>

(* _load_pending_records replaces the mirror by what was read, except for  *)
(* jobs that wait no more.                                                 *)
RestoreInstalls ==
    /\ restore.at = "read" /\ restore.next = ReadAll /\ lock = "free"
    /\ mirror' = [r \in Requests |-> IF r \in left THEN "none" ELSE restore.rows[r]]
    /\ version' = IF \E r \in Requests : restore.rows[r] # "none" THEN restore.sum ELSE 0
    /\ restore' = NoRestore /\ fresh' = {}
    /\ UNCHANGED <<row, rev, left, early, lock, client, changed, budget>>

-----------------------------------------------------------------------------
(* Clients *)

Op(c) == client[c].op
Step(c, op) == client' = [client EXCEPT ![c].op = op]

(* One Thread after the other is read on the way to the version.           *)
Reading == {"refresh", "check", "after"}

Reads(c) ==
    LET t == Order[Op(c).next] IN
    /\ Op(c).at \in Reading /\ Op(c).next < ReadAll
    /\ Step(c, [Op(c) EXCEPT !.next = @ + 1, !.sum = @ + rev[t],
          !.base = IF Op(c).target # NoRequest /\ Thread[Op(c).target] = t THEN rev[t] ELSE @])
    /\ UNCHANGED <<row, rev, jobs, version, lock, restore, changed, budget>>

(* list: refresh_version outside the lock ...                              *)
ListBegins(c) ==
    /\ Op(c).at = "idle" /\ Spend("list")
    /\ Step(c, [Idle EXCEPT !.at = "refresh"])
    /\ UNCHANGED <<row, rev, jobs, version, lock, restore, changed>>

VersionIsSet(c) ==
    /\ Op(c).at = "refresh" /\ Op(c).next = ReadAll
    /\ version' = Op(c).sum
    /\ Step(c, [Op(c) EXCEPT !.at = "list"])
    /\ UNCHANGED <<row, rev, jobs, lock, restore, changed, budget>>

(* ... and the mirror with the cached version inside it.                   *)
Lists(c) ==
    /\ Op(c).at = "list" /\ lock = "free"
    /\ client' = [client EXCEPT ![c] = [op |-> Idle, listed |-> TRUE, version |-> version]]
    /\ changed' = [changed EXCEPT ![c] = {}]
    /\ UNCHANGED <<row, rev, jobs, version, lock, restore, budget>>

(* update_policy takes the lock and reads all Threads.                     *)
UpdateBegins(c, r, p) ==
    /\ Op(c).at = "idle" /\ client[c].listed /\ p # mirror[r]
    /\ lock = "free" /\ mirror[r] # "none" /\ Spend("update")
    /\ lock' = c
    /\ Step(c, [Idle EXCEPT !.at = "check", !.target = r, !.policy = p,
                            !.expect = client[c].version])
    /\ UNCHANGED <<row, rev, jobs, version, restore, changed>>

Refused(c) ==
    /\ lock' = "free" /\ Step(c, Idle)
    /\ UNCHANGED <<row, rev, jobs, version, restore, changed, budget>>

(* Mutant: the version the client has seen is not compared.                *)
CommitsUnseen(c) ==
    LET r == Op(c).target IN
    /\ Op(c).at = "check" /\ Op(c).next = ReadAll
    /\ IF rev[Thread[r]] = Op(c).base /\ row[r].phase = "queued"
       THEN /\ row' = [row EXCEPT ![r].policy = Op(c).policy] /\ Written(Thread[r])
            /\ Step(c, [Op(c) EXCEPT !.at = "after", !.next = 1, !.sum = 0])
            /\ UNCHANGED <<jobs, version, lock, restore, budget>>
       ELSE Refused(c)

(* The version must be the one the client has seen and the revision of the *)
(* Thread the one just read.                                               *)
Commits(c) ==
    LET r == Op(c).target IN
    /\ Op(c).at = "check" /\ Op(c).next = ReadAll
    /\ IF Op(c).sum = Op(c).expect /\ rev[Thread[r]] = Op(c).base /\ row[r].phase = "queued"
       THEN /\ row' = [row EXCEPT ![r].policy = Op(c).policy] /\ Written(Thread[r])
            /\ Step(c, [Op(c) EXCEPT !.at = "after", !.next = 1, !.sum = 0])
            /\ UNCHANGED <<jobs, version, lock, restore, budget>>
       ELSE Refused(c)

UpdateEnds(c) ==
    /\ Op(c).at = "after" /\ Op(c).next = ReadAll
    /\ version' = Op(c).sum
    /\ mirror' = [mirror EXCEPT ![Op(c).target] = Op(c).policy]
    /\ lock' = "free" /\ Step(c, Idle)
    /\ UNCHANGED <<row, rev, left, fresh, early, restore, changed, budget>>

Restart ==
    /\ Spend("start")
    /\ mirror' = [r \in Requests |-> "none"] /\ left' = {} /\ fresh' = {}
    /\ version' = 0 /\ lock' = "free" /\ restore' = NoRestore
    /\ client' = [c \in Clients |-> [client[c] EXCEPT !.op = Idle]]
    /\ UNCHANGED <<row, rev, early, changed>>

-----------------------------------------------------------------------------
RestoreStep == RestoreBegins \/ RestoreReads \/ RestoreInstalls
ClientStep(c) ==
    \/ Reads(c)
    \/ ListBegins(c) \/ VersionIsSet(c) \/ Lists(c) \/ Commits(c) \/ UpdateEnds(c)

PolicyNext ==
    \/ \E r \in Requests : Admit(r) \/ Dispatch(r) \/ Withdraw(r) \/ CancelsEarly(r)
    \/ RestoreStep
    \/ \E c \in Clients : ClientStep(c)
    \/ \E c \in Clients, r \in Requests, p \in Policies : UpdateBegins(c, r, p)
    \/ Restart

PolicySpec == PolicyInit /\ [][PolicyNext]_policyVars

-----------------------------------------------------------------------------
(* Properties *)

(* Type invariant of the queue, its mirror and the calls of the clients.   *)
PolicyTypeOK ==
    /\ row \in [Requests -> [phase : {"absent", "queued", "claimed", "terminal"},
                             policy : Policies \cup {"none"}]]
    /\ rev \in [Threads -> Nat] /\ version \in Nat
    /\ mirror \in [Requests -> Policies \cup {"none"}]
    /\ {left, fresh, early} \subseteq SUBSET Requests
    /\ lock \in Clients \cup {"free"}

(* An update that carries a version commits only if the Thread of its      *)
(* request has not changed since the client's list: the sum that is read   *)
(* Thread by Thread, outside any common transaction, stands for all of     *)
(* them and the revision for the moment of the write (update_policy        *)
(* 184-193, update_execution_queue_policy 147-156).                        *)
UpdateIsFresh ==
    [][\A c \in Clients : Op(c).at = "check" /\ Op(c)'.at = "after" =>
          Thread[Op(c).target] \notin changed[c]]_policyVars

(* The cached version never runs ahead of the revisions, however reads,    *)
(* restores and restarts overlap: a later equality of the two means that   *)
(* nothing has happened in between.                                        *)
VersionNotAhead ==
    version <= Total(rev)

(* A request that is offered for dispatch waits in its Thread's queue: the *)
(* mirror never offers one that has been claimed or withdrawn, although a  *)
(* restore reads outside the dispatch lock.  One exception: a restore may  *)
(* install a request whose row a client closed early, because its job      *)
(* still says that it waits; the claim of such a request is refused.       *)
MirrorWaits ==
    lock = "free" => \A r \in Requests :
        mirror[r] # "none" => row[r].phase = "queued" \/ r \in early

(* The state invariant: version and mirror never tell more than the queues. *)
PolicyInv ==
    /\ PolicyTypeOK
    /\ VersionNotAhead
    /\ MirrorWaits

(* The mirror has no facts of its own: what it says of the policy of a     *)
(* waiting request is what the queue of its Thread says.  A restore that   *)
(* overtakes an update breaks it: see the README.                          *)
NoSecondTruth ==
    lock = "free" => \A r \in Requests : mirror[r] # "none" => mirror[r] = row[r].policy
=============================================================================
