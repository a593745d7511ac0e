--------------------------- MODULE OperationLease ---------------------------
(***************************************************************************)
(* What the table of operation leases of a session promises to whoever     *)
(* works under a lease: a lease is created once and only before the fence  *)
(* of the session is closed, is settled or taken over by compare and swap  *)
(* on its fencing token, never gets an earlier token, and stays as it is   *)
(* once it has ended.  There is no expiry: only a caller moves a lease.    *)
(***************************************************************************)
EXTENDS Naturals

CONSTANT Operations   \* operation identities of one session

VARIABLES
    lease,   \* the row of each operation: state and fencing token
    fence    \* lifecycle fence of the session: "active" or "deleting"

leaseVars == <<lease, fence>>

Ended == {"completed", "cancelled", "failed"}
Unsettled == {"active", "settling"}
NoLease == [state |-> "none", token |-> 0]

Init ==
    /\ lease = [o \in Operations |-> NoLease]
    /\ fence = "active"

(* create_or_get_lease: the first call inserts the row; a later one finds  *)
(* it and changes nothing.  A closed fence refuses both.                   *)
Created(old, new) ==
    /\ fence = "active" /\ old = NoLease
    /\ new = [state |-> "active", token |-> 1]

(* mark_lease_settling and settle_lease, the second with or without the    *)
(* first in the same step: under the current token, and to an outcome only *)
(* from a lease that has none.                                             *)
Advanced(old, new) ==
    /\ old.state \in Unsettled
    /\ \E s \in {"settling"} \cup Ended : new = [old EXCEPT !.state = s]

(* takeover_lease: the lease is active again, under the next token.        *)
TakenOver(old, new) ==
    /\ old.state \in Unsettled
    /\ new = [state |-> "active", token |-> old.token + 1]

LeaseStep(old, new) ==
    Created(old, new) \/ Advanced(old, new) \/ TakenOver(old, new)

(* A start settles several leases before anything else runs.               *)
MoveLeases ==
    /\ lease' \in [Operations -> [state : Unsettled \cup Ended \cup {"none"}, token : Nat]]
    /\ \A o \in Operations : lease'[o] = lease[o] \/ LeaseStep(lease[o], lease'[o])
    /\ UNCHANGED fence

CloseFence ==
    /\ fence = "active"
    /\ fence' = "deleting"
    /\ UNCHANGED lease

Next == MoveLeases \/ CloseFence

Spec == Init /\ [][Next]_leaseVars
=============================================================================
