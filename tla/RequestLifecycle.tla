--------------------------- MODULE RequestLifecycle ---------------------------
(***************************************************************************)
(* What capbrokerd promises about one entry of remote-requests.json,       *)
(* whoever decides it: the local authority, a signed approver, or an       *)
(* operator of the permission-upgrade flow.  A request is stored pending,  *)
(* is decided at most once, and a decision is never changed.  An approval  *)
(* always carries a lease, since every client refuses one without it; a    *)
(* pending or denied request never does.                                   *)
(***************************************************************************)
CONSTANTS Requests,   \* request ids
          Leases,     \* encrypted leases with their expiry
          NoLease     \* encrypted_lease = nil, not in Leases

VARIABLES status,     \* Status of each request, "absent" before it is created
          lease       \* EncryptedLease and LeaseExpiresAt of each request

vars == <<status, lease>>

Init == /\ status = [r \in Requests |-> "absent"]
        /\ lease = [r \in Requests |-> NoLease]

\* remoteStore.create of a request with Status pending.
Submit(r) == /\ status[r] = "absent"
             /\ status' = [status EXCEPT ![r] = "pending"]
             /\ UNCHANGED lease

\* A remoteStore.update that sets Status approved and stores the lease.
Grant(r) == /\ status[r] = "pending"
            /\ status' = [status EXCEPT ![r] = "approved"]
            /\ lease'[r] \in Leases
            /\ lease' = [lease EXCEPT ![r] = lease'[r]]

\* A remoteStore.update that sets Status denied.
Refuse(r) == /\ status[r] = "pending"
             /\ status' = [status EXCEPT ![r] = "denied"]
             /\ UNCHANGED lease

Next == \E r \in Requests : Submit(r) \/ Grant(r) \/ Refuse(r)

Spec == Init /\ [][Next]_vars
=============================================================================
