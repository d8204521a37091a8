---------------------------- MODULE ControllerLease ----------------------------
(***************************************************************************)
(* ActiveControllerLeaseAuthority: which controller may command a          *)
(* resource, until when, and under which fencing token.                    *)
(*                                                                         *)
(* The state is a file.  Every method takes the file lock, loads the file, *)
(* and replaces it as a whole before it answers, so a method is one step   *)
(* between processes.  A save that fails before the file is replaced       *)
(* changes nothing.  One that fails afterwards, or a crash there, leaves   *)
(* the new lease in the file although no caller has it; nothing depends on *)
(* who was told, so that is the same step.                                 *)
(*                                                                         *)
(* The caller supplies the time, and nothing compares two of its times:    *)
(* it may go backwards from one call to the next.  A reinstallation of the *)
(* control plane loses the file; the tokens then start again, and only a   *)
(* signed reauthorization that names the token of the device takes the     *)
(* authority past it.                                                      *)
(***************************************************************************)
EXTENDS Integers

CONSTANTS
  Resources,       \* what is controlled
  Controllers,     \* who may hold a lease
  LeaseTimes,      \* the times callers pass as now
  Ttls,            \* the durations they ask for
  Nonces,          \* nonces of trusted reauthorization grants
  NoLease,         \* the resource was never leased
  MaxToken,        \* bound: the highest token issued
  MaxReinstalls    \* bound: how often the file is lost

ASSUME LeaseTimesAssumption ==
  /\ LeaseTimes \subseteq Int
  /\ Ttls \subseteq Nat \ {0}
  /\ MaxToken \in Nat

VARIABLES
  active,      \* _active: the lease in force
  highest,     \* _highest_tokens
  usedNonces,  \* _used_reauthorization_nonces
  issued,      \* history: the leases committed since the file was created
  reinstalls   \* how often the file was lost

leaseVars == <<active, highest, usedNonces, issued, reinstalls>>

\* ActiveControllerLease
Leases ==
  [on : Resources, holder : Controllers, token : Nat \ {0}, from : LeaseTimes, until : Int]

ASSUME NoLeaseAssumption == NoLease \notin Leases

LeaseTypeOK ==
  /\ active \in [Resources -> Leases \cup {NoLease}]
  /\ highest \in [Resources -> Nat]
  /\ usedNonces \subseteq Nonces
  /\ issued \subseteq Leases
  /\ reinstalls \in Nat

LeaseInit ==
  /\ active = [r \in Resources |-> NoLease]
  /\ highest = [r \in Resources |-> 0]
  /\ usedNonces = {}
  /\ issued = {}
  /\ reinstalls = 0

\* Faulty variant: the next token follows the active lease's controller, so that the
\* same controller gets its token again.
NextTokenOfHolder(r, c) ==
  IF active[r] # NoLease /\ active[r].holder = c THEN highest[r] ELSE highest[r] + 1

\* The token of the next lease, of controller c.
NextToken(r, c) == highest[r] + 1

NewLease(r, c, token, now, ttl) ==
  [on |-> r, holder |-> c, token |-> token, from |-> now, until |-> now + ttl]

\* _save_state: the file is replaced by one with the new lease in force.
Put(lease) ==
  /\ lease.token <= MaxToken   \* bound
  /\ active' = [active EXCEPT ![lease.on] = lease]
  /\ highest' = [highest EXCEPT ![lease.on] = lease.token]
  /\ issued' = issued \cup {lease}
  /\ UNCHANGED reinstalls

Expired(lease, now) == now >= lease.until

Acquire(r, c, now, ttl) ==
  /\ active[r] # NoLease => Expired(active[r], now)
  /\ Put(NewLease(r, c, NextToken(r, c), now, ttl))
  /\ UNCHANGED usedNonces

\* Handoff of a lease the caller holds to controller c.
Handoff(lease, c, now, ttl) ==
  /\ active[lease.on] = lease
  /\ ~Expired(lease, now)
  /\ Put(NewLease(lease.on, c, NextToken(lease.on, c), now, ttl))
  /\ UNCHANGED usedNonces

\* SignedControllerReauthorizationGrant, from a trusted issuer: the token it names is
\* that of the device, and may be ahead of the file's.
Reauthorizations ==
  [on : Resources, holder : Controllers, previous : 1 .. MaxToken,
   from : LeaseTimes, until : LeaseTimes, nonce : Nonces]

\* reauthorize replaces the lease in force even when it has not expired.
Reauthorize(grant, now, ttl) ==
  /\ grant.from <= now /\ now < grant.until
  /\ grant.nonce \notin usedNonces
  /\ grant.previous >= highest[grant.on]
  /\ Put(NewLease(grant.on, grant.holder, grant.previous + 1, now, ttl))
  /\ usedNonces' = usedNonces \cup {grant.nonce}

\* The file is lost with the installation, and every process with it.
Reinstall ==
  /\ reinstalls < MaxReinstalls   \* bound
  /\ active' = [r \in Resources |-> NoLease]
  /\ highest' = [r \in Resources |-> 0]
  /\ usedNonces' = {}
  /\ issued' = {}
  /\ reinstalls' = reinstalls + 1

\* validate
Verdict(lease, now) ==
  CASE active[lease.on] = NoLease -> "UNKNOWN_RESOURCE"
    [] active[lease.on] # NoLease /\ active[lease.on] # lease -> "STALE_FENCE"
    [] active[lease.on] = lease /\ Expired(lease, now) -> "EXPIRED"
    [] OTHER -> "ALLOW"

LeaseStep ==
  \E now \in LeaseTimes, ttl \in Ttls :
    \/ \E r \in Resources, c \in Controllers : Acquire(r, c, now, ttl)
    \/ \E lease \in issued, c \in Controllers : Handoff(lease, c, now, ttl)
    \/ \E grant \in Reauthorizations : Reauthorize(grant, now, ttl)

LeaseNext == LeaseStep \/ Reinstall

LeaseSpec == LeaseInit /\ [][LeaseNext]_leaseVars

-----------------------------------------------------------------------------
(* Properties *)

\* A token names one lease: however acquisitions, handoffs and reauthorizations follow
\* one another, at whatever times, no two leases of a resource share a token
\* (acquire, handoff, reauthorize).
TokenNamesLease ==
  \A a, b \in issued : a.on = b.on /\ a.token = b.token => a = b

\* A lease that has been replaced never comes into force again: neither an expired
\* clock reading, nor a handoff to the earlier controller, nor the same request
\* repeated brings it back (validate).
ReplacedStaysReplaced ==
  [][\A lease \in issued \cap issued' :
       active[lease.on] # lease => active'[lease.on] # lease]_leaseVars

=============================================================================
