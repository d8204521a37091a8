---------------------------- MODULE IntentAdmission ----------------------------
(***************************************************************************)
(* From a signed intent to the endpoint: IntentFirewall and                *)
(* ControllerBoundIntentFirewall, then PreconditionGate and                *)
(* PhysicalCommitGate, in the order authorize_and_commit calls them, the   *)
(* deprecated authorize_and_execute, and EndpointActionVerifier, which     *)
(* judges a controller-bound intent again where it arrives.                *)
(*                                                                         *)
(* A plain intent is judged by the wall clock, one bound to a controller   *)
(* by the time its caller passes, which it read when the call began.  Of   *)
(* the two, only the gate looks at the clock again.  The nonces spent are  *)
(* kept in memory, under a lock that is taken after everything else was    *)
(* judged, and a restart forgets them.                                     *)
(*                                                                         *)
(* Signatures, digests, scopes, devices and versions are left out: a call  *)
(* that fails one of them is refused like one that fails another check.    *)
(* The lease changes under the calls through ControllerLease.              *)
(***************************************************************************)
EXTENDS ControllerLease

CONSTANTS
  Callers,          \* concurrent calls of authorize_and_commit
  IntentNonces,   \* nonces of the policy issuer
  Capabilities,   \* windows of the capability leases it issued
  MaxWorldAge,    \* CapabilityLease.max_world_state_age_ms
  MaxWall,        \* bound: the last reading of the wall clock
  MaxChanges      \* bound: how often the lease of a resource changes

VARIABLES
  wall,     \* time.time()
  seen,     \* seen_nonces, _seen_nonces
  commits,  \* the calls under way
  sent,     \* history: how often a nonce reached the transport in this life
  arriving, \* the controller-bound intent that left last: it may arrive repeatedly
  spent,    \* _seen_nonces of the endpoint's verifier
  admitted  \* history: how often the endpoint admitted a nonce in its life

controlVars == <<wall, seen, commits, sent>>
endpointVars == <<arriving, spent, admitted>>
intentVars == <<leaseVars, controlVars, endpointVars>>

\* The windows of signed leases and intents.
Windows == {w \in [from : LeaseTimes, until : 0 .. MaxWall] : w.from < w.until}

ASSUME CapabilitiesAssumption == Capabilities \subseteq Windows

ASSUME WallAssumption == MaxWall \in Nat

\* SignedCapabilityLease, SignedControllerLeaseEvidence, and the intent that names their
\* digests: a SignedActionIntent when it names no lease, a ControllerBoundActionIntent
\* when it does.
Intents ==
  [lease : Leases \cup {NoLease}, capability : Capabilities, window : Windows,
   nonce : IntentNonces]

Within(inner, outer) == outer.from <= inner.from /\ inner.until <= outer.until

\* issue: the policy issuer signs an intent whose window lies within those of the
\* capability lease and of the evidence for a lease that was granted.
Issued ==
  {[lease |-> l, capability |-> c, window |-> w, nonce |-> n] :
     l \in issued \cup {NoLease}, c \in Capabilities, w \in Windows, n \in IntentNonces}

Issuable(i) ==
  /\ Within(i.window, i.capability)
  /\ i.lease # NoLease => Within(i.window, i.lease)

NotStarted == [step |-> "idle"]

\* A call: its intent, the time the caller read, at which it also observed the device,
\* what the gate read, and, for the properties, whether the lease was replaced since.
CallsUnderWay ==
  [step : {"judge", "nonce", "gate", "recheck", "dispatch"}, intent : Intents,
   now : 0 .. MaxWall, gateNow : 0 .. MaxWall, replaced : BOOLEAN]

NonceKeys == BOOLEAN \X IntentNonces

IntentTypeOK ==
  /\ LeaseTypeOK
  /\ wall \in 0 .. MaxWall
  /\ seen \subseteq NonceKeys
  /\ commits \in [Callers -> CallsUnderWay \cup {NotStarted}]
  /\ sent \in [NonceKeys -> Nat]
  /\ arriving \in Intents \cup {NoLease}
  /\ spent \subseteq IntentNonces
  /\ admitted \in [IntentNonces -> Nat]

IntentInit ==
  /\ LeaseInit
  /\ wall = 0
  /\ seen = {}
  /\ commits = [p \in Callers |-> NotStarted]
  /\ sent = [k \in NonceKeys |-> 0]
  /\ arriving = NoLease
  /\ spent = {}
  /\ admitted = [n \in IntentNonces |-> 0]

Bound(i) == i.lease # NoLease

\* The two firewalls have a set of nonces each; there is one policy issuer.
NonceKey(i) == <<Bound(i), i.nonce>>

CallAt(p, step) == commits[p].step = step

Proceed(p, step) == commits' = [commits EXCEPT ![p].step = step]

\* The intent, the capability and the lease have begun and not run out.
InForce(i, now) ==
  /\ i.window.from <= now /\ now < i.window.until
  /\ Within(i.window, i.capability)
  /\ Bound(i) => Within(i.window, i.lease)

-----------------------------------------------------------------------------
(* authorize_and_commit *)

BeginCall(p) ==
  /\ CallAt(p, "idle")
  /\ \E i \in Issued :
       /\ Issuable(i)
       /\ commits' = [commits EXCEPT ![p] =
            [step |-> "judge", intent |-> i, now |-> wall, gateNow |-> 0, replaced |-> FALSE]]
  /\ UNCHANGED <<leaseVars, endpointVars, wall, seen, sent>>

\* validate_intent asks the clock, validate the lease authority; both compare windows.
Judge(p) ==
  /\ CallAt(p, "judge")
  /\ LET i == commits[p].intent IN
       /\ InForce(i, IF Bound(i) THEN commits[p].now ELSE wall)
       /\ Bound(i) => Verdict(i.lease, commits[p].now) = "ALLOW"
  /\ Proceed(p, "nonce")
  /\ UNCHANGED <<leaseVars, endpointVars, wall, seen, sent>>

\* Under the firewall's lock: a nonce is spent by the first call that gets this far,
\* whatever becomes of it.
SpendNonce(p) ==
  /\ CallAt(p, "nonce")
  /\ NonceKey(commits[p].intent) \notin seen
  /\ seen' = seen \cup {NonceKey(commits[p].intent)}
  /\ Proceed(p, "gate")
  /\ UNCHANGED <<leaseVars, endpointVars, wall, sent>>

\* evaluate: the intent's deadline has not passed and the world was observed recently.
InTime(call, now) ==
  /\ now < call.intent.window.until
  /\ now - call.now <= MaxWorldAge

Gate(p) ==
  /\ CallAt(p, "gate")
  /\ InTime(commits[p], wall)
  /\ commits' = [commits EXCEPT ![p].step = "recheck", ![p].gateNow = wall]
  /\ UNCHANGED <<leaseVars, endpointVars, wall, seen, sent>>

\* Faulty variant: the gate is built without the authority and trusts the lease's window.
StillCurrentByItsWindow(call) == Bound(call.intent) => ~Expired(call.intent.lease, call.now)

\* commit: the authority is asked again, with the same time.
StillCurrent(call) == Bound(call.intent) => Verdict(call.intent.lease, call.now) = "ALLOW"

RecheckAuthority(p) ==
  /\ CallAt(p, "recheck")
  /\ StillCurrent(commits[p])
  /\ Proceed(p, "dispatch")
  /\ UNCHANGED <<leaseVars, endpointVars, wall, seen, sent>>

\* authorize_and_execute: a plain intent whose terms have not run out goes past the gate.
GateDeprecated(p) ==
  /\ CallAt(p, "gate")
  /\ ~Bound(commits[p].intent)
  /\ wall < commits[p].intent.window.until /\ wall < commits[p].intent.capability.until
  /\ commits' = [commits EXCEPT ![p].step = "dispatch", ![p].gateNow = wall]
  /\ UNCHANGED <<leaseVars, endpointVars, wall, seen, sent>>

\* dispatch_physical_transport
Dispatch(p) ==
  /\ CallAt(p, "dispatch")
  /\ sent' = [sent EXCEPT ![NonceKey(commits[p].intent)] = @ + 1]
  /\ arriving' = IF Bound(commits[p].intent) THEN commits[p].intent ELSE arriving
  /\ commits' = [commits EXCEPT ![p] = NotStarted]
  /\ UNCHANGED <<leaseVars, wall, seen, spent, admitted>>

\* Faulty variant: the nonce of a call that is refused is given back.
RefuseAndForget(p) ==
  /\ ~CallAt(p, "idle")
  /\ seen' = seen \ {NonceKey(commits[p].intent)}
  /\ commits' = [commits EXCEPT ![p] = NotStarted]
  /\ UNCHANGED <<leaseVars, endpointVars, wall, sent>>

\* A refusal, of these checks or of another; nothing is taken back.
RefuseCall(p) ==
  /\ ~CallAt(p, "idle")
  /\ commits' = [commits EXCEPT ![p] = NotStarted]
  /\ UNCHANGED <<leaseVars, endpointVars, wall, seen, sent>>

\* EndpointLedgerGuardedTransport.execute_intent, EndpointActionVerifier.admit: a
\* firewall of the endpoint's own, with the endpoint's clock, then the deadline again.
EndpointAdmit(i) ==
  /\ Bound(i)
  /\ InForce(i, wall)
  /\ Verdict(i.lease, wall) = "ALLOW"
  /\ i.nonce \notin spent
  /\ spent' = spent \cup {i.nonce}
  /\ admitted' = [admitted EXCEPT ![i.nonce] = @ + 1]
  /\ UNCHANGED <<leaseVars, controlVars, arriving>>

-----------------------------------------------------------------------------
(* What happens around the calls *)

\* The lease changes at the present time; a call whose lease is replaced before the gate
\* is through with it is marked.
LeaseReplaced ==
  /\ wall \in LeaseTimes
  /\ \E ttl \in Ttls, r \in Resources, c \in Controllers :
       /\ highest[r] < MaxChanges   \* bound
       /\ \/ Acquire(r, c, wall, ttl)
          \/ active[r] # NoLease /\ Handoff(active[r], c, wall, ttl)
  /\ commits' = [p \in Callers |->
       IF ~CallAt(p, "idle") /\ ~CallAt(p, "dispatch") /\ Bound(commits[p].intent)
         THEN [commits[p] EXCEPT !.replaced =
                 @ \/ active'[commits[p].intent.lease.on] # commits[p].intent.lease]
         ELSE commits[p]]
  /\ UNCHANGED <<endpointVars, wall, seen, sent>>

Elapse ==
  /\ wall < MaxWall   \* bound
  /\ wall' = wall + 1
  /\ UNCHANGED <<leaseVars, endpointVars, seen, commits, sent>>

\* The process ends with its calls and its memory; the lease file stays.
Restart ==
  /\ seen # {}
  /\ seen' = {}
  /\ commits' = [p \in Callers |-> NotStarted]
  /\ sent' = [k \in NonceKeys |-> 0]
  /\ UNCHANGED <<leaseVars, endpointVars, wall>>

IntentNext ==
  \/ \E p \in Callers :
       \/ BeginCall(p) \/ Judge(p) \/ SpendNonce(p)
       \/ Gate(p) \/ GateDeprecated(p) \/ RecheckAuthority(p) \/ Dispatch(p) \/ RefuseCall(p)
  \/ arriving # NoLease /\ EndpointAdmit(arriving)
  \/ LeaseReplaced \/ Elapse \/ Restart

IntentSpec == IntentInit /\ [][IntentNext]_intentVars

-----------------------------------------------------------------------------
(* Properties *)

\* A nonce reaches the transport once at most in the life of the control process,
\* whichever calls present it at the same time and whichever intents carry it, and is
\* admitted once at most by the endpoint, even when a control process that was
\* restarted sends it again (validate_intent, validate, admit).
AdmittedOncePerNonce ==
  /\ \A k \in NonceKeys : sent[k] <= 1
  /\ \A n \in IntentNonces : admitted[n] <= 1

\* A request that is about to leave was, when the gate looked at the clock, within the
\* term of its intent, of its capability and of its controller lease, and that lease was
\* in force without interruption from the firewall's check to the gate's, although the
\* firewall and the gate only know the time the caller read before (validate, evaluate,
\* commit).
DispatchedWithinItsTerms ==
  \A p \in Callers : CallAt(p, "dispatch") =>
    LET i == commits[p].intent IN
      /\ commits[p].gateNow < i.capability.until
      /\ Bound(i) => commits[p].gateNow < i.lease.until /\ ~commits[p].replaced

=============================================================================
