------------------------------ MODULE CommandGate ------------------------------
(***************************************************************************)
(* ControllerAuthorityGate: several gates, each in a process of its own,   *)
(* judge signed commands against the lease authority and against one file  *)
(* of watermarks, the token and command sequence last accepted for each    *)
(* resource.                                                               *)
(*                                                                         *)
(* A call takes the gate's file lock, loads the file, asks the authority,  *)
(* which has a lock of its own, checks the command, replaces the file, and *)
(* only then answers.  Leases are acquired, handed over and reauthorized   *)
(* between any two of these steps, and a crash may end a call at each.     *)
(***************************************************************************)
EXTENDS ControllerLease

CONSTANTS
  Gates,        \* gate objects on one file
  Keys,         \* controller keys
  MaxSequence   \* bound: the highest command sequence

ASSUME SequenceAssumption == MaxSequence \in Nat

VARIABLES
  credentials,  \* signed grants and remote results in circulation
  marks,        \* the file: what was last accepted for each resource
  owner,        \* gates that hold the file lock
  job,          \* where each gate's call is
  accepted      \* history: the commands answered ALLOW

gateVars == <<leaseVars, credentials, marks, owner, job, accepted>>

\* A grant binds a lease to the key of its controller; so does a remote result.
Credentials == [lease : Leases, key : Keys]

\* SignedControllerCommandProof: the credential it names, and the key that signed it.
Proofs == [about : Credentials, sequence : 1 .. MaxSequence, key : Keys]

Marks == [token : Nat, sequence : 0 .. MaxSequence]

NoMark == [token |-> 0, sequence |-> 0]

Commands == [on : Resources, token : Nat, sequence : 1 .. MaxSequence]

Idle == [pc |-> "idle"]

Allowed == [pc |-> "allowed"]

\* A call's credential, its command, the watermarks it loaded, and, for the properties,
\* the highest token when it was made.
Calls ==
  [pc : {"judge", "save", "answer"}, lease : Leases,
   sequence : 1 .. MaxSequence, seen : [Resources -> Marks], floor : Nat]

GateTypeOK ==
  /\ LeaseTypeOK
  /\ credentials \subseteq Credentials
  /\ marks \in [Resources -> Marks]
  /\ owner \subseteq Gates /\ \A g, h \in owner : g = h
  /\ job \in [Gates -> Calls \cup {Idle, Allowed}]
  /\ accepted \subseteq Commands

GateInit ==
  /\ LeaseInit
  /\ credentials = {}
  /\ marks = [r \in Resources |-> NoMark]
  /\ owner = {}
  /\ job = [g \in Gates |-> Idle]
  /\ accepted = {}

At(g, pc) == job[g].pc = pc

Goto(g, pc) == job' = [job EXCEPT ![g].pc = pc]

Command(g) ==
  [on |-> job[g].lease.on, token |-> job[g].lease.token, sequence |-> job[g].sequence]

-----------------------------------------------------------------------------
(* Steps around the gate *)

LeaseChanges ==
  /\ LeaseStep
  /\ UNCHANGED <<credentials, marks, owner, job, accepted>>

\* ControllerLeaseGrantIssuer.issue: only the lease in force is bound to a key.
IssueGrant(lease, key, now) ==
  /\ Verdict(lease, now) = "ALLOW"
  /\ credentials' = credentials \cup {[lease |-> lease, key |-> key]}
  /\ UNCHANGED <<leaseVars, marks, owner, job, accepted>>

-----------------------------------------------------------------------------
(* ControllerAuthorityGate.validate, validate_remote *)

\* Faulty variant: each call goes on with the file another call may be replacing.
LockAlwaysFree(g) == TRUE

LockFree(g) == owner = {}

\* The lock is taken and the file loaded.
GateCall(g, lease, sequence) ==
  /\ job[g] \in {Idle, Allowed}
  /\ LockFree(g)
  /\ owner' = owner \cup {g}
  /\ job' = [job EXCEPT ![g] =
       [pc |-> "judge", lease |-> lease, sequence |-> sequence, seen |-> marks,
        floor |-> highest[lease.on]]]
  /\ UNCHANGED <<leaseVars, credentials, marks, accepted>>

\* The grant verifier, or the result verifier: a signed credential within its term.
CredentialAllowed(credential, now) ==
  /\ credential \in credentials
  /\ credential.lease.from <= now /\ now < credential.lease.until

\* The command verifier: the proof names this credential and is signed with its key.
ProofAllowed(proof, credential) ==
  /\ proof.about = credential
  /\ proof.key = credential.key

\* Neither an older token than the last one accepted, nor a sequence of its token again.
NotSpent(mark, lease, sequence) ==
  /\ lease.token >= mark.token
  /\ lease.token = mark.token => sequence > mark.sequence

\* Faulty variant: the authority is not asked, the signed credential is enough.
JudgeCredential(g, credential, proof, now) ==
  /\ At(g, "judge")
  /\ credential.lease = job[g].lease /\ proof.sequence = job[g].sequence
  /\ CredentialAllowed(credential, now)
  /\ ProofAllowed(proof, credential)
  /\ NotSpent(job[g].seen[credential.lease.on], credential.lease, proof.sequence)
  /\ Goto(g, "save")
  /\ UNCHANGED <<leaseVars, credentials, marks, owner, accepted>>

GateJudge(g, credential, proof, now) ==
  /\ At(g, "judge")
  /\ credential.lease = job[g].lease /\ proof.sequence = job[g].sequence
  /\ CredentialAllowed(credential, now)
  /\ Verdict(credential.lease, now) = "ALLOW"
  /\ ProofAllowed(proof, credential)
  /\ NotSpent(job[g].seen[credential.lease.on], credential.lease, proof.sequence)
  /\ Goto(g, "save")
  /\ UNCHANGED <<leaseVars, credentials, marks, owner, accepted>>

\* The file is replaced by what was loaded, with the new watermark.
GateSave(g) ==
  /\ At(g, "save")
  /\ marks' = [job[g].seen EXCEPT ![job[g].lease.on] =
       [token |-> job[g].lease.token, sequence |-> job[g].sequence]]
  /\ Goto(g, "answer")
  /\ UNCHANGED <<leaseVars, credentials, owner, accepted>>

GateAnswer(g) ==
  /\ At(g, "answer")
  /\ accepted' = accepted \cup {Command(g)}
  /\ owner' = owner \ {g}
  /\ job' = [job EXCEPT ![g] = Allowed]
  /\ UNCHANGED <<leaseVars, credentials, marks>>

\* A check fails or a file cannot be read or written; or the process dies and its lock
\* is released, after the watermark was saved too.
GateEnds(g) ==
  /\ job[g] \notin {Idle, Allowed}
  /\ owner' = owner \ {g}
  /\ job' = [job EXCEPT ![g] = Idle]
  /\ UNCHANGED <<leaseVars, credentials, marks, accepted>>

\* A reinstallation takes the file of leases and all processes; the watermarks are in
\* a file of their own.
ReinstallAuthority ==
  /\ Reinstall
  /\ job' = [g \in Gates |-> Idle]
  /\ owner' = {}
  /\ UNCHANGED <<credentials, marks, accepted>>

GateStep(g) ==
  \/ \E c \in credentials, n \in 1 .. MaxSequence : GateCall(g, c.lease, n)
  \/ \E c \in credentials, n \in 1 .. MaxSequence, k \in Keys, now \in LeaseTimes :
       GateJudge(g, c, [about |-> c, sequence |-> n, key |-> k], now)
  \/ GateSave(g)
  \/ GateAnswer(g)
  \/ GateEnds(g)

GateNext ==
  \/ LeaseChanges
  \/ \E lease \in issued, key \in Keys, now \in LeaseTimes : IssueGrant(lease, key, now)
  \/ \E g \in Gates : GateStep(g)
  \/ ReinstallAuthority

GateSpec == GateInit /\ [][GateNext]_gateVars

-----------------------------------------------------------------------------
(* Properties *)

\* The command was accepted before the other.
Before(c, d) == c.token < d.token \/ (c.token = d.token /\ c.sequence < d.sequence)

\* Whichever gate they come to, and whatever crashes, restarts and reinstallations of
\* the authority lie between, the commands accepted for a resource follow one another
\* in the order of tokens and, within a token, of sequences: none is accepted twice,
\* and none of a controller after one of its successor (validate, validate_remote).
AcceptedInOrder ==
  [][\A g \in Gates :
       At(g, "answer") /\ job'[g] = Allowed =>
         \A c \in accepted : c.on = job[g].lease.on => Before(c, Command(g))]_gateVars

\* A lease that was replaced before the call was made opens no gate, although its
\* credential is signed and within its term and no command of the successor has been
\* seen; one replaced during the call may still be the one judged (validate).
FencedFromTheStart ==
  \A g \in Gates : At(g, "answer") => job[g].lease.token >= job[g].floor

=============================================================================
