---------------------------- MODULE FencedExecution ----------------------------
(***************************************************************************)
(* The last steps before the device, at the endpoint.  A request passes    *)
(* the controller fence, claims its transaction, passes the fence again    *)
(* and is admitted by the handoff barrier; only then the delegate          *)
(* transport gets it.  Meanwhile an authority may record that a            *)
(* transaction was not applied, and a handoff may install the fence of a   *)
(* new controller: it holds the resource in the barrier first, so that     *)
(* nothing more is admitted, then moves the fence, then journals itself.   *)
(*                                                                         *)
(* Requests and handoffs run concurrently.  The fence has its file lock,   *)
(* the barrier the write lock of its database; the fence is read under the *)
(* barrier's lock, and written without it.  The finality store is one      *)
(* database transaction per method.  A crash ends every call; what is on   *)
(* disk stays.  Signatures and validity times may only refuse, and a       *)
(* refusal is possible before every step.                                  *)
(***************************************************************************)
EXTENDS ControllerFence

CONSTANTS
  Calls,         \* calls of FencedPhysicalTransport.execute_intent
  Handoffs,      \* calls of EndpointHandoffBarrier.install
  Transactions   \* transaction identifiers

ASSUME ClientsAssumption == Clients = Calls \cup Handoffs /\ Calls \cap Handoffs = {}

ASSUME ExistAssumption ==
  Resources # {} /\ Controllers # {} /\ Transactions # {} /\ MaxToken > 0

VARIABLES
  job,         \* where each call is
  locked,      \* holders of the write lock of the barrier's database
  claims,      \* execution_claims
  notApplied,  \* not_applied_transactions
  admissions,  \* endpoint_barrier_admissions: the binding of every transaction
  holds,       \* endpoint_barrier_holds: resources held
  journal      \* endpoint_barrier_handoffs

durableVars == <<claims, notApplied, admissions, holds, journal>>
execVars == <<fenceVars, job, locked, durableVars>>

AnyOf(S) == CHOOSE x \in S : TRUE

CallPcs == {"fence", "claim", "refence", "admit", "insert", "ready"}

HandoffPcs == {"hold", "held", "install", "confirm", "journal"}

Pcs == CallPcs \cup HandoffPcs \cup {"idle", "sent", "refused", "lost", "done"}

\* What a request or a directive says: the resource, the fence it carries, the
\* transaction of a request, the fence a directive replaces.
Jobs ==
  [pc : Pcs, on : Resources, to : Fences, of : Transactions, from : Fences \cup {NoFence}]

NewJob ==
  [pc |-> "idle", on |-> AnyOf(Resources), to |-> AnyOf(Fences),
   of |-> AnyOf(Transactions), from |-> NoFence]

Binding == [on : Resources, to : Fences]

\* The transaction was never admitted.
Unbound == [on |-> AnyOf(Resources), to |-> NoFence]

ExecTypeOK ==
  /\ FenceTypeOK
  /\ job \in [Clients -> Jobs]
  /\ locked \subseteq Clients /\ \A p, q \in locked : p = q
  /\ claims \subseteq Transactions
  /\ notApplied \subseteq Transactions
  /\ admissions \in [Transactions -> Binding \cup {Unbound}]
  /\ holds \subseteq Resources
  /\ journal \subseteq Handoffs

ExecInit ==
  /\ FenceInit
  /\ job = [p \in Clients |-> NewJob]
  /\ locked = {}
  /\ claims = {}
  /\ notApplied = {}
  /\ admissions = [t \in Transactions |-> Unbound]
  /\ holds = {}
  /\ journal = {}

-----------------------------------------------------------------------------
(* Helpers *)

At(p, pc) == job[p].pc = pc

Goto(p, pc) == job' = [job EXCEPT ![p].pc = pc]

\* Calls under way, other than in the middle of writing the fence.
UnderWay(p) == job[p].pc \in CallPcs \cup HandoffPcs /\ writing[p] = Nothing

\* The call is in accept.
Accepting(p) == job[p].pc \in {"fence", "refence", "install"}

\* Where a call goes on when accept has returned True.
AfterAccept(p) ==
  CASE At(p, "fence") -> "claim"
    [] At(p, "refence") -> "admit"
    [] OTHER -> "confirm"

\* The write lock of the barrier's database is free.
BarrierFree == locked = {}

\* The fence of the resource is read, and is the given one.
FenceIs(on, is) == Readable /\ fence[on] = is

-----------------------------------------------------------------------------
(* accept, as part of a call *)

AcceptCurrentToken(p) ==
  /\ UnderWay(p) /\ Accepting(p)
  /\ AcceptCurrent(job[p].on, job[p].to)
  /\ Goto(p, AfterAccept(p))
  /\ UNCHANGED <<locked, durableVars>>

AcceptNewToken(p) ==
  /\ UnderWay(p) /\ Accepting(p)
  /\ AcceptBegin(p, job[p].on, job[p].to)
  /\ UNCHANGED <<job, locked, durableVars>>

WriteBefore(p) ==
  /\ AdvanceAnchor(p) \/ SaveAnchor(p)
  /\ UNCHANGED <<job, locked, durableVars>>

\* The file is replaced; accept may still raise before it returns.
AcceptSaves(p) ==
  /\ Save(p)
  /\ Goto(p, AfterAccept(p)) \/ Goto(p, "refused")
  /\ UNCHANGED <<locked, durableVars>>

AcceptRaises(p) ==
  /\ WriteFails(p)
  /\ Goto(p, "refused")
  /\ UNCHANGED <<locked, durableVars>>

-----------------------------------------------------------------------------
(* FencedPhysicalTransport.execute_intent *)

\* permits_execution reads the finality store.
Begin(c, on, to, t) ==
  /\ At(c, "idle")
  /\ t \notin claims \cup notApplied
  /\ job' = [job EXCEPT ![c] =
       [pc |-> "fence", on |-> on, to |-> to, of |-> t, from |-> NoFence]]
  /\ UNCHANGED <<fenceVars, locked, durableVars>>

\* Faulty variant: a transaction recorded as not applied meanwhile is claimed.
ClaimableUnlessClaimed(t) == t \notin claims

\* claim_execution succeeds.
Claimable(t) == t \notin claims \cup notApplied

Claim(c) ==
  /\ At(c, "claim")
  /\ Claimable(job[c].of)
  /\ claims' = claims \cup {job[c].of}
  /\ Goto(c, "refence")
  /\ UNCHANGED <<fenceVars, locked, notApplied, admissions, holds, journal>>

\* Faulty variant: the fence is not compared again.
AdmissibleUnlessHeld(c) == admissions[job[c].of] = Unbound /\ job[c].on \notin holds

\* admit goes ahead: the transaction is new, nothing is held, the fence is current.
Admissible(c) ==
  /\ admissions[job[c].of] = Unbound
  /\ job[c].on \notin holds
  /\ FenceIs(job[c].on, job[c].to)

\* Faulty variant: the checks of admit are made outside the database transaction.
AdmitBeginUnlocked(c) ==
  /\ At(c, "admit")
  /\ Admissible(c)
  /\ Goto(c, "insert")
  /\ UNCHANGED <<fenceVars, locked, durableVars>>

\* admit takes the write lock and checks ...
AdmitBegin(c) ==
  /\ At(c, "admit")
  /\ BarrierFree
  /\ Admissible(c)
  /\ locked' = locked \cup {c}
  /\ Goto(c, "insert")
  /\ UNCHANGED <<fenceVars, durableVars>>

\* ... and commits the admission.
AdmitCommit(c) ==
  /\ At(c, "insert")
  /\ admissions' = [admissions EXCEPT ![job[c].of] = [on |-> job[c].on, to |-> job[c].to]]
  /\ locked' = locked \ {c}
  /\ Goto(c, "ready")
  /\ UNCHANGED <<fenceVars, claims, notApplied, holds, journal>>

\* The final admission check passes and the delegate transport gets the request.
Deliver(c) ==
  /\ At(c, "ready")
  /\ Goto(c, "sent")
  /\ UNCHANGED <<fenceVars, locked, durableVars>>

\* The call is refused or fails where it is: a foreign device, a stale or torn fence, a
\* spent claim, a failed check, an invalid directive, a busy or broken database.
Refuse(p) ==
  /\ UnderWay(p)
  /\ Goto(p, "refused")
  /\ locked' = locked \ {p}
  /\ UNCHANGED <<fenceVars, durableVars>>

-----------------------------------------------------------------------------
(* EndpointTransactionFinalityStore *)

\* record_not_applied and record_verified_not_applied
RecordNotApplied(t) ==
  /\ t \notin claims
  /\ notApplied' = notApplied \cup {t}
  /\ UNCHANGED <<fenceVars, job, locked, claims, admissions, holds, journal>>

-----------------------------------------------------------------------------
(* EndpointHandoffBarrier.install of a directive that hands a resource from *)
(* the controller of one token to another controller with the next.         *)

\* The directive is validated under the write lock ...
InstallBegin(h, on, holder) ==
  /\ At(h, "idle")
  /\ BarrierFree
  /\ Readable
  /\ fence[on] # NoFence /\ fence[on].holder # holder
  /\ fence[on].token < MaxToken   \* bound
  /\ on \notin holds
  /\ locked' = locked \cup {h}
  /\ job' = [job EXCEPT ![h] =
       [pc |-> "hold", on |-> on, to |-> [token |-> fence[on].token + 1, holder |-> holder],
        of |-> AnyOf(Transactions), from |-> fence[on]]]
  /\ UNCHANGED <<fenceVars, durableVars>>

\* ... and its hold committed, before the fence is touched.
InstallHold(h) ==
  /\ At(h, "hold")
  /\ holds' = holds \cup {job[h].on}
  /\ locked' = locked \ {h}
  /\ Goto(h, "held")
  /\ UNCHANGED <<fenceVars, claims, notApplied, admissions, journal>>

\* VerifiedEndpointFenceInstaller.install validates again, then accepts ...
InstallFence(h) ==
  /\ At(h, "held")
  /\ FenceIs(job[h].on, job[h].from)
  /\ Goto(h, "install")
  /\ UNCHANGED <<fenceVars, locked, durableVars>>

\* ... and reads the fence back.
InstallConfirm(h) ==
  /\ At(h, "confirm")
  /\ FenceIs(job[h].on, job[h].to)
  /\ Goto(h, "journal")
  /\ UNCHANGED <<fenceVars, locked, durableVars>>

InstallJournal(h) ==
  /\ At(h, "journal")
  /\ BarrierFree
  /\ journal' = journal \cup {h}
  /\ Goto(h, "done")
  /\ UNCHANGED <<fenceVars, locked, claims, notApplied, admissions, holds>>

\* Faulty variant: only admissions before the replaced token are outstanding.
OutstandingBefore(h, a) ==
  /\ a.on = job[h].on
  /\ a.to.holder = job[h].from.holder
  /\ a.to.token < job[h].from.token

\* An admission is_ready still counts against the handoff.
Outstanding(h, a) ==
  /\ a.on = job[h].on
  /\ a.to.holder = job[h].from.holder
  /\ a.to.token <= job[h].from.token

\* The journal's part of is_ready: the handoff is journaled, the fence its own, and
\* nothing the previous controller was admitted for is outstanding.  is_ready
\* answers False all the same, for want of a certificate of the device.
Drained(h) ==
  /\ h \in journal
  /\ FenceIs(job[h].on, job[h].to)
  /\ \A t \in Transactions : ~Outstanding(h, admissions[t])

-----------------------------------------------------------------------------

\* The endpoint's process dies and is started again.
ExecCrash ==
  /\ FenceCrash
  /\ job' = [p \in Clients |->
       IF job[p].pc \in CallPcs \cup HandoffPcs THEN [job[p] EXCEPT !.pc = "lost"] ELSE job[p]]
  /\ locked' = {}
  /\ UNCHANGED durableVars

CallStep(c) ==
  \/ \E on \in Resources, to \in Fences, t \in Transactions : Begin(c, on, to, t)
  \/ Claim(c)
  \/ AdmitBegin(c)
  \/ AdmitCommit(c)
  \/ Deliver(c)

HandoffStep(h) ==
  \/ \E on \in Resources, holder \in Controllers : InstallBegin(h, on, holder)
  \/ InstallHold(h)
  \/ InstallFence(h)
  \/ InstallConfirm(h)
  \/ InstallJournal(h)

AcceptStep(p) ==
  \/ AcceptCurrentToken(p)
  \/ AcceptNewToken(p)
  \/ WriteBefore(p)
  \/ AcceptSaves(p)
  \/ AcceptRaises(p)

ExecNext ==
  \/ \E c \in Calls : CallStep(c)
  \/ \E h \in Handoffs : HandoffStep(h)
  \/ \E p \in Clients : AcceptStep(p) \/ Refuse(p)
  \/ \E t \in Transactions : RecordNotApplied(t)
  \/ ExecCrash

ExecSpec == ExecInit /\ [][ExecNext]_execVars

-----------------------------------------------------------------------------
(* Properties *)

\* A transaction is handed to the device once at most, however often its request is
\* repeated, and never once it is on record as not applied: the early look at the
\* record decides nothing, the claim does (permits_execution, claim_execution).
SentOnceUnlessClosed ==
  \A c \in Calls :
    At(c, "sent") =>
      /\ job[c].of \notin notApplied
      /\ \A d \in Calls : At(d, "sent") /\ job[d].of = job[c].of => d = c

\* The barrier admits the requests of a resource in the order of their tokens: a
\* controller that has passed the fence twice is not admitted any more once a
\* request of its successor was (execute_intent, admit).
AdmittedInTokenOrder ==
  [][\A t \in Transactions :
       admissions'[t] # admissions[t] =>
         \A u \in Transactions :
           admissions[u].on = admissions'[t].on =>
             admissions[u].to.token <= admissions'[t].to.token]_execVars

\* From the hold on, no request is admitted to the resource, of the old controller
\* or of the new one, whatever had been checked before (admit, install).
HoldStopsAdmissions ==
  [][\A t \in Transactions :
       admissions'[t] # admissions[t] => admissions'[t].on \notin holds]_execVars

\* When the journal shows a handoff as drained, nothing of the previous controller
\* reaches the device any more: the admission journal misses no request that is on
\* its way, through crashes and repeated requests (execute_intent, is_ready).
DrainedExcludesPredecessor ==
  [][\A h \in Handoffs, c \in Calls :
       /\ Drained(h)
       /\ ~At(c, "sent") /\ job'[c].pc = "sent"
       /\ job[c].on = job[h].on /\ job[c].to.holder = job[h].from.holder
       => job[c].to.token > job[h].from.token]_execVars

=============================================================================
