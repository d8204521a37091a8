---------------------------- MODULE PhysicalCommit ----------------------------
(***************************************************************************)
(* The way of a physical commit through the device fabric bridge, and of a *)
(* lost outcome back to trust.  A commit is admitted by the supervisor,    *)
(* admitted again before the commit gate, and a last time at the           *)
(* transport.  When its outcome is lost, the bridge records the            *)
(* transaction durably and holds it in the supervisor.  A recovery         *)
(* coordinator releases it once an observation of the device and the       *)
(* endpoint's finality report agree.  A crash loses the supervisor and     *)
(* everything in flight in the process; the record and the endpoint stay.  *)
(*                                                                         *)
(* Commits and recoveries run on threads of their own.  The supervisor and *)
(* the store serialize their methods, so every call of one is a step.  A   *)
(* clock is read somewhere between the caller's previous step and the call *)
(* that uses the reading: job.since remembers that previous step.          *)
(*                                                                         *)
(* Validation of the intent, lease and authority between the admissions    *)
(* may only refuse the commit, and is one way to abandon it.               *)
(***************************************************************************)
EXTENDS ProtectionSupervisor, FiniteSets

CONSTANTS
  Commits,      \* calls of authorize_and_commit
  Queries,      \* calls of ProtectionPhysicalRecoveryCoordinator.resolve
  None,         \* no query
  MaxClock,     \* bound: the last instant
  MaxCrashes,   \* bound: how many times the process crashes
  WallOf        \* the wall clock at every instant

ASSUME CommitBoundsAssumption ==
  /\ MaxClock \in Nat
  /\ MaxCrashes \in Nat

ASSUME WallAssumption == WallOf \in [0..MaxClock -> Int]

ASSUME SomeTransactionAssumption == Transactions # {}

ASSUME NoneAssumption == None \notin Queries

VARIABLES
  clock,        \* the monotonic clock
  record,       \* PhysicalRecoveryStore
  ledger,       \* EndpointExecutionLedger
  request,      \* how far each commit's request has come at the endpoint
  job,          \* where each commit call is
  recovery,     \* where each resolve call is
  boot,         \* the start of the process: restore_pending
  crashes,      \* crashes so far
  lapsed        \* history: commits whose permission has lapsed since admission

INSTANCE PhysicalRecoveryStore
INSTANCE EndpointExecutionLedger

processVars == <<job, recovery, boot, crashes>>
commitVars == <<clock, record, ledger, request, processVars>>
allVars == <<supervisorVars, commitVars, lapsed>>

Instants == 0..MaxClock

StampAt(i) == [wall |-> WallOf[i], mono |-> i]

\* What a commit call does next, and how it ended.  again: an exception of
\* _record_indeterminate is answered by recording once more.
InProgress == {"admitted", "cleared", "sent", "record", "hold", "latch"}

Ended == {"executed", "rejected", "failed", "raised", "lost"}

CommitPcs == InProgress \cup Ended \cup {"idle"}

Jobs ==
  [pc : CommitPcs, of : Transactions, generation : Nat, since : Instants,
   recordedAt : Int, again : BOOLEAN]

AnyTransaction == CHOOSE t \in Transactions : TRUE

NewJob ==
  [pc |-> "idle", of |-> AnyTransaction, generation |-> 0, since |-> 0,
   recordedAt |-> 0, again |-> FALSE]

\* A resolve call: the instant its caller read, the record it saw.
Recoveries ==
  [pc : {"idle", "query", "close", "release", "confirm"}, of : Transactions,
   at : Instants, seen : Records \cup {Absent}]

NewRecovery == [pc |-> "idle", of |-> AnyTransaction, at |-> 0, seen |-> Absent]

\* restore_pending: the instant its caller read, the records it saw, those it has
\* still to deal with, and whether the coordinator has endpoint verifiers.
Boots ==
  [pc : {"down", "restore", "release", "confirm", "up"}, of : Transactions, at : Instants,
   seen : [Transactions -> Records \cup {Absent}], todo : SUBSET Transactions, verifying : BOOLEAN]

NewBoot ==
  [pc |-> "down", of |-> AnyTransaction, at |-> 0,
   seen |-> [t \in Transactions |-> Absent], todo |-> {}, verifying |-> FALSE]

\* No restore is under way; the caller has still to read the clock.
Down == [NewBoot EXCEPT !.at = clock]

CommitTypeOK ==
  /\ SupervisorTypeOK /\ RecordTypeOK /\ LedgerTypeOK
  /\ clock \in Instants
  /\ request \in [Commits -> {"unsent", "flying", "claimed", "applied", "refused"}]
  /\ job \in [Commits -> Jobs]
  /\ recovery \in [Queries -> Recoveries]
  /\ boot \in Boots
  /\ crashes \in 0..MaxCrashes
  /\ lapsed \subseteq Commits

CommitInit ==
  /\ SupervisorInit /\ RecordInit /\ LedgerInit
  /\ clock = 0
  /\ request = [c \in Commits |-> "unsent"]
  /\ job = [c \in Commits |-> NewJob]
  /\ recovery = [q \in Queries |-> NewRecovery]
  /\ boot = NewBoot
  /\ crashes = 0
  /\ lapsed = {}

-----------------------------------------------------------------------------
(* Helpers *)

At(c, pc) == job[c].pc = pc

\* The commit goes on at pc, or ends there.
Goto(c, pc) ==
  job' = [job EXCEPT ![c] =
    IF pc \in Ended THEN [NewJob EXCEPT !.pc = pc, !.of = job[c].of]
                    ELSE [job[c] EXCEPT !.pc = pc, !.since = clock]]

\* Instants at which the commit may have read the clock for its next call.
Readings(c) == job[c].since..clock

\* interrupt as a caller sees it: raised says whether it raised.
InterruptFor(now, transactions, raised) ==
  IF InterruptRaises(now)
    THEN raised = TRUE /\ UNCHANGED supervisorVars
    ELSE raised = FALSE /\ InterruptUnknown(now, transactions)

\* The device has changed for the transaction.
Applied(t) == \E c \in Commits : job[c].of = t /\ request[c] = "applied"

-----------------------------------------------------------------------------
(* Gen3DeviceFabricBridge.authorize_and_commit *)

\* The first _protection_rejection: the commit remembers the generation.
Admit(c, t) ==
  /\ At(c, "idle")
  /\ boot.pc = "up"
  /\ \E granted \in BOOLEAN :
       /\ RequireAutomation(StampAt(clock), granted)
       /\ job' = [job EXCEPT ![c] =
            IF granted
              THEN [NewJob EXCEPT !.pc = "admitted", !.of = t, !.since = clock,
                                  !.generation = admissionGeneration']
              ELSE [NewJob EXCEPT !.pc = "rejected", !.of = t]]
  /\ UNCHANGED <<clock, record, ledger, request, recovery, boot, crashes>>

\* Faulty variant: any permission will do.
ReadmittedInAnyGeneration(c, granted) == granted

\* Admission of a commit admitted before: it must be of the same generation.
Readmitted(c, granted) == granted /\ admissionGeneration' = job[c].generation

Readmit(c, pc) ==
  /\ \E i \in Readings(c), granted \in BOOLEAN :
       /\ RequireAutomation(StampAt(i), granted)
       /\ Goto(c, IF Readmitted(c, granted) THEN pc ELSE "rejected")
  /\ UNCHANGED <<clock, record, ledger, recovery, boot, crashes>>

\* The second _protection_rejection, before the commit gate.
Recheck(c) == At(c, "admitted") /\ Readmit(c, "cleared") /\ UNCHANGED request

\* _ProtectionBoundTransport: the last admission, then the request is sent.
Send(c) ==
  /\ At(c, "cleared")
  /\ Readmit(c, "sent")
  /\ request' = [request EXCEPT ![c] = IF job'[c].pc = "sent" THEN "flying" ELSE @]

\* A validation before the gate, or a precondition of the gate, refuses.
Abandon(c) ==
  /\ job[c].pc \in {"admitted", "cleared"}
  /\ Goto(c, "rejected")
  /\ UNCHANGED <<supervisorVars, clock, record, ledger, request, recovery, boot, crashes>>

\* The transport refuses the request before it leaves: a REJECTED receipt.
Refuse(c) ==
  /\ At(c, "sent")
  /\ request[c] = "flying"
  /\ request' = [request EXCEPT ![c] = "refused"]
  /\ Goto(c, "rejected")
  /\ UNCHANGED <<supervisorVars, clock, record, ledger, recovery, boot, crashes>>

\* The transport's receipt says that the request was executed.
Executed(c) ==
  /\ At(c, "sent")
  /\ request[c] = "applied"
  /\ Goto(c, "executed")
  /\ UNCHANGED <<supervisorVars, clock, record, ledger, request, recovery, boot, crashes>>

\* The outcome is lost: _record_indeterminate reads the wall clock.
LoseOutcome(c, again) ==
  job' = [job EXCEPT ![c] =
    [NewJob EXCEPT !.pc = "record", !.of = job[c].of, !.since = clock,
                   !.recordedAt = WallOf[clock], !.again = again]]

\* Timeout, cancellation, an exception, a failed or foreign receipt, or a failed
\* post-state observation.  A mismatch that the observation shows is recorded inside
\* the try block of the observation, whose handler records again.
Indeterminate(c) ==
  /\ job[c].pc \in {"cleared", "sent"}
  /\ \E again \in BOOLEAN :
       /\ again => request[c] = "applied"
       /\ LoseOutcome(c, again)
  /\ UNCHANGED <<supervisorVars, clock, record, ledger, request, recovery, boot, crashes>>

\* recovery_store.record succeeds ...
RecordIndeterminate(c) ==
  /\ At(c, "record")
  /\ Record(job[c].of, Fresh(c, job[c].recordedAt))
  /\ Goto(c, "hold")
  /\ UNCHANGED <<supervisorVars, clock, ledger, request, recovery, boot, crashes>>

\* ... or raises: a conflicting record, or any failure of the database.
RecordFails(c) ==
  /\ At(c, "record")
  /\ Goto(c, "latch")
  /\ UNCHANGED <<supervisorVars, clock, record, ledger, request, recovery, boot, crashes>>

\* The interruption of _record_indeterminate, with the wall reading taken before
\* the record and a monotonic reading taken after it.  An exception of interrupt
\* leaves the call, or is answered by recording again.
Hold(c) ==
  /\ job[c].pc \in {"hold", "latch"}
  /\ \E i \in Readings(c), raised \in BOOLEAN :
       /\ InterruptFor([wall |-> job[c].recordedAt, mono |-> i],
                       IF At(c, "hold") THEN {job[c].of} ELSE {}, raised)
       /\ IF raised /\ job[c].again
            THEN LoseOutcome(c, FALSE)
            ELSE Goto(c, IF raised \/ At(c, "latch") THEN "raised" ELSE "failed")
  /\ UNCHANGED <<clock, record, ledger, request, recovery, boot, crashes>>

-----------------------------------------------------------------------------
(* EndpointLedgerGuardedTransport, on the other side of the network *)

\* A request arrives, and is claimed unless its transaction is already decided.
Claim(c) ==
  /\ request[c] = "flying"
  /\ IF ledger[job[c].of] = "UNDECIDED"
       THEN /\ ClaimExecution(job[c].of)
            /\ request' = [request EXCEPT ![c] = "claimed"]
       ELSE /\ request' = [request EXCEPT ![c] = "refused"]
            /\ UNCHANGED ledger
  /\ UNCHANGED <<supervisorVars, clock, record, processVars>>

\* The device changes.
Apply(c) ==
  /\ request[c] = "claimed"
  /\ request' = [request EXCEPT ![c] = "applied"]
  /\ UNCHANGED <<supervisorVars, clock, record, ledger, processVars>>

-----------------------------------------------------------------------------
(* PhysicalRecoveryReconciler.reconcile *)

\* An observation of the device.  Others change the device too, so what it shows
\* need not be what became of the transaction.
Reconcile(t, status) ==
  /\ ReconcileObservation(t, status, WallOf[clock])
  /\ UNCHANGED <<supervisorVars, clock, ledger, request, processVars>>

-----------------------------------------------------------------------------
(* ProtectionPhysicalRecoveryCoordinator.resolve *)

InRecovery(q, pc) == recovery[q].pc = pc

Proceed(q, pc) == recovery' = [recovery EXCEPT ![q].pc = pc]

\* The call returns or raises.
Leave(q) == recovery' = [recovery EXCEPT ![q] = NewRecovery]

\* Faulty variant: a record released once is finished.
ResolvableUnlessReleased(t) ==
  Exists(t) /\ record[t].status \in Verified /\ ~Released(t)

\* resolve goes ahead with a record whose observation was conclusive.
Resolvable(t) == Exists(t) /\ record[t].status \in Verified

\* Faulty variant: a conclusive observation is enough.
FirstStepWithoutFinality(t) == IF record[t].status \in Verified THEN "release" ELSE "query"

\* Finality is queried unless it is archived.
FirstStep(t) == IF Closed(t) THEN "release" ELSE "query"

BeginResolve(q, t) ==
  /\ InRecovery(q, "idle")
  /\ Resolvable(t)
  /\ recovery' = [recovery EXCEPT ![q] =
       [pc |-> FirstStep(t), of |-> t, at |-> clock, seen |-> record[t]]]
  /\ UNCHANGED <<supervisorVars, clock, record, ledger, request, job, boot, crashes>>

\* The endpoint's terminal evidence: APPLIED once the device has changed,
\* NOT_APPLIED once the ledger is closed to the transaction.
TerminalEvidence(t, outcome) ==
  \/ outcome = "VERIFIED_APPLIED" /\ Applied(t) /\ UNCHANGED ledger
  \/ outcome = "VERIFIED_NOT_APPLIED" /\ CloseIfUnstarted(t)

\* Faulty variant: authentic evidence matches whatever it reports.
FinalityMatchesAnyOutcome(seen, outcome) == seen.status \in Verified

\* _finality_matches: the outcome is the one the observation showed.
FinalityMatches(seen, outcome) == seen.status = outcome

QueryFinality(q) ==
  /\ InRecovery(q, "query")
  /\ \E outcome \in Verified :
       /\ TerminalEvidence(recovery[q].of, outcome)
       /\ IF FinalityMatches(recovery[q].seen, outcome) THEN Proceed(q, "close") ELSE Leave(q)
  /\ UNCHANGED <<supervisorVars, clock, record, request, job, boot, crashes>>

\* confirm_finality archives the report, unless the record has changed.
CloseFinality(q) ==
  /\ InRecovery(q, "close")
  /\ LET r == recovery[q] IN
       IF FinalityRaises(r.of, r.seen, q)
         THEN Leave(q) /\ UNCHANGED record
         ELSE /\ ConfirmFinality(r.of, r.seen, q)
              /\ recovery' = [recovery EXCEPT ![q].pc = "release",
                                              ![q].seen = ClosedForm(r.seen, q)]
  /\ UNCHANGED <<supervisorVars, clock, ledger, request, job, boot, crashes>>

\* supervisor.resolve_physical_transaction, with the clocks the caller read.
ReleaseSupervisor(q) ==
  /\ InRecovery(q, "release")
  /\ ResolvePhysicalTransaction(recovery[q].of, StampAt(recovery[q].at))
  /\ Proceed(q, "confirm")
  /\ UNCHANGED <<clock, record, ledger, request, job, boot, crashes>>

ConfirmRelease(q) ==
  /\ InRecovery(q, "confirm")
  /\ IF ReleaseRaises(recovery[q].of, recovery[q].seen)
       THEN UNCHANGED record
       ELSE ConfirmSupervisorRelease(recovery[q].of, recovery[q].seen)
  /\ Leave(q)
  /\ UNCHANGED <<supervisorVars, clock, ledger, request, job, boot, crashes>>

\* The finality source or the database fails.
RecoveryFails(q) ==
  /\ recovery[q].pc \in {"query", "close", "confirm"}
  /\ Leave(q)
  /\ UNCHANGED <<supervisorVars, clock, record, ledger, request, job, boot, crashes>>

-----------------------------------------------------------------------------
(* ProtectionPhysicalRecoveryCoordinator.restore_pending *)

Booting(pc) == boot.pc = pc

\* Faulty variant: a record that was reconciled is not pending.
PendingUntilReconciled(t) == Exists(t) /\ record[t].status = "RECOVERY_REQUIRED"

\* The records a restart has to deal with.
Pending(t) == Exists(t) /\ ~Released(t)

\* Before the bridge exists the application may restore with a coordinator of its
\* own; the bridge's constructor restores with one that has no verifiers.
BeginRestore(verifying) ==
  /\ Booting("down")
  /\ \E i \in boot.at..clock :
       boot' = [NewBoot EXCEPT !.pc = "restore", !.at = i, !.seen = record,
                               !.todo = {t \in Transactions : Pending(t)},
                               !.verifying = verifying]
  /\ UNCHANGED <<supervisorVars, clock, record, ledger, request, job, recovery, crashes>>

\* After a restore the application goes on; after the constructor's, the bridge is up.
Restored == IF boot.verifying THEN Down ELSE [NewBoot EXCEPT !.pc = "up"]

\* PHYSICAL_RECOVERY_RESTORE_FAILURE: the records cannot be read.
RestoreFails ==
  /\ Booting("down")
  /\ \E i \in boot.at..clock, raised \in BOOLEAN :
       /\ InterruptFor(StampAt(i), {}, raised)
       /\ boot' = IF raised THEN Down ELSE [NewBoot EXCEPT !.pc = "up"]
  /\ UNCHANGED <<clock, record, ledger, request, job, recovery, crashes>>

\* The report of the record the restore saw is archived and can be verified.
Archived(t) == boot.verifying /\ boot.seen[t].report # None

\* PENDING_PHYSICAL_RECOVERY: a record that was not released is held again, and
\* released at once when its report is archived and can be verified.
RestoreHold(t) ==
  /\ Booting("restore")
  /\ t \in boot.todo
  /\ \E raised \in BOOLEAN :
       /\ InterruptFor(StampAt(boot.at), {t}, raised)
       /\ boot' =
            IF raised THEN Down
            ELSE [boot EXCEPT
                   !.todo = @ \ {t},
                   !.of = IF Archived(t) THEN t ELSE @,
                   !.pc = IF Archived(t) THEN "release" ELSE @]
  /\ UNCHANGED <<clock, record, ledger, request, job, recovery, crashes>>

RestoreRelease ==
  /\ Booting("release")
  /\ ResolvePhysicalTransaction(boot.of, StampAt(boot.at))
  /\ boot' = [boot EXCEPT !.pc = "confirm"]
  /\ UNCHANGED <<clock, record, ledger, request, job, recovery, crashes>>

RestoreConfirm ==
  /\ Booting("confirm")
  /\ IF ReleaseRaises(boot.of, boot.seen[boot.of])
       THEN boot' = Down /\ UNCHANGED record
       ELSE /\ ConfirmSupervisorRelease(boot.of, boot.seen[boot.of])
            /\ boot' = [boot EXCEPT !.pc = "restore", !.of = AnyTransaction]
  /\ UNCHANGED <<supervisorVars, clock, ledger, request, job, recovery, crashes>>

RestoreDone ==
  /\ Booting("restore")
  /\ boot.todo = {}
  /\ boot' = Restored
  /\ UNCHANGED <<supervisorVars, clock, record, ledger, request, job, recovery, crashes>>

-----------------------------------------------------------------------------
(* The rest of the process, crashes and time *)

\* A refresh with evidence captured now.
Reassess ==
  /\ Validate("ELIGIBLE", StampAt(clock), StampAt(clock))
  /\ UNCHANGED commitVars

\* An interruption by any other component.
Disturb ==
  /\ InterruptKnown(StampAt(clock))
  /\ UNCHANGED commitVars

NewSupervisor ==
  /\ state' = PAUSED
  /\ interruptedAt' = NoTime /\ interruptedMonotonic' = NoTime
  /\ lastObservedAt' = NoTime /\ lastObservedMonotonic' = NoTime
  /\ reactivationAfter' = NoTime /\ reactivationAfterMonotonic' = NoTime
  /\ physicalStateUnresolved' = FALSE
  /\ unresolvedTransactions' = {}
  /\ admissionGeneration' = 0

\* The process dies and is started again with a new supervisor.
Crash ==
  /\ crashes < MaxCrashes   \* bound
  /\ crashes' = crashes + 1
  /\ NewSupervisor
  /\ job' = [c \in Commits |->
       IF At(c, "idle") THEN NewJob ELSE [NewJob EXCEPT !.pc = "lost", !.of = job[c].of]]
  /\ recovery' = [q \in Queries |-> NewRecovery]
  /\ boot' = Down
  /\ UNCHANGED <<clock, record, ledger, request>>

Tick ==
  /\ clock < MaxClock   \* bound
  /\ clock' = clock + 1
  /\ UNCHANGED <<supervisorVars, record, ledger, request, processVars>>

CommitStep(c) ==
  \/ \E t \in Transactions : Admit(c, t)
  \/ Recheck(c)
  \/ Send(c)
  \/ Abandon(c)
  \/ Refuse(c)
  \/ Executed(c)
  \/ Indeterminate(c)
  \/ RecordIndeterminate(c)
  \/ RecordFails(c)
  \/ Hold(c)
  \/ Claim(c)
  \/ Apply(c)

RecoveryStep(q) ==
  \/ \E t \in Transactions : BeginResolve(q, t)
  \/ QueryFinality(q)
  \/ CloseFinality(q)
  \/ ReleaseSupervisor(q)
  \/ ConfirmRelease(q)
  \/ RecoveryFails(q)

RestoreStep ==
  \/ \E verifying \in BOOLEAN : BeginRestore(verifying)
  \/ RestoreFails
  \/ \E t \in Transactions : RestoreHold(t)
  \/ RestoreRelease
  \/ RestoreConfirm
  \/ RestoreDone

CommitNext ==
  /\ \/ \E c \in Commits : CommitStep(c)
     \/ \E t \in Transactions, status \in Statuses : Reconcile(t, status)
     \/ \E q \in Queries : RecoveryStep(q)
     \/ RestoreStep
     \/ Reassess
     \/ Disturb
     \/ Crash
     \/ Tick
  /\ lapsed' = {c \in Commits :
       /\ job'[c].pc \in InProgress
       /\ c \in lapsed \/ (~At(c, "idle") /\ state = ACTIVE /\ state' # ACTIVE)}

CommitSpec == CommitInit /\ [][CommitNext]_allVars

(***************************************************************************)
(* The application keeps calling resolve for every record it may resolve,  *)
(* and the endpoint and the database do not fail for ever.                 *)
(***************************************************************************)
RecoveryFairness ==
  \A q \in Queries :
    /\ \A t \in Transactions : SF_allVars(BeginResolve(q, t) /\ CommitNext)
    /\ SF_allVars(QueryFinality(q) /\ CommitNext)
    /\ SF_allVars(CloseFinality(q) /\ CommitNext)
    /\ WF_allVars(ReleaseSupervisor(q) /\ CommitNext)
    /\ SF_allVars(ConfirmRelease(q) /\ CommitNext)

FairCommitSpec == CommitSpec /\ RecoveryFairness

-----------------------------------------------------------------------------
(* Properties *)

\* A request leaves for the device only under the stretch of permission that
\* admitted its commit: automation that was withdrawn and granted again in between
\* does not count, whichever thread withdrew it (authorize_and_commit's three
\* admissions and the generation they compare).
SentUnderItsAdmission ==
  [][\A c \in Commits : ~At(c, "sent") /\ job'[c].pc = "sent" => c \notin lapsed']_allVars

\* Once the bridge is up, every transaction whose effect is recorded and not closed
\* is held in the supervisor, across restarts and whatever recoveries run: except
\* while its own commit has still to interrupt, or was refused the interruption
\* (_record_indeterminate, restore_pending, resolve).
OwedIsHeld ==
  Booting("up") =>
    \A t \in Transactions : Owed(t) =>
      \/ t \in unresolvedTransactions
      \/ physicalStateUnresolved
      \/ job[record[t].of].pc \in {"record", "hold", "latch", "raised"}

\* What a closed record says is what became of the transaction, and can no longer
\* change: a request that is still under way does not execute after its transaction
\* was closed as not applied, and none executes twice (resolve, the execution ledger).
ClosedIsFinal ==
  \A t \in Transactions :
    /\ Cardinality({c \in Commits : job[c].of = t /\ request[c] = "applied"}) <= 1
    /\ Closed(t) => (record[t].status = "VERIFIED_APPLIED" <=> Applied(t))
    /\ Closed(t) /\ ~Applied(t) => ledger[t] = "NOT_APPLIED"

\* The supervisor lets go of a transaction, other than by a crash, only when its
\* finality is already archived: a crash right after cannot lose the reason.
ReleasedOnlyWhenClosed ==
  [][\A t \in unresolvedTransactions \ unresolvedTransactions' :
       Closed(t) \/ crashes' # crashes]_allVars

\* A record whose observation and endpoint agree is eventually released, and its
\* transaction no longer held, in spite of a crash between any two steps, failing
\* queries and late interruptions.
Proven(t) ==
  /\ Exists(t)
  /\ \/ record[t].status = "VERIFIED_APPLIED" /\ Applied(t)
     \/ record[t].status = "VERIFIED_NOT_APPLIED" /\ ledger[t] = "NOT_APPLIED"

ProvenIsReleased ==
  \A t \in Transactions : Proven(t) ~> (Released(t) /\ t \notin unresolvedTransactions)

\* The first finality report archived for a transaction stands: neither a recovery
\* that saw an older record, nor a restore, nor the commit recording again, replaces
\* it or takes back a release (confirm_finality and confirm_supervisor_release
\* compare the row with the record their caller saw).
ArchiveIsFinal ==
  [][\A t \in Transactions : Closed(t) =>
       /\ record'[t].report = record[t].report
       /\ record[t].released => record'[t].released]_allVars

\* docs/repository-bug-audit-2026-09-28.md:21 (A05): an outcome lost after submission
\* is recorded and the supervisor interrupted, where it used to be left ACTIVE.  So
\* once its commit has ended, an open record keeps automation off.
LostOutcomeIsNotActive ==
  Booting("up") =>
    \A t \in Transactions :
      Owed(t) /\ job[record[t].of].pc \notin {"record", "hold", "latch"} => state # ACTIVE

=============================================================================
