-------------------------- MODULE PhysicalCommitProofs --------------------------
(***************************************************************************)
(* Proofs about PhysicalCommit, for every number of commits, recoveries,   *)
(* transactions and crashes, and any wall clock.                           *)
(***************************************************************************)
EXTENDS PhysicalCommit, ProtectionSupervisorProofs, FiniteSetTheorems

\* The actions of CommitNext, without the bookkeeping of lapsed.
CommitAction ==
  \/ \E c \in Commits : CommitStep(c)
  \/ \E t \in Transactions, status \in Statuses : Reconcile(t, status)
  \/ \E q \in Queries : RecoveryStep(q)
  \/ RestoreStep
  \/ Reassess
  \/ Disturb
  \/ Crash
  \/ Tick

LEMMA NextIsAction == ASSUME CommitNext PROVE CommitAction
BY DEF CommitNext, CommitAction

-----------------------------------------------------------------------------
(* Lemmas about the helpers *)

\* Every instant has a reading of both clocks.
LEMMA StampType == ASSUME NEW i \in Instants PROVE StampAt(i) \in Reading
BY WallAssumption DEF StampAt, Reading, Instants

LEMMA NewJobType == NewJob \in Jobs
BY SomeTransactionAssumption, CommitBoundsAssumption
DEF NewJob, Jobs, AnyTransaction, CommitPcs, Instants

LEMMA ReadingsType ==
  ASSUME CommitTypeOK, NEW c \in Commits
  PROVE  Readings(c) \subseteq Instants
BY CommitBoundsAssumption DEF Readings, CommitTypeOK, Jobs, Instants

\* A commit that goes on keeps its transaction and its generation, one that ends its
\* transaction; no other commit moves.
LEMMA GotoEffect ==
  ASSUME CommitTypeOK, NEW c \in Commits, NEW pc \in CommitPcs, Goto(c, pc)
  PROVE  /\ job' \in [Commits -> Jobs]
         /\ job'[c].pc = pc
         /\ job'[c].of = job[c].of
         /\ pc \notin Ended => job'[c].generation = job[c].generation
         /\ \A d \in Commits : d # c => job'[d] = job[d]
<1>1. job' \in [Commits -> Jobs]
  BY NewJobType DEF Goto, CommitTypeOK, Jobs
<1>2. CASE pc \in Ended
  BY <1>1, <1>2, NewJobType DEF Goto, CommitTypeOK, Jobs
<1>3. CASE pc \notin Ended
  BY <1>1, <1>3 DEF Goto, CommitTypeOK, Jobs
<1>. QED BY <1>1, <1>2, <1>3

LEMMA LoseOutcomeEffect ==
  ASSUME CommitTypeOK, NEW c \in Commits, NEW again \in BOOLEAN, LoseOutcome(c, again)
  PROVE  /\ job' \in [Commits -> Jobs]
         /\ job'[c].pc = "record"
         /\ job'[c].of = job[c].of
         /\ \A d \in Commits : d # c => job'[d] = job[d]
<1>1. WallOf[clock] \in Int
  BY WallAssumption DEF CommitTypeOK, Instants
<1>2. "record" \in CommitPcs
  BY DEF CommitPcs, InProgress
<1>. QED BY <1>1, <1>2, NewJobType DEF LoseOutcome, CommitTypeOK, Jobs

\* The supervisor's part of an interruption that a caller attempts.
LEMMA InterruptForIsStep ==
  ASSUME NEW now \in Reading, NEW T \in SUBSET Transactions, NEW raised \in BOOLEAN,
         InterruptFor(now, T, raised)
  PROVE  Step \/ UNCHANGED supervisorVars
BY DEF InterruptFor, Step

LEMMA AdmissionIsStep ==
  ASSUME NEW i \in Instants, NEW granted \in BOOLEAN, RequireAutomation(StampAt(i), granted)
  PROVE  Step
BY StampType DEF RequireAutomation, Step, Reading, Times

LEMMA ResolveIsStep ==
  ASSUME NEW t \in Transactions, NEW i \in Instants, ResolvePhysicalTransaction(t, StampAt(i))
  PROVE  Step
BY StampType DEF ResolvePhysicalTransaction, Step

\* What a commit step does to the supervisor is a call of one method, a crash makes a
\* new one, and all else leaves it alone.
LEMMA SupervisorMoves ==
  ASSUME CommitTypeOK, CommitAction
  PROVE  Step \/ UNCHANGED supervisorVars \/ (Crash /\ NewSupervisor)
<1>1. ASSUME NEW c \in Commits, CommitStep(c) PROVE Step \/ UNCHANGED supervisorVars
  <2>1. ASSUME NEW t \in Transactions, Admit(c, t) PROVE Step
    BY <2>1, AdmissionIsStep DEF Admit, CommitTypeOK
  <2>2. CASE Recheck(c) \/ Send(c)
    BY <2>2, AdmissionIsStep, ReadingsType DEF Recheck, Send, Readmit
  <2>3. CASE Hold(c)
    <3>1. PICK i \in Readings(c), raised \in BOOLEAN :
            InterruptFor([wall |-> job[c].recordedAt, mono |-> i],
                         IF At(c, "hold") THEN {job[c].of} ELSE {}, raised)
      BY <2>3 DEF Hold
    <3>2. [wall |-> job[c].recordedAt, mono |-> i] \in Reading
      BY ReadingsType DEF CommitTypeOK, Jobs, Reading, Instants
    <3>3. (IF At(c, "hold") THEN {job[c].of} ELSE {}) \in SUBSET Transactions
      BY DEF CommitTypeOK, Jobs
    <3>. QED BY <3>1, <3>2, <3>3, InterruptForIsStep
  <2>4. CASE \/ Abandon(c) \/ Refuse(c) \/ Executed(c) \/ Indeterminate(c)
             \/ RecordIndeterminate(c) \/ RecordFails(c) \/ Claim(c) \/ Apply(c)
    BY <2>4 DEF Abandon, Refuse, Executed, Indeterminate, RecordIndeterminate, RecordFails, Claim, Apply
  <2>. QED BY <1>1, <2>1, <2>2, <2>3, <2>4 DEF CommitStep
<1>2. ASSUME NEW q \in Queries, RecoveryStep(q) PROVE Step \/ UNCHANGED supervisorVars
  <2>1. CASE ReleaseSupervisor(q)
    <3>1. recovery[q].of \in Transactions /\ recovery[q].at \in Instants
      BY DEF CommitTypeOK, Recoveries
    <3>. QED BY <2>1, <3>1, ResolveIsStep DEF ReleaseSupervisor
  <2>2. CASE ~ReleaseSupervisor(q)
    BY <1>2, <2>2 DEF RecoveryStep, BeginResolve, QueryFinality, CloseFinality, ConfirmRelease, RecoveryFails
  <2>. QED BY <2>1, <2>2
<1>3. CASE RestoreStep
  <2>0. boot \in Boots /\ clock \in Instants
    BY DEF CommitTypeOK
  <2>1. CASE RestoreFails
    <3>1. boot.at..clock \subseteq Instants
      BY <2>0, CommitBoundsAssumption DEF Boots, Instants
    <3>. QED BY <2>1, <3>1, StampType, InterruptForIsStep DEF RestoreFails
  <2>2. ASSUME NEW t \in Transactions, RestoreHold(t) PROVE Step \/ UNCHANGED supervisorVars
    <3>1. StampAt(boot.at) \in Reading
      BY <2>0, StampType DEF Boots
    <3>. QED BY <2>2, <3>1, InterruptForIsStep DEF RestoreHold
  <2>3. CASE RestoreRelease
    BY <2>0, <2>3, ResolveIsStep DEF RestoreRelease, Boots
  <2>4. CASE (\E verifying \in BOOLEAN : BeginRestore(verifying)) \/ RestoreConfirm \/ RestoreDone
    BY <2>4 DEF BeginRestore, RestoreConfirm, RestoreDone
  <2>. QED BY <1>3, <2>1, <2>2, <2>3, <2>4 DEF RestoreStep
<1>4. CASE Reassess
  <2>1. StampAt(clock) \in Reading /\ "ELIGIBLE" \in Findings
    BY StampType DEF CommitTypeOK, Findings
  <2>. QED BY <1>4, <2>1 DEF Reassess, Step
<1>5. CASE Disturb
  BY <1>5, StampType DEF Disturb, Step, CommitTypeOK
<1>6. CASE Crash
  BY <1>6 DEF Crash
<1>7. CASE Tick \/ \E t \in Transactions, status \in Statuses : Reconcile(t, status)
  BY <1>7 DEF Tick, Reconcile
<1>. QED BY <1>1, <1>2, <1>3, <1>4, <1>5, <1>6, <1>7 DEF CommitAction

-----------------------------------------------------------------------------
(* Type correctness *)

LEMMA CommitInitTypeOK == ASSUME CommitInit PROVE CommitTypeOK
<1>1. SupervisorTypeOK
  BY InitTypeOK DEF CommitInit
<1>2. RecordTypeOK /\ LedgerTypeOK
  BY DEF CommitInit, RecordInit, RecordTypeOK, LedgerInit, LedgerTypeOK
<1>3. NewRecovery \in Recoveries /\ NewBoot \in Boots
  BY SomeTransactionAssumption, CommitBoundsAssumption
  DEF NewRecovery, Recoveries, NewBoot, Boots, AnyTransaction, Instants
<1>. QED BY <1>1, <1>2, <1>3, NewJobType, CommitBoundsAssumption
     DEF CommitInit, CommitTypeOK, Instants

LEMMA NewSupervisorType == ASSUME NewSupervisor PROVE SupervisorTypeOK'
BY DEF NewSupervisor, SupervisorTypeOK, Times, ProtectionStates, PAUSED

LEMMA SupervisorKeepsType ==
  ASSUME CommitTypeOK, CommitAction
  PROVE  SupervisorTypeOK'
BY NewSupervisorType, SupervisorMoves, StepTypeOK, StutterTypeOK DEF CommitTypeOK

\* What a caller makes of a record it saw is a record, closed or released.
LEMMA Forms ==
  ASSUME NEW seen \in Records, NEW q \in Queries
  PROVE  /\ seen # Absent
         /\ ClosedForm(seen, q) \in Records /\ ClosedForm(seen, q) # Absent
         /\ ClosedForm(seen, q).report = q /\ q # None
         /\ ClosedForm(seen, q).status = seen.status
         /\ ClosedForm(seen, q).of = seen.of
         /\ ClosedForm(seen, q).released = seen.released
         /\ seen.report = q => ClosedForm(seen, q) = seen
BY NoneAssumption DEF Records, Absent, ClosedForm, Statuses, Verified

LEMMA ReleasedForms ==
  ASSUME NEW seen \in Records
  PROVE  /\ seen # Absent
         /\ ReleasedForm(seen) \in Records /\ ReleasedForm(seen) # Absent
         /\ ReleasedForm(seen).report = seen.report
         /\ ReleasedForm(seen).status = seen.status
         /\ ReleasedForm(seen).of = seen.of
         /\ ReleasedForm(seen).released
<1>1. seen # Absent
  BY DEF Records, Absent, Statuses, Verified
<1>2. ReleasedForm(seen) \in Records
  BY DEF Records, ReleasedForm
<1>3. ReleasedForm(seen) # Absent
  BY <1>2 DEF Records, Absent, Statuses, Verified
<1>4. /\ ReleasedForm(seen).report = seen.report
      /\ ReleasedForm(seen).status = seen.status
      /\ ReleasedForm(seen).of = seen.of
  BY DEF Records, ReleasedForm
<1>5. ReleasedForm(seen).released
  BY DEF Records, ReleasedForm
<1>. QED BY <1>1, <1>2, <1>3, <1>4, <1>5

\* What a recovery or a restore remembers of a record is a record.
Seen ==
  /\ \A q \in Queries : recovery[q].pc # "idle" => recovery[q].seen \in Records
  /\ boot.pc \in {"restore", "release", "confirm"} => \A t \in boot.todo : boot.seen[t] \in Records
  /\ boot.pc \in {"release", "confirm"} => boot.seen[boot.of] \in Records

LEMMA RecordKeepsType ==
  ASSUME CommitTypeOK, Seen, CommitAction
  PROVE  RecordTypeOK'
<1>0. RecordTypeOK
  BY DEF CommitTypeOK
<1>1. ASSUME NEW c \in Commits, RecordIndeterminate(c) PROVE RecordTypeOK'
  BY <1>0, <1>1 DEF RecordIndeterminate, Record, Fresh, RecordTypeOK, Records, Absent, Statuses,
                    CommitTypeOK, Jobs
<1>2. ASSUME NEW t \in Transactions, NEW status \in Statuses, Reconcile(t, status) PROVE RecordTypeOK'
  BY <1>0, <1>2 DEF Reconcile, ReconcileObservation, RecordTypeOK, Records, Absent, Statuses,
                    Verified, Exists
<1>3. ASSUME NEW q \in Queries, CloseFinality(q) PROVE RecordTypeOK'
  <2>1. recovery[q].seen \in Records /\ recovery[q].of \in Transactions
    BY <1>3 DEF CloseFinality, InRecovery, Seen, CommitTypeOK, Recoveries
  <2>. QED BY <1>0, <1>3, <2>1, Forms
       DEF CloseFinality, ConfirmFinality, FinalityRaises, RecordTypeOK, Exists
<1>4. ASSUME NEW q \in Queries, ConfirmRelease(q) PROVE RecordTypeOK'
  <2>1. recovery[q].seen \in Records /\ recovery[q].of \in Transactions
    BY <1>4 DEF ConfirmRelease, InRecovery, Seen, CommitTypeOK, Recoveries
  <2>. QED BY <1>0, <1>4, <2>1, ReleasedForms
       DEF ConfirmRelease, ConfirmSupervisorRelease, ReleaseRaises, RecordTypeOK, Exists
<1>5. ASSUME RestoreConfirm PROVE RecordTypeOK'
  <2>1. boot.seen[boot.of] \in Records /\ boot.of \in Transactions
    BY <1>5 DEF RestoreConfirm, Booting, Seen, CommitTypeOK, Boots
  <2>. QED BY <1>0, <1>5, <2>1, ReleasedForms
       DEF RestoreConfirm, ConfirmSupervisorRelease, ReleaseRaises, RecordTypeOK, Exists
<1>6. UNCHANGED record => RecordTypeOK'
  BY <1>0 DEF RecordTypeOK
<1>7. \/ UNCHANGED record
      \/ \E c \in Commits : RecordIndeterminate(c)
      \/ \E t \in Transactions, status \in Statuses : Reconcile(t, status)
      \/ \E q \in Queries : CloseFinality(q) \/ ConfirmRelease(q)
      \/ RestoreConfirm
  BY DEF CommitAction, CommitStep, RecoveryStep, RestoreStep, Admit, Recheck, Send, Readmit, Abandon, Refuse,
         Executed, Indeterminate, RecordFails, Hold, Claim, Apply, BeginResolve, QueryFinality,
         ReleaseSupervisor, RecoveryFails, BeginRestore, RestoreFails, RestoreHold, RestoreRelease,
         RestoreDone, Reassess, Disturb, Crash, Tick, commitVars
<1>. QED BY <1>1, <1>2, <1>3, <1>4, <1>5, <1>6, <1>7

\* Another commit than c does not move.
OthersStay(c) == \A d \in Commits : d # c => job'[d] = job[d]

LEMMA AdmitEffect ==
  ASSUME CommitTypeOK, NEW c \in Commits, NEW t \in Transactions, Admit(c, t)
  PROVE  /\ job' \in [Commits -> Jobs]
         /\ job'[c].pc \in {"admitted", "rejected"}
         /\ job'[c].of = t
         /\ job'[c].pc = "admitted" => job'[c].generation = admissionGeneration'
         /\ OthersStay(c)
<1>0. admissionGeneration' \in Nat
  <2>1. CommitAction
    BY DEF CommitAction, CommitStep
  <2>. QED BY <2>1, SupervisorKeepsType DEF SupervisorTypeOK
<1>1. clock \in Instants /\ job \in [Commits -> Jobs]
  BY DEF CommitTypeOK
<1>2. "admitted" \in CommitPcs /\ "rejected" \in CommitPcs
  BY DEF CommitPcs, InProgress, Ended
<1>. DEFINE admitted == [NewJob EXCEPT !.pc = "admitted", !.of = t, !.since = clock,
                                       !.generation = admissionGeneration']
            rejected == [NewJob EXCEPT !.pc = "rejected", !.of = t]
<1>3. admitted \in Jobs /\ admitted.pc = "admitted" /\ admitted.of = t
      /\ admitted.generation = admissionGeneration'
  BY <1>0, <1>1, <1>2, NewJobType DEF Jobs
<1>4. rejected \in Jobs /\ rejected.pc = "rejected" /\ rejected.of = t
  BY <1>2, NewJobType DEF Jobs
<1>5. \E granted \in BOOLEAN : job' = [job EXCEPT ![c] = IF granted THEN admitted ELSE rejected]
  BY DEF Admit
<1>. HIDE DEF admitted, rejected
<1>. QED BY <1>1, <1>3, <1>4, <1>5 DEF OthersStay

LEMMA ReadmitEffect ==
  ASSUME CommitTypeOK, NEW c \in Commits, NEW pc \in {"cleared", "sent"}, Readmit(c, pc)
  PROVE  /\ job' \in [Commits -> Jobs]
         /\ job'[c].pc \in {pc, "rejected"}
         /\ job'[c].of = job[c].of
         /\ job'[c].pc = pc =>
              /\ job'[c].generation = job[c].generation
              /\ state' = ACTIVE /\ admissionGeneration' = job[c].generation
         /\ OthersStay(c)
<1>1. PICK i \in Readings(c), granted \in BOOLEAN :
        /\ RequireAutomation(StampAt(i), granted)
        /\ Goto(c, IF Readmitted(c, granted) THEN pc ELSE "rejected")
  BY DEF Readmit
<1>2. pc \in CommitPcs /\ "rejected" \in CommitPcs /\ pc # "rejected" /\ pc \notin Ended
  BY DEF CommitPcs, InProgress, Ended
<1>3. CASE Readmitted(c, granted)
  BY <1>1, <1>2, <1>3, GotoEffect DEF Readmitted, RequireAutomation, OthersStay
<1>4. CASE ~Readmitted(c, granted)
  BY <1>1, <1>2, <1>4, GotoEffect DEF OthersStay
<1>. QED BY <1>3, <1>4

\* How a commit moves outside of its admissions.
LEMMA MoveEffect ==
  ASSUME CommitTypeOK, NEW c \in Commits
  PROVE  LET Moves(pcs) == /\ job' \in [Commits -> Jobs]
                           /\ job'[c].pc \in pcs
                           /\ job'[c].of = job[c].of
                           /\ OthersStay(c)
         IN  /\ Abandon(c) => Moves({"rejected"})
             /\ Refuse(c) => Moves({"rejected"})
             /\ Executed(c) => Moves({"executed"})
             /\ Indeterminate(c) => Moves({"record"})
             /\ RecordIndeterminate(c) => Moves({"hold"})
             /\ RecordFails(c) => Moves({"latch"})
             /\ Hold(c) => Moves({"record", "failed", "raised"})
<1>1. {"rejected", "executed", "hold", "latch", "failed", "raised"} \subseteq CommitPcs
  BY DEF CommitPcs, InProgress, Ended
<1>2. Abandon(c) => Goto(c, "rejected")
  BY DEF Abandon
<1>3. Refuse(c) => Goto(c, "rejected")
  BY DEF Refuse
<1>4. Executed(c) => Goto(c, "executed")
  BY DEF Executed
<1>5. RecordIndeterminate(c) => Goto(c, "hold")
  BY DEF RecordIndeterminate
<1>6. RecordFails(c) => Goto(c, "latch")
  BY DEF RecordFails
<1>7. Indeterminate(c) => \E again \in BOOLEAN : LoseOutcome(c, again)
  BY DEF Indeterminate
<1>8. Hold(c) => LoseOutcome(c, FALSE) \/ Goto(c, "raised") \/ Goto(c, "failed")
  BY DEF Hold
<1>9. \A pc \in CommitPcs : Goto(c, pc) =>
        job' \in [Commits -> Jobs] /\ job'[c].pc = pc /\ job'[c].of = job[c].of /\ OthersStay(c)
  BY GotoEffect DEF OthersStay
<1>10. \A again \in BOOLEAN : LoseOutcome(c, again) =>
        job' \in [Commits -> Jobs] /\ job'[c].pc = "record" /\ job'[c].of = job[c].of /\ OthersStay(c)
  BY LoseOutcomeEffect DEF OthersStay
<1>. QED BY <1>1, <1>2, <1>3, <1>4, <1>5, <1>6, <1>7, <1>8, <1>9, <1>10

LEMMA JobKeepsType ==
  ASSUME CommitTypeOK, CommitAction
  PROVE  /\ job' \in [Commits -> Jobs]
         /\ request' \in [Commits -> {"unsent", "flying", "claimed", "applied", "refused"}]
         /\ LedgerTypeOK'
<1>0. /\ job \in [Commits -> Jobs]
      /\ request \in [Commits -> {"unsent", "flying", "claimed", "applied", "refused"}]
      /\ LedgerTypeOK
      /\ clock \in Instants
  BY DEF CommitTypeOK
<1>1. ASSUME NEW c \in Commits, CommitStep(c)
      PROVE  /\ job' \in [Commits -> Jobs]
             /\ request' \in [Commits -> {"unsent", "flying", "claimed", "applied", "refused"}]
             /\ LedgerTypeOK'
  <2>1. ASSUME NEW t \in Transactions, Admit(c, t) PROVE job' \in [Commits -> Jobs]
    BY <2>1, AdmitEffect
  <2>2. Recheck(c) \/ Send(c) => job' \in [Commits -> Jobs]
    BY ReadmitEffect DEF Recheck, Send
  <2>3. Abandon(c) \/ Refuse(c) \/ Executed(c) \/ Indeterminate(c) \/ RecordIndeterminate(c)
          \/ RecordFails(c) \/ Hold(c) => job' \in [Commits -> Jobs]
    BY MoveEffect
  <2>4. Claim(c) \/ Apply(c) => job' \in [Commits -> Jobs]
    BY <1>0 DEF Claim, Apply, processVars
  <2>5. request' \in [Commits -> {"unsent", "flying", "claimed", "applied", "refused"}]
    BY <1>0, <1>1 DEF CommitStep, Admit, Recheck, Send, Abandon, Refuse, Executed, Indeterminate,
       RecordIndeterminate, RecordFails, Hold, Claim, Apply
  <2>6. LedgerTypeOK'
    BY <1>0, <1>1 DEF CommitStep, Admit, Recheck, Send, Readmit, Abandon, Refuse, Executed, Indeterminate,
       RecordIndeterminate, RecordFails, Hold, Claim, Apply, ClaimExecution, Decide, LedgerTypeOK,
       CommitTypeOK, Jobs
  <2>. QED BY <1>1, <2>1, <2>2, <2>3, <2>4, <2>5, <2>6 DEF CommitStep
<1>2. ASSUME NEW q \in Queries, RecoveryStep(q) PROVE UNCHANGED <<job, request>> /\ LedgerTypeOK'
  <2>1. UNCHANGED <<job, request>>
    BY <1>2 DEF RecoveryStep, BeginResolve, QueryFinality, CloseFinality, ReleaseSupervisor, ConfirmRelease,
       RecoveryFails
  <2>2. CASE QueryFinality(q)
    BY <1>0, <2>2 DEF QueryFinality, TerminalEvidence, CloseIfUnstarted, Decide, LedgerTypeOK
  <2>3. CASE ~QueryFinality(q)
    BY <1>0, <1>2, <2>3 DEF RecoveryStep, BeginResolve, CloseFinality, ReleaseSupervisor, ConfirmRelease,
       RecoveryFails, LedgerTypeOK
  <2>. QED BY <2>1, <2>2, <2>3
<1>3. CASE RestoreStep
  BY <1>0, <1>3 DEF RestoreStep, BeginRestore, RestoreFails, RestoreHold, RestoreRelease, RestoreConfirm,
     RestoreDone, LedgerTypeOK
<1>4. CASE Crash
  <2>1. job' \in [Commits -> Jobs]
    BY <1>0, <1>4, NewJobType DEF Crash, Jobs, CommitPcs, Ended
  <2>. QED BY <1>0, <1>4, <2>1 DEF Crash, LedgerTypeOK
<1>5. CASE Reassess \/ Disturb \/ Tick \/ \E t \in Transactions, status \in Statuses : Reconcile(t, status)
  BY <1>0, <1>5 DEF Reassess, Disturb, Tick, Reconcile, commitVars, processVars, LedgerTypeOK
<1>. QED BY <1>0, <1>1, <1>2, <1>3, <1>4, <1>5 DEF CommitAction

LEMMA RecoveryKeepsType ==
  ASSUME CommitTypeOK, Seen, CommitAction
  PROVE  /\ recovery' \in [Queries -> Recoveries]
         /\ \A q \in Queries : recovery'[q].pc # "idle" => recovery'[q].seen \in Records
<1>0. /\ recovery \in [Queries -> Recoveries] /\ clock \in Instants
      /\ \A q \in Queries : recovery[q].pc # "idle" => recovery[q].seen \in Records
  BY DEF CommitTypeOK, Seen
<1>1. NewRecovery \in Recoveries /\ NewRecovery.pc = "idle"
  BY SomeTransactionAssumption, CommitBoundsAssumption DEF NewRecovery, Recoveries, AnyTransaction, Instants
<1>2. ASSUME NEW q \in Queries, Leave(q)
      PROVE  /\ recovery' \in [Queries -> Recoveries]
             /\ \A p \in Queries : recovery'[p].pc # "idle" => recovery'[p].seen \in Records
  BY <1>0, <1>1, <1>2 DEF Leave
<1>3. ASSUME NEW q \in Queries, NEW pc \in {"close", "confirm"}, ~InRecovery(q, "idle"), Proceed(q, pc)
      PROVE  /\ recovery' \in [Queries -> Recoveries]
             /\ \A p \in Queries : recovery'[p].pc # "idle" => recovery'[p].seen \in Records
  BY <1>0, <1>3 DEF InRecovery, Proceed, Recoveries
<1>4. ASSUME NEW q \in Queries, NEW t \in Transactions, BeginResolve(q, t)
      PROVE  /\ recovery' \in [Queries -> Recoveries]
             /\ \A p \in Queries : recovery'[p].pc # "idle" => recovery'[p].seen \in Records
  <2>1. record[t] \in Records
    BY <1>4 DEF BeginResolve, Resolvable, Exists, CommitTypeOK, RecordTypeOK
  <2>2. FirstStep(t) \in {"query", "release"}
    BY DEF FirstStep
  <2>3. [pc |-> FirstStep(t), of |-> t, at |-> clock, seen |-> record[t]] \in Recoveries
    BY <1>0, <2>1, <2>2 DEF Recoveries
  <2>. QED BY <1>0, <1>4, <2>1, <2>3 DEF BeginResolve
<1>5. ASSUME NEW q \in Queries, CloseFinality(q)
      PROVE  /\ recovery' \in [Queries -> Recoveries]
             /\ \A p \in Queries : recovery'[p].pc # "idle" => recovery'[p].seen \in Records
  <2>1. ClosedForm(recovery[q].seen, q) \in Records
    BY <1>0, <1>5, Forms DEF CloseFinality, InRecovery
  <2>2. CASE recovery' = [recovery EXCEPT ![q].pc = "release", ![q].seen = ClosedForm(recovery[q].seen, q)]
    BY <1>0, <2>1, <2>2 DEF Recoveries
  <2>. QED BY <1>2, <1>5, <2>2 DEF CloseFinality
<1>6. ASSUME NEW q \in Queries, RecoveryStep(q)
      PROVE  /\ recovery' \in [Queries -> Recoveries]
             /\ \A p \in Queries : recovery'[p].pc # "idle" => recovery'[p].seen \in Records
  <2>1. CASE QueryFinality(q) \/ ReleaseSupervisor(q) \/ ConfirmRelease(q) \/ RecoveryFails(q)
    BY <1>2, <1>3, <2>1 DEF QueryFinality, ReleaseSupervisor, ConfirmRelease, RecoveryFails, InRecovery
  <2>. QED BY <1>4, <1>5, <1>6, <2>1 DEF RecoveryStep
<1>7. CASE Crash
  BY <1>1, <1>7 DEF Crash
<1>8. CASE ~Crash /\ \A q \in Queries : ~RecoveryStep(q)
  <2>1. UNCHANGED recovery
    BY <1>8 DEF CommitAction, CommitStep, RestoreStep, Admit, Recheck, Send, Readmit, Abandon, Refuse,
       Executed, Indeterminate, RecordIndeterminate, RecordFails, Hold, Claim, Apply, Reconcile,
       BeginRestore, RestoreFails, RestoreHold, RestoreRelease, RestoreConfirm, RestoreDone,
       Reassess, Disturb, Tick, commitVars, processVars
  <2>. QED BY <1>0, <2>1
<1>. QED BY <1>6, <1>7, <1>8

LEMMA BootKeepsType ==
  ASSUME CommitTypeOK, Seen, CommitAction
  PROVE  /\ boot' \in Boots
         /\ boot'.pc \in {"restore", "release", "confirm"} =>
              \A t \in boot'.todo : boot'.seen[t] \in Records
         /\ boot'.pc \in {"release", "confirm"} => boot'.seen[boot'.of] \in Records
<1>0. /\ boot \in Boots /\ clock \in Instants /\ RecordTypeOK
      /\ boot.pc \in {"restore", "release", "confirm"} => \A t \in boot.todo : boot.seen[t] \in Records
      /\ boot.pc \in {"release", "confirm"} => boot.seen[boot.of] \in Records
  BY DEF CommitTypeOK, Seen
<1>1. NewBoot \in Boots /\ Down \in Boots /\ Down.pc = "down" /\ AnyTransaction \in Transactions
  <2>1. AnyTransaction \in Transactions
    BY SomeTransactionAssumption DEF AnyTransaction
  <2>2. NewBoot \in Boots /\ NewBoot.pc = "down"
    BY <2>1, CommitBoundsAssumption DEF NewBoot, Boots, Instants
  <2>. QED BY <1>0, <2>1, <2>2 DEF Boots, Down
<1>2. boot.at..clock \subseteq Instants
  BY <1>0, CommitBoundsAssumption DEF Boots, Instants
<1>3. ASSUME NEW verifying \in BOOLEAN, BeginRestore(verifying)
      PROVE  /\ boot' \in Boots /\ boot'.pc = "restore"
             /\ \A t \in boot'.todo : boot'.seen[t] \in Records
  <2>1. PICK i \in Instants :
       boot' = [NewBoot EXCEPT !.pc = "restore", !.at = i, !.seen = record,
                               !.todo = {t \in Transactions : Pending(t)},
                               !.verifying = verifying]
    BY <1>2, <1>3 DEF BeginRestore
  <2>2. \A t \in Transactions : Pending(t) => record[t] \in Records
    BY <1>0 DEF Pending, Exists, RecordTypeOK
  <2>. QED BY <1>0, <1>1, <2>1, <2>2 DEF Boots, NewBoot, RecordTypeOK
<1>4. ASSUME NEW t \in Transactions, RestoreHold(t)
      PROVE  \/ boot' = Down
             \/ /\ boot' \in Boots /\ boot'.seen = boot.seen /\ boot'.todo \subseteq boot.todo
                /\ boot'.pc = "release" => boot'.of = t
                /\ boot'.pc \in {"restore", "release"}
  <2>1. CASE boot' = Down
    BY <2>1
  <2>2. CASE boot' = [boot EXCEPT !.todo = @ \ {t},
                                  !.of = IF Archived(t) THEN t ELSE @,
                                  !.pc = IF Archived(t) THEN "release" ELSE @]
    <3>1. boot.pc = "restore"
      BY <1>4 DEF RestoreHold, Booting
    <3>2. CASE Archived(t)
      BY <1>0, <2>2, <3>1, <3>2 DEF Boots
    <3>3. CASE ~Archived(t)
      BY <1>0, <2>2, <3>1, <3>3 DEF Boots
    <3>. QED BY <3>2, <3>3
  <2>. QED BY <1>4, <2>1, <2>2 DEF RestoreHold
<1>5. CASE RestoreFails
  BY <1>0, <1>1, <1>5 DEF RestoreFails, Boots, NewBoot
<1>6. CASE \E t \in Transactions : RestoreHold(t)
  BY <1>0, <1>1, <1>4, <1>6 DEF RestoreHold, Booting
<1>7. CASE RestoreRelease
  BY <1>0, <1>7 DEF RestoreRelease, Booting, Boots
<1>8. CASE RestoreConfirm
  BY <1>0, <1>1, <1>8 DEF RestoreConfirm, Booting, Boots
<1>9. CASE RestoreDone
  BY <1>0, <1>1, <1>9 DEF RestoreDone, Restored, Boots, NewBoot
<1>10. CASE Crash
  BY <1>1, <1>10 DEF Crash
<1>11. CASE ~Crash /\ ~RestoreStep
  <2>1. UNCHANGED boot
    BY <1>11 DEF CommitAction, CommitStep, RecoveryStep, Admit, Recheck, Send, Readmit, Abandon, Refuse,
       Executed, Indeterminate, RecordIndeterminate, RecordFails, Hold, Claim, Apply, Reconcile,
       BeginResolve, QueryFinality, CloseFinality, ReleaseSupervisor, ConfirmRelease, RecoveryFails,
       Reassess, Disturb, Tick, commitVars, processVars
  <2>. QED BY <1>0, <2>1
<1>. QED BY <1>3, <1>5, <1>6, <1>7, <1>8, <1>9, <1>10, <1>11 DEF RestoreStep

LEMMA ActionKeepsType ==
  ASSUME CommitTypeOK, Seen, CommitAction, lapsed' \subseteq Commits
  PROVE  CommitTypeOK' /\ Seen'
<1>1. clock' \in Instants /\ crashes' \in 0..MaxCrashes
  <2>1. CASE Tick
    BY <2>1, CommitBoundsAssumption DEF Tick, CommitTypeOK, Instants, processVars
  <2>2. CASE Crash
    <3>1. crashes < MaxCrashes /\ crashes' = crashes + 1 /\ clock' = clock
      BY <2>2 DEF Crash
    <3>. QED BY <3>1, CommitBoundsAssumption DEF CommitTypeOK
  <2>3. CASE ~Tick /\ ~Crash
    <3>1. UNCHANGED <<clock, crashes>>
      BY <2>3 DEF CommitAction, CommitStep, RecoveryStep, RestoreStep, Admit, Recheck, Send, Readmit, Abandon,
         Refuse, Executed, Indeterminate, RecordIndeterminate, RecordFails, Hold, Claim, Apply, Reconcile,
         BeginResolve, QueryFinality, CloseFinality, ReleaseSupervisor, ConfirmRelease, RecoveryFails,
         BeginRestore, RestoreFails, RestoreHold, RestoreRelease, RestoreConfirm, RestoreDone,
         Reassess, Disturb, commitVars, processVars
    <3>. QED BY <3>1 DEF CommitTypeOK
  <2>. QED BY <2>1, <2>2, <2>3
<1>. QED BY <1>1, SupervisorKeepsType, RecordKeepsType, JobKeepsType, RecoveryKeepsType, BootKeepsType
     DEF CommitTypeOK, Seen

LEMMA InitSeen == ASSUME CommitInit PROVE Seen
BY DEF CommitInit, NewRecovery, NewBoot, Seen

LEMMA StutterType ==
  ASSUME CommitTypeOK, Seen, UNCHANGED allVars
  PROVE  CommitTypeOK' /\ Seen'
<1>1. UNCHANGED supervisorVars /\ UNCHANGED commitVars /\ UNCHANGED lapsed
  BY DEF allVars
<1>2. SupervisorTypeOK'
  BY <1>1, StutterTypeOK DEF CommitTypeOK
<1>3. UNCHANGED <<clock, record, ledger, request, job, recovery, boot, crashes, lapsed>>
  BY <1>1 DEF commitVars, processVars
<1>. QED BY <1>2, <1>3 DEF CommitTypeOK, Seen, RecordTypeOK, LedgerTypeOK

LEMMA LapsedType == ASSUME CommitNext PROVE lapsed' \subseteq Commits
BY DEF CommitNext

-----------------------------------------------------------------------------
(* How the record, the endpoint and the supervisor's epochs move *)

\* A recovery that asked for finality did so for a record without a report.
Asked ==
  \A q \in Queries : recovery[q].pc \in {"query", "close"} =>
    /\ recovery[q].seen.status \in Verified
    /\ recovery[q].seen.report = None /\ ~recovery[q].seen.released

LEMMA RecordChanges ==
  ASSUME CommitAction, record' # record
  PROVE  \/ \E c \in Commits : RecordIndeterminate(c)
         \/ \E t \in Transactions, status \in Statuses : Reconcile(t, status)
         \/ \E q \in Queries : CloseFinality(q) \/ ConfirmRelease(q)
         \/ RestoreConfirm
BY DEF CommitAction, CommitStep, RecoveryStep, RestoreStep, Admit, Recheck, Send, Readmit, Abandon, Refuse,
       Executed, Indeterminate, RecordFails, Hold, Claim, Apply, BeginResolve, QueryFinality,
       ReleaseSupervisor, RecoveryFails, BeginRestore, RestoreFails, RestoreHold, RestoreRelease,
       RestoreDone, Reassess, Disturb, Crash, Tick, commitVars

\* A row is not deleted and keeps its lineage; a closed row keeps its outcome and its
\* report, and stays released.
Grows(t) ==
  /\ Exists(t) => Exists(t)' /\ record'[t].of = record[t].of
  /\ Closed(t) => /\ Closed(t)' /\ record'[t].report = record[t].report
                  /\ record'[t].status = record[t].status
                  /\ record[t].released => record'[t].released

\* A row is new.
Opens(t) ==
  \E c \in Commits :
    RecordIndeterminate(c) /\ job[c].of = t /\ record'[t].of = c /\ Exists(t)' /\ ~Closed(t)'

\* A row is closed with the outcome that was asked for.
Closes(t) ==
  \E q \in Queries :
    /\ CloseFinality(q) /\ recovery[q].of = t
    /\ record'[t].status = recovery[q].seen.status /\ record'[t].report # None

LEMMA RecordMoves ==
  ASSUME CommitTypeOK, Seen, Asked, CommitAction, NEW t \in Transactions
  PROVE  /\ Grows(t)
         /\ Exists(t)' => Exists(t) \/ Opens(t)
         /\ Closed(t)' => Closed(t) \/ Closes(t)
<1>. DEFINE Goal == /\ Grows(t)
                    /\ Exists(t)' => Exists(t) \/ Opens(t)
                    /\ Closed(t)' => Closed(t) \/ Closes(t)
<1>0. record \in [Transactions -> Records \cup {Absent}] /\ RecordTypeOK
  BY DEF CommitTypeOK, RecordTypeOK
<1>1. CASE record'[t] = record[t]
  BY <1>1 DEF Grows, Exists, Closed
<1>2. ASSUME NEW c \in Commits, RecordIndeterminate(c), record'[t] # record[t] PROVE Goal
  <2>1. /\ job[c].of = t /\ record'[t] = Fresh(c, job[c].recordedAt) /\ ~Exists(t)
    BY <1>0, <1>2 DEF RecordIndeterminate, Record, Conflicts
  <2>2. Fresh(c, job[c].recordedAt) # Absent
    BY DEF Fresh, Absent
  <2>3. Fresh(c, job[c].recordedAt).of = c /\ Fresh(c, job[c].recordedAt).report = None
    BY DEF Fresh
  <2>. QED BY <1>2, <2>1, <2>2, <2>3 DEF Grows, Opens, Exists, Closed
<1>3. ASSUME NEW s \in Transactions, NEW status \in Statuses, Reconcile(s, status), record'[t] # record[t]
      PROVE  Goal
  <2>1. t = s /\ Exists(t) /\ record[t].status = "RECOVERY_REQUIRED" /\ record' = [record EXCEPT ![t].status = status]
    BY <1>0, <1>3 DEF Reconcile, ReconcileObservation
  <2>2. ~Closed(t) /\ record[t] \in Records
    BY <1>0, <2>1 DEF Closed, Exists, RecordTypeOK, Verified
  <2>3. record'[t] \in Records /\ record'[t].report = record[t].report /\ record'[t].of = record[t].of
    BY <1>0, <2>1, <2>2 DEF Records
  <2>4. record'[t] # Absent
    BY <2>3 DEF Records, Absent, Statuses, Verified
  <2>. QED BY <2>1, <2>2, <2>3, <2>4 DEF Grows, Exists, Closed
<1>4. ASSUME NEW q \in Queries, CloseFinality(q), record'[t] # record[t] PROVE Goal
  <2>. DEFINE seen == recovery[q].seen
  <2>1. /\ recovery[q].of = t /\ ~FinalityRaises(t, seen, q)
        /\ record' = [record EXCEPT ![t] = ClosedForm(seen, q)]
    BY <1>0, <1>4 DEF CloseFinality, ConfirmFinality
  <2>2. seen \in Records /\ seen.report = None /\ ~seen.released
    BY <1>4 DEF Seen, Asked, CloseFinality, InRecovery
  <2>3. Exists(t) /\ record[t] = seen /\ record'[t] = ClosedForm(seen, q)
    BY <1>0, <1>4, <2>1 DEF FinalityRaises
  <2>. HIDE DEF seen
  <2>4. ~Closed(t) /\ record'[t] # Absent /\ record'[t].of = record[t].of
        /\ record'[t].status = seen.status /\ record'[t].report # None
    BY <2>2, <2>3, Forms DEF Closed
  <2>. QED BY <1>4, <2>1, <2>3, <2>4 DEF Grows, Closes, Exists, Closed, seen
<1>5. ASSUME NEW seen \in Records, ConfirmSupervisorRelease(t, seen), record'[t] # record[t] PROVE Goal
  <2>1. Exists(t) /\ seen.report # None /\ record[t] = seen /\ record'[t] = ReleasedForm(seen)
    BY <1>0, <1>5 DEF ConfirmSupervisorRelease, ReleaseRaises
  <2>. QED BY <2>1, ReleasedForms DEF Grows, Exists, Closed
<1>6. ASSUME NEW q \in Queries, ConfirmRelease(q), record'[t] # record[t] PROVE Goal
  <2>1. recovery[q].of = t /\ ConfirmSupervisorRelease(t, recovery[q].seen)
    BY <1>0, <1>6 DEF ConfirmRelease, ConfirmSupervisorRelease
  <2>2. recovery[q].seen \in Records
    BY <1>6 DEF ConfirmRelease, InRecovery, Seen
  <2>. QED BY <1>5, <1>6, <2>1, <2>2
<1>7. ASSUME RestoreConfirm, record'[t] # record[t] PROVE Goal
  <2>1. boot.of = t /\ ConfirmSupervisorRelease(t, boot.seen[t])
    BY <1>0, <1>7 DEF RestoreConfirm, ConfirmSupervisorRelease
  <2>2. boot.seen[boot.of] \in Records
    BY <1>7 DEF RestoreConfirm, Booting, Seen
  <2>. QED BY <1>5, <1>7, <2>1, <2>2
<1>. QED BY <1>1, <1>2, <1>3, <1>4, <1>6, <1>7, RecordChanges

LEMMA StepSerialized == ASSUME Step PROVE Serialized
BY DEF Step, InterruptKnown, InterruptUnknown, RequireRevalidation, ResolveStranger, ResolveOutstanding,
       Validate, Status

\* Except across a crash, the generation only grows, and grows when permission ends.
LEMMA EpochMoves ==
  ASSUME CommitTypeOK, CommitAction, ~Crash
  PROVE  /\ admissionGeneration' >= admissionGeneration
         /\ state = ACTIVE /\ state' # ACTIVE => admissionGeneration' > admissionGeneration
         /\ state' = ACTIVE => admissionGeneration' = admissionGeneration
<1>1. admissionGeneration \in Nat
  BY DEF CommitTypeOK, SupervisorTypeOK
<1>2. Serialized \/ UNCHANGED supervisorVars
  BY SupervisorMoves, StepSerialized
<1>. QED BY <1>1, <1>2 DEF Serialized, supervisorVars

-----------------------------------------------------------------------------
(* The inductive invariant *)

\* A request leaves only after the last admission, no commit is under way before the
\* bridge is up, and a row stems from a commit that lost the outcome of its transaction.
Lineage ==
  /\ \A c \in Commits : job[c].pc \in {"idle", "admitted", "cleared"} => request[c] = "unsent"
  /\ ~Booting("up") => \A c \in Commits : job[c].pc \in {"idle", "lost"}
  /\ \A t \in Transactions : Exists(t) =>
       /\ job[record[t].of].of = t
       /\ job[record[t].of].pc \in {"record", "hold", "latch", "raised", "failed", "lost"}

\* The generation a commit remembers is not of the future, and is of the past once
\* permission has lapsed; it can lapse only for a commit under way.
Epochs ==
  \A c \in Commits :
    /\ c \in lapsed => job[c].pc # "idle"
    /\ job[c].pc \in {"admitted", "cleared"} =>
         /\ job[c].generation <= admissionGeneration
         /\ c \in lapsed => job[c].generation < admissionGeneration

\* Where a commit that lost its outcome may be.
Lost == {"record", "hold", "latch", "raised", "failed", "lost"}

\* A commit step of c moves no other commit and no other request.
LEMMA CommitStepMoves ==
  ASSUME CommitTypeOK, NEW c \in Commits, CommitStep(c)
  PROVE  /\ OthersStay(c)
         /\ \A d \in Commits : d # c => request'[d] = request[d]
         /\ job[c].pc # "idle" => job'[c].of = job[c].of
         /\ job[c].pc \in Lost => job'[c].pc \in Lost
         /\ job[c].pc \in {"idle", "lost"} => job'[c] = job[c] \/ (Booting("up") /\ job'[c].pc # "lost")
         /\ boot' = boot
<1>0. request \in [Commits -> {"unsent", "flying", "claimed", "applied", "refused"}]
  BY DEF CommitTypeOK
<1>1. /\ \A d \in Commits : d # c => request'[d] = request[d]
      /\ boot' = boot
  BY <1>0 DEF CommitStep, Admit, Recheck, Send, Readmit, Abandon, Refuse, Executed, Indeterminate,
     RecordIndeterminate, RecordFails, Hold, Claim, Apply, processVars
<1>. DEFINE Goal == /\ OthersStay(c)
                    /\ job[c].pc # "idle" => job'[c].of = job[c].of
                    /\ job[c].pc \in Lost => job'[c].pc \in Lost
                    /\ job[c].pc \in {"idle", "lost"} =>
                         job'[c] = job[c] \/ (Booting("up") /\ job'[c].pc # "lost")
<1>2. ASSUME NEW t \in Transactions, Admit(c, t) PROVE Goal
  <2>1. job[c].pc = "idle" /\ Booting("up")
    BY <1>2 DEF Admit, At, Booting
  <2>. QED BY <1>2, <2>1, AdmitEffect DEF Lost
<1>3. CASE Recheck(c) \/ Send(c)
  <2>1. job[c].pc \in {"admitted", "cleared"}
    BY <1>3 DEF Recheck, Send, At
  <2>. QED BY <1>1, <1>3, <2>1, ReadmitEffect DEF Recheck, Send, Lost
<1>4. CASE Abandon(c) \/ Refuse(c) \/ Executed(c) \/ Indeterminate(c)
  <2>1. job[c].pc \in {"admitted", "cleared", "sent"}
    BY <1>4 DEF Abandon, Refuse, Executed, Indeterminate, At
  <2>. QED BY <1>1, <1>4, <2>1, MoveEffect DEF Lost
<1>5. CASE RecordIndeterminate(c) \/ RecordFails(c) \/ Hold(c)
  <2>1. job[c].pc \in {"record", "hold", "latch"}
    BY <1>5 DEF RecordIndeterminate, RecordFails, Hold, At
  <2>. QED BY <1>1, <1>5, <2>1, MoveEffect DEF Lost
<1>6. CASE Claim(c) \/ Apply(c)
  BY <1>1, <1>6 DEF Claim, Apply, processVars, OthersStay
<1>. QED BY <1>1, <1>2, <1>3, <1>4, <1>5, <1>6 DEF CommitStep

LEMMA CrashMoves ==
  ASSUME CommitTypeOK, Crash, NEW c \in Commits
  PROVE  /\ job'[c].pc = IF job[c].pc = "idle" THEN "idle" ELSE "lost"
         /\ job[c].pc # "idle" => job'[c].of = job[c].of
         /\ UNCHANGED <<clock, record, ledger, request>>
         /\ boot'.pc = "down"
BY NewJobType DEF Crash, At, NewJob, Jobs, Down, NewBoot

\* All steps but those of commits and crashes leave the commits alone.
LEMMA JobFrame ==
  ASSUME CommitAction, ~Crash, \A c \in Commits : ~CommitStep(c)
  PROVE  UNCHANGED <<job, request>>
BY DEF CommitAction, RecoveryStep, RestoreStep, Reconcile, BeginResolve, QueryFinality, CloseFinality,
   ReleaseSupervisor, ConfirmRelease, RecoveryFails, BeginRestore, RestoreFails, RestoreHold,
   RestoreRelease, RestoreConfirm, RestoreDone, Reassess, Disturb, Tick, commitVars, processVars

LEMMA LineageStep ==
  ASSUME CommitTypeOK, Seen, Asked, Lineage, CommitAction
  PROVE  Lineage'
<1>1. \A c \in Commits : job'[c].pc \in {"idle", "admitted", "cleared"} => request'[c] = "unsent"
  <2>1. ASSUME NEW c \in Commits, CommitStep(c), job'[c].pc \in {"idle", "admitted", "cleared"}
        PROVE  request'[c] = "unsent"
    <3>1. ASSUME NEW t \in Transactions, Admit(c, t) PROVE request'[c] = "unsent"
      BY <3>1 DEF Admit, At, Lineage
    <3>2. CASE Recheck(c)
      BY <3>2 DEF Recheck, At, Lineage
    <3>3. ~Send(c)
      BY <2>1, ReadmitEffect DEF Send
    <3>4. CASE Abandon(c) \/ Refuse(c) \/ Executed(c) \/ Indeterminate(c) \/ RecordIndeterminate(c)
               \/ RecordFails(c) \/ Hold(c)
      BY <2>1, <3>4, MoveEffect
    <3>5. CASE Claim(c) \/ Apply(c)
      BY <2>1, <3>5 DEF Claim, Apply, processVars, Lineage
    <3>. QED BY <2>1, <3>1, <3>2, <3>3, <3>4, <3>5 DEF CommitStep
  <2>2. ASSUME NEW c \in Commits, CommitStep(c), NEW d \in Commits, d # c,
               job'[d].pc \in {"idle", "admitted", "cleared"}
        PROVE  request'[d] = "unsent"
    BY <2>2, CommitStepMoves DEF OthersStay, Lineage
  <2>3. CASE Crash
    BY <2>3, CrashMoves DEF Lineage
  <2>4. CASE ~Crash /\ \A c \in Commits : ~CommitStep(c)
    BY <2>4, JobFrame DEF Lineage
  <2>. QED BY <2>1, <2>2, <2>3, <2>4
<1>2. ~Booting("up")' => \A c \in Commits : job'[c].pc \in {"idle", "lost"}
  <2>1. ASSUME NEW c \in Commits, CommitStep(c), ~Booting("up")', NEW d \in Commits
        PROVE  job'[d].pc \in {"idle", "lost"}
    BY <2>1, CommitStepMoves DEF OthersStay, Lineage, Booting
  <2>2. CASE Crash
    BY <2>2, CrashMoves
  <2>3. CASE ~Crash /\ \A c \in Commits : ~CommitStep(c)
    <3>1. Booting("up") => Booting("up")'
      BY <2>3 DEF CommitAction, RecoveryStep, RestoreStep, Reconcile, BeginResolve, QueryFinality, CloseFinality,
         ReleaseSupervisor, ConfirmRelease, RecoveryFails, BeginRestore, RestoreFails, RestoreHold,
         RestoreRelease, RestoreConfirm, RestoreDone, Reassess, Disturb, Tick, commitVars, processVars, Booting
    <3>. QED BY <2>3, <3>1, JobFrame DEF Lineage
  <2>. QED BY <2>1, <2>2, <2>3
<1>3. ASSUME NEW t \in Transactions, Exists(t)'
      PROVE  job'[record'[t].of].of = t /\ job'[record'[t].of].pc \in Lost
  <2>1. ASSUME NEW c \in Commits, job[c].of = t, job[c].pc \in Lost
        PROVE  job'[c].of = t /\ job'[c].pc \in Lost
    <3>1. job[c].pc # "idle"
      BY <2>1 DEF Lost
    <3>2. CASE Crash
      BY <2>1, <3>1, <3>2, CrashMoves DEF Lost
    <3>3. CASE \E d \in Commits : CommitStep(d)
      BY <2>1, <3>1, <3>3, CommitStepMoves DEF OthersStay
    <3>4. CASE ~Crash /\ \A d \in Commits : ~CommitStep(d)
      BY <2>1, <3>4, JobFrame
    <3>. QED BY <3>2, <3>3, <3>4
  <2>2. CASE Exists(t)
    <3>1. record'[t].of = record[t].of
      BY <2>2, RecordMoves DEF Grows
    <3>2. record[t].of \in Commits /\ job[record[t].of].of = t /\ job[record[t].of].pc \in Lost
      BY <2>2 DEF Lineage, Lost, Exists, CommitTypeOK, RecordTypeOK, Records
    <3>. QED BY <2>1, <3>1, <3>2
  <2>3. CASE Opens(t)
    BY <2>3, MoveEffect DEF Opens, Lost
  <2>. QED BY <1>3, <2>2, <2>3, RecordMoves
<1>. QED BY <1>1, <1>2, <1>3 DEF Lineage, Lost

LEMMA EpochsStep ==
  ASSUME CommitTypeOK, Epochs, CommitNext
  PROVE  Epochs'
<1>0. CommitAction /\ lapsed' = {c \in Commits :
           /\ job'[c].pc \in InProgress
           /\ c \in lapsed \/ (~At(c, "idle") /\ state = ACTIVE /\ state' # ACTIVE)}
  BY NextIsAction DEF CommitNext
<1>11. \A c \in lapsed' : job'[c].pc # "idle"
  BY <1>0 DEF InProgress
<1>1. CASE Crash
  BY <1>11, <1>1, CrashMoves DEF Epochs
<1>. SUFFICES ASSUME ~Crash, NEW c \in Commits, job'[c].pc \in {"admitted", "cleared"}
              PROVE  /\ job'[c].generation <= admissionGeneration'
                     /\ c \in lapsed' => job'[c].generation < admissionGeneration'
  BY <1>11, <1>1 DEF Epochs
<1>2. /\ admissionGeneration \in Nat /\ admissionGeneration' \in Nat /\ job[c].generation \in Nat
  BY <1>0, SupervisorKeepsType DEF CommitTypeOK, SupervisorTypeOK, Jobs
<1>3. CASE job'[c] = job[c]
  BY <1>0, <1>2, <1>3, EpochMoves DEF Epochs
<1>4. ASSUME NEW t \in Transactions, Admit(c, t)
      PROVE  /\ job'[c].generation = admissionGeneration'
             /\ c \notin lapsed'
  <2>1. job'[c].generation = admissionGeneration' /\ At(c, "idle")
    BY <1>4, AdmitEffect DEF Admit
  <2>2. c \notin lapsed'
    BY <1>0, <2>1 DEF Epochs, At
  <2>. QED BY <2>1, <2>2
<1>5. CASE Recheck(c)
  BY <1>0, <1>2, <1>5, ReadmitEffect, EpochMoves DEF Recheck, At, Epochs
<1>6. ~Send(c)
  BY ReadmitEffect DEF Send
<1>7. CASE Abandon(c) \/ Refuse(c) \/ Executed(c) \/ Indeterminate(c) \/ RecordIndeterminate(c)
           \/ RecordFails(c) \/ Hold(c)
  BY <1>7, MoveEffect
<1>8. CASE Claim(c) \/ Apply(c)
  BY <1>3, <1>8 DEF Claim, Apply, processVars
<1>9. CASE \E d \in Commits \ {c} : CommitStep(d)
  BY <1>3, <1>9, CommitStepMoves DEF OthersStay
<1>10. CASE \A d \in Commits : ~CommitStep(d)
  BY <1>0, <1>3, <1>10, JobFrame
<1>. QED BY <1>2, <1>4, <1>5, <1>6, <1>7, <1>8, <1>9, <1>10 DEF CommitStep

\* A request that has left moves on from flying to claimed to applied, or is refused.
LEMMA RequestMoves ==
  ASSUME CommitTypeOK, Lineage, CommitAction, NEW c \in Commits, request'[c] # request[c]
  PROVE  \/ Send(c) /\ request[c] = "unsent" /\ request'[c] = "flying"
         \/ Refuse(c) /\ request[c] = "flying" /\ request'[c] = "refused"
         \/ Claim(c) /\ request[c] = "flying" /\ request'[c] \in {"claimed", "refused"}
         \/ Apply(c) /\ request[c] = "claimed" /\ request'[c] = "applied"
<1>0. request \in [Commits -> {"unsent", "flying", "claimed", "applied", "refused"}]
  BY DEF CommitTypeOK
<1>1. CommitStep(c)
  BY CommitStepMoves, CrashMoves, JobFrame
<1>2. Send(c) \/ Refuse(c) \/ Claim(c) \/ Apply(c)
  BY <1>1 DEF CommitStep, Admit, Recheck, Abandon, Executed, Indeterminate, RecordIndeterminate, RecordFails, Hold
<1>3. CASE Send(c)
  BY <1>0, <1>3 DEF Send, At, Lineage
<1>4. CASE Refuse(c) \/ Claim(c) \/ Apply(c)
  BY <1>0, <1>4 DEF Refuse, Claim, Apply
<1>. QED BY <1>2, <1>3, <1>4

\* The endpoint's first decision is its last.
LEMMA LedgerMoves ==
  ASSUME CommitTypeOK, CommitAction, NEW t \in Transactions, ledger[t] # "UNDECIDED"
  PROVE  ledger'[t] = ledger[t]
<1>0. ledger \in [Transactions -> {"UNDECIDED", "EXECUTION_CLAIMED", "NOT_APPLIED"}]
  BY DEF CommitTypeOK, LedgerTypeOK
<1>1. ASSUME NEW c \in Commits, Claim(c) PROVE ledger'[t] = ledger[t]
  BY <1>0, <1>1 DEF Claim, ClaimExecution, Decide
<1>2. ASSUME NEW q \in Queries, QueryFinality(q) PROVE ledger'[t] = ledger[t]
  BY <1>0, <1>2 DEF QueryFinality, TerminalEvidence, CloseIfUnstarted, Decide
<1>3. CASE ~(\E c \in Commits : Claim(c)) /\ ~(\E q \in Queries : QueryFinality(q))
  BY <1>3 DEF CommitAction, CommitStep, RecoveryStep, RestoreStep, Admit, Recheck, Send, Readmit, Abandon,
     Refuse, Executed, Indeterminate, RecordIndeterminate, RecordFails, Hold, Apply, Reconcile, BeginResolve,
     CloseFinality, ReleaseSupervisor, ConfirmRelease, RecoveryFails, BeginRestore, RestoreFails, RestoreHold,
     RestoreRelease, RestoreConfirm, RestoreDone, Reassess, Disturb, Crash, Tick, commitVars
<1>. QED BY <1>1, <1>2, <1>3

\* The transaction of a commit whose request has left stays the same.
LEMMA SentKeepsTransaction ==
  ASSUME CommitTypeOK, Lineage, CommitAction, NEW c \in Commits, request[c] # "unsent"
  PROVE  job'[c].of = job[c].of
<1>1. job[c].pc # "idle"
  BY DEF Lineage
<1>. QED BY <1>1, CommitStepMoves, CrashMoves, JobFrame DEF OthersStay

Executing == {"claimed", "applied"}

\* The endpoint executes a transaction only for the one request that claimed it.
ClaimedOnce ==
  /\ \A c \in Commits : request[c] \in Executing => ledger[job[c].of] = "EXECUTION_CLAIMED"
  /\ \A c, d \in Commits :
       request[c] \in Executing /\ request[d] \in Executing /\ job[c].of = job[d].of => c = d

LEMMA ClaimedOnceStep ==
  ASSUME CommitTypeOK, Lineage, ClaimedOnce, CommitAction
  PROVE  ClaimedOnce'
<1>0. /\ \A c \in Commits : job[c].of \in Transactions
      /\ ledger \in [Transactions -> {"UNDECIDED", "EXECUTION_CLAIMED", "NOT_APPLIED"}]
      /\ request \in [Commits -> {"unsent", "flying", "claimed", "applied", "refused"}]
  BY DEF CommitTypeOK, Jobs, LedgerTypeOK
\* A request executes that did not: it has just claimed an undecided transaction.
<1>1. ASSUME NEW c \in Commits, request'[c] \in Executing, request[c] \notin Executing
      PROVE  /\ Claim(c) /\ job' = job
             /\ ledger[job[c].of] = "UNDECIDED" /\ ledger'[job[c].of] = "EXECUTION_CLAIMED"
  <2>1. Claim(c) /\ request'[c] = "claimed"
    BY <1>1, RequestMoves DEF Executing
  <2>2. ledger[job[c].of] = "UNDECIDED" /\ ClaimExecution(job[c].of) /\ job' = job
    BY <1>0, <2>1 DEF Claim, processVars
  <2>. QED BY <1>0, <2>1, <2>2 DEF ClaimExecution, Decide
\* A request that executed already still does so for its transaction.
<1>2. ASSUME NEW c \in Commits, request[c] \in Executing
      PROVE  job'[c].of = job[c].of /\ ledger'[job[c].of] = "EXECUTION_CLAIMED"
  <2>1. request[c] # "unsent" /\ ledger[job[c].of] = "EXECUTION_CLAIMED"
    BY <1>2 DEF Executing, ClaimedOnce
  <2>. QED BY <1>0, <2>1, SentKeepsTransaction, LedgerMoves
<1>3. ASSUME NEW c \in Commits, request'[c] \in Executing PROVE ledger'[job'[c].of] = "EXECUTION_CLAIMED"
  BY <1>1, <1>2, <1>3
<1>4. ASSUME NEW c \in Commits, NEW d \in Commits, request'[c] \in Executing, request'[d] \in Executing,
             job'[c].of = job'[d].of
      PROVE  c = d
  <2>1. CASE request[c] \in Executing /\ request[d] \in Executing
    BY <1>2, <1>4, <2>1 DEF ClaimedOnce
  <2>2. ASSUME NEW x \in Commits, NEW y \in Commits, request'[x] \in Executing, request[x] \notin Executing,
               request'[y] \in Executing, job'[x].of = job'[y].of
        PROVE  x = y
    <3>1. CASE request[y] \in Executing
      BY <1>1, <2>2, <3>1 DEF ClaimedOnce
    <3>2. CASE request[y] \notin Executing
      <4>1. Claim(x) /\ request'[y] # request[y]
        BY <1>1, <2>2, <3>2
      <4>. QED BY <1>0, <4>1 DEF Claim
    <3>. QED BY <3>1, <3>2
  <2>. QED BY <1>4, <2>1, <2>2
<1>. QED BY <1>3, <1>4 DEF ClaimedOnce

\* The endpoint's evidence for a conclusive outcome.
Attested(t, status) ==
  /\ status = "VERIFIED_APPLIED" => Applied(t)
  /\ status = "VERIFIED_NOT_APPLIED" => ledger[t] = "NOT_APPLIED"

\* Evidence stays: a change of the device is not taken back, nor is a decision.
LEMMA AttestedStays ==
  ASSUME CommitTypeOK, Lineage, CommitAction, NEW t \in Transactions, NEW status, Attested(t, status)
  PROVE  Attested(t, status)'
<1>1. ASSUME Applied(t) PROVE Applied(t)'
  <2>1. PICK c \in Commits : job[c].of = t /\ request[c] = "applied"
    BY <1>1 DEF Applied
  <2>2. request'[c] = "applied"
    BY <2>1, RequestMoves
  <2>. QED BY <2>1, <2>2, SentKeepsTransaction DEF Applied
<1>2. ledger[t] = "NOT_APPLIED" => ledger'[t] = "NOT_APPLIED"
  BY LedgerMoves
<1>. QED BY <1>1, <1>2 DEF Attested

\* What is attested as not applied never was.
LEMMA NotAppliedIsFinal ==
  ASSUME ClaimedOnce, NEW t \in Transactions, ledger[t] = "NOT_APPLIED"
  PROVE  ~Applied(t)
BY DEF ClaimedOnce, Applied, Executing

\* A recovery that is about to archive has the endpoint's evidence, and one that is
\* about to release sees a closed row.
AnsweredBy(r) ==
  /\ r.pc = "close" => Attested(r.of, r.seen.status)
  /\ r.pc \in {"release", "confirm"} => Closed(r.of)

Answered == \A q \in Queries : AnsweredBy(recovery[q])

LEMMA AnsweredStays ==
  ASSUME CommitTypeOK, Seen, Lineage, Asked, CommitAction, NEW r \in Recoveries, AnsweredBy(r)
  PROVE  AnsweredBy(r)'
<1>1. r.of \in Transactions
  BY DEF Recoveries
<1>2. r.pc = "close" => Attested(r.of, r.seen.status)'
  BY <1>1, AttestedStays DEF AnsweredBy
<1>3. r.pc \in {"release", "confirm"} => Closed(r.of)'
  BY <1>1, RecordMoves DEF AnsweredBy, Grows
<1>. QED BY <1>2, <1>3 DEF AnsweredBy

\* A recovery moves by a step of its own, or is lost in a crash.
LEMMA RecoveryMoves ==
  ASSUME CommitTypeOK, CommitAction, NEW q \in Queries, recovery'[q] # recovery[q]
  PROVE  RecoveryStep(q) \/ recovery'[q] = NewRecovery
<1>0. recovery \in [Queries -> Recoveries]
  BY DEF CommitTypeOK
<1>1. ASSUME NEW p \in Queries, p # q, RecoveryStep(p) PROVE FALSE
  BY <1>0, <1>1 DEF RecoveryStep, BeginResolve, QueryFinality, CloseFinality, ReleaseSupervisor,
     ConfirmRelease, RecoveryFails, Proceed, Leave
<1>2. CASE Crash
  BY <1>2 DEF Crash
<1>3. CASE ~Crash /\ \A p \in Queries : ~RecoveryStep(p)
  BY <1>3 DEF CommitAction, CommitStep, RestoreStep, Admit, Recheck, Send, Readmit, Abandon, Refuse,
     Executed, Indeterminate, RecordIndeterminate, RecordFails, Hold, Claim, Apply, Reconcile,
     BeginRestore, RestoreFails, RestoreHold, RestoreRelease, RestoreConfirm, RestoreDone,
     Reassess, Disturb, Tick, commitVars, processVars
<1>. QED BY <1>1, <1>2, <1>3

LEMMA RecoveryStepMoves ==
  ASSUME CommitTypeOK, Seen, Lineage, Asked, Answered, CommitAction, NEW q \in Queries, RecoveryStep(q)
  PROVE  /\ recovery'[q].pc \in {"query", "close"} =>
              /\ recovery'[q].seen.status \in Verified
              /\ recovery'[q].seen.report = None /\ ~recovery'[q].seen.released
         /\ AnsweredBy(recovery[q])'
<1>. DEFINE r == recovery[q]
            Goal == /\ recovery'[q].pc \in {"query", "close"} =>
                         /\ recovery'[q].seen.status \in Verified
                         /\ recovery'[q].seen.report = None /\ ~recovery'[q].seen.released
                    /\ AnsweredBy(recovery[q])'
<1>0. recovery \in [Queries -> Recoveries] /\ r \in Recoveries /\ r.of \in Transactions
  BY DEF CommitTypeOK, Recoveries
<1>1. Leave(q) => Goal
  BY <1>0 DEF Leave, NewRecovery, AnsweredBy
<1>2. ASSUME NEW t \in Transactions, BeginResolve(q, t) PROVE Goal
  <2>1. /\ Exists(t) /\ record[t].status \in Verified /\ record' = record
        /\ recovery'[q] = [pc |-> FirstStep(t), of |-> t, at |-> clock, seen |-> record[t]]
    BY <1>0, <1>2 DEF BeginResolve, Resolvable
  <2>2. CASE Closed(t)
    BY <2>1, <2>2 DEF FirstStep, AnsweredBy, Closed, Exists
  <2>3. CASE ~Closed(t)
    <3>1. record[t].report = None /\ ~record[t].released
      BY <2>1, <2>3 DEF Closed, Exists, CommitTypeOK, RecordTypeOK
    <3>. QED BY <2>1, <2>3, <3>1 DEF FirstStep, AnsweredBy
  <2>. QED BY <2>2, <2>3
<1>3. CASE QueryFinality(q)
  <2>1. PICK outcome \in Verified :
          /\ TerminalEvidence(r.of, outcome)
          /\ IF FinalityMatches(r.seen, outcome) THEN Proceed(q, "close") ELSE Leave(q)
    BY <1>3 DEF QueryFinality
  <2>2. CASE FinalityMatches(r.seen, outcome)
    <3>1. r.pc = "query" /\ r.seen.status = outcome /\ UNCHANGED <<request, job>>
      BY <1>3, <2>2 DEF QueryFinality, InRecovery, FinalityMatches
    <3>2. recovery'[q].pc = "close" /\ recovery'[q].seen = r.seen /\ recovery'[q].of = r.of
      BY <1>0, <2>1, <2>2 DEF Proceed, Recoveries
    <3>3. outcome = "VERIFIED_APPLIED" => Applied(r.of)
      BY <2>1 DEF TerminalEvidence
    <3>4. outcome = "VERIFIED_NOT_APPLIED" => ledger'[r.of] = "NOT_APPLIED"
      BY <1>0, <2>1 DEF TerminalEvidence, CloseIfUnstarted, Decide, CommitTypeOK, LedgerTypeOK
    <3>5. Attested(recovery[q].of, recovery[q].seen.status)'
      BY <3>1, <3>2, <3>3, <3>4 DEF Attested, Applied
    <3>. QED BY <3>1, <3>2, <3>5 DEF Asked, AnsweredBy
  <2>. QED BY <1>1, <2>1, <2>2
<1>4. CASE CloseFinality(q)
  <2>1. CASE ~FinalityRaises(r.of, r.seen, q)
    <3>1. /\ r.seen \in Records
          /\ record' = [record EXCEPT ![r.of] = ClosedForm(r.seen, q)]
          /\ recovery'[q].pc = "release" /\ recovery'[q].of = r.of
      BY <1>0, <1>4, <2>1 DEF CloseFinality, ConfirmFinality, Seen, InRecovery, Recoveries
    <3>2. record'[r.of] = ClosedForm(r.seen, q)
      BY <1>0, <3>1 DEF CommitTypeOK, RecordTypeOK
    <3>. QED BY <3>1, <3>2, Forms DEF AnsweredBy, Closed, Exists
  <2>. QED BY <1>1, <1>4, <2>1 DEF CloseFinality
<1>5. CASE ReleaseSupervisor(q)
  <2>1. r.pc = "release" /\ record' = record
    BY <1>5 DEF ReleaseSupervisor, InRecovery
  <2>2. recovery'[q].pc = "confirm" /\ recovery'[q].of = r.of
    BY <1>0, <1>5 DEF ReleaseSupervisor, Proceed, Recoveries
  <2>. QED BY <2>1, <2>2 DEF Answered, AnsweredBy, Closed, Exists
<1>6. CASE ConfirmRelease(q) \/ RecoveryFails(q)
  BY <1>1, <1>6 DEF ConfirmRelease, RecoveryFails
<1>. QED BY <1>2, <1>3, <1>4, <1>5, <1>6 DEF RecoveryStep

LEMMA CallsStep ==
  ASSUME CommitTypeOK, Seen, Lineage, Asked, Answered, CommitAction
  PROVE  Asked' /\ Answered'
<1>0. \A q \in Queries : recovery[q] \in Recoveries
  BY DEF CommitTypeOK
<1>. SUFFICES ASSUME NEW q \in Queries
              PROVE  /\ recovery'[q].pc \in {"query", "close"} =>
                          /\ recovery'[q].seen.status \in Verified
                          /\ recovery'[q].seen.report = None /\ ~recovery'[q].seen.released
                     /\ AnsweredBy(recovery[q])'
  BY DEF Asked, Answered
<1>1. CASE recovery'[q] = recovery[q]
  <2>1. PICK r \in Recoveries : r = recovery[q]
    BY <1>0
  <2>2. AnsweredBy(r)'
    BY <2>1, AnsweredStays DEF Answered
  <2>. QED BY <1>1, <2>1, <2>2 DEF Asked, AnsweredBy
<1>2. CASE recovery'[q] = NewRecovery
  BY <1>2 DEF NewRecovery, AnsweredBy
<1>3. CASE RecoveryStep(q)
  BY <1>3, RecoveryStepMoves
<1>. QED BY <1>1, <1>2, <1>3, RecoveryMoves

\* What a closed row says is attested by the endpoint.
Terminal == \A t \in Transactions : Closed(t) => Attested(t, record[t].status)

LEMMA TerminalStep ==
  ASSUME CommitTypeOK, Seen, Lineage, Asked, Answered, Terminal, CommitAction
  PROVE  Terminal'
<1>. SUFFICES ASSUME NEW t \in Transactions, Closed(t)'
              PROVE  Attested(t, record[t].status)'
  BY DEF Terminal
<1>1. CASE Closed(t)
  <2>1. PICK status : status = record[t].status /\ Attested(t, status)
    BY <1>1 DEF Terminal
  <2>2. Attested(t, status)' /\ record'[t].status = status
    BY <1>1, <2>1, AttestedStays, RecordMoves DEF Grows
  <2>. QED BY <2>2 DEF Attested
<1>2. CASE Closes(t)
  <2>1. PICK q \in Queries :
          /\ CloseFinality(q) /\ recovery[q].of = t
          /\ record'[t].status = recovery[q].seen.status
    BY <1>2 DEF Closes
  <2>2. PICK status : status = recovery[q].seen.status /\ Attested(t, status)
    BY <2>1 DEF CloseFinality, InRecovery, Answered, AnsweredBy
  <2>. QED BY <2>1, <2>2, AttestedStays DEF Attested
<1>. QED BY <1>1, <1>2, RecordMoves

\* The transaction is held in the supervisor, or everything is.
Held(t) == t \in unresolvedTransactions \/ physicalStateUnresolved

\* A step keeps everything that is held.
Keeps ==
  /\ unresolvedTransactions \subseteq unresolvedTransactions'
  /\ physicalStateUnresolved => physicalStateUnresolved'

LEMMA MethodsKeep ==
  /\ \A now, granted : RequireAutomation(now, granted) => Keeps
  /\ \A now, T, raised : InterruptFor(now, T, raised) => Keeps
  /\ \A now : InterruptKnown(now) => Keeps
  /\ \A finding, evidence, now : Validate(finding, evidence, now) => Keeps
  /\ UNCHANGED supervisorVars => Keeps
<1>1. UNCHANGED unresolved => Keeps
  BY DEF unresolved, Keeps
<1>2. ASSUME NEW now, NEW granted, RequireAutomation(now, granted) PROVE Keeps
  BY <1>1, <1>2 DEF RequireAutomation, Status
<1>3. UNCHANGED supervisorVars => Keeps
  BY <1>1 DEF supervisorVars
<1>4. ASSUME NEW now, NEW T, InterruptUnknown(now, T) PROVE Keeps
  BY <1>4 DEF InterruptUnknown, Keeps
<1>5. ASSUME NEW now, NEW T, NEW raised, InterruptFor(now, T, raised) PROVE Keeps
  BY <1>3, <1>4, <1>5 DEF InterruptFor
<1>6. ASSUME NEW now, InterruptKnown(now) PROVE Keeps
  BY <1>1, <1>6 DEF InterruptKnown
<1>7. ASSUME NEW finding, NEW evidence, NEW now, Validate(finding, evidence, now) PROVE Keeps
  BY <1>1, <1>7 DEF Validate
<1>. QED BY <1>2, <1>3, <1>5, <1>6, <1>7

\* Only a release, or a crash, lets go of a transaction.
LEMMA HeldMoves ==
  ASSUME CommitTypeOK, CommitAction, ~Crash
  PROVE  /\ physicalStateUnresolved => physicalStateUnresolved'
         /\ \A t \in unresolvedTransactions \ unresolvedTransactions' :
              \/ \E q \in Queries : ReleaseSupervisor(q) /\ recovery[q].of = t
              \/ RestoreRelease /\ boot.of = t
<1>1. ASSUME NEW c \in Commits, CommitStep(c) PROVE Keeps
  BY <1>1, MethodsKeep DEF CommitStep, Admit, Recheck, Send, Readmit, Abandon, Refuse, Executed, Indeterminate,
     RecordIndeterminate, RecordFails, Hold, Claim, Apply
<1>2. ASSUME NEW t, NEW now, ResolvePhysicalTransaction(t, now)
      PROVE  /\ physicalStateUnresolved => physicalStateUnresolved'
             /\ \A s \in unresolvedTransactions \ unresolvedTransactions' : s = t
  BY <1>2 DEF ResolvePhysicalTransaction, ResolveStranger, ResolveOutstanding, unresolved
<1>3. ASSUME NEW q \in Queries, RecoveryStep(q) PROVE ReleaseSupervisor(q) \/ Keeps
  BY <1>3, MethodsKeep DEF RecoveryStep, BeginResolve, QueryFinality, CloseFinality, ConfirmRelease, RecoveryFails
<1>4. CASE RestoreStep /\ ~RestoreRelease
  <2>1. Keeps
    BY <1>4, MethodsKeep DEF RestoreStep, BeginRestore, RestoreFails, RestoreHold, RestoreConfirm, RestoreDone
  <2>. QED BY <2>1 DEF Keeps
<1>5. CASE Reassess \/ Disturb \/ Tick \/ \E t \in Transactions, status \in Statuses : Reconcile(t, status)
  <2>1. Keeps
    BY <1>5, MethodsKeep DEF Reassess, Disturb, Tick, Reconcile
  <2>. QED BY <2>1 DEF Keeps
<1>6. ASSUME NEW q \in Queries, ReleaseSupervisor(q)
      PROVE  /\ physicalStateUnresolved => physicalStateUnresolved'
             /\ \A s \in unresolvedTransactions \ unresolvedTransactions' : s = recovery[q].of
  BY <1>2, <1>6 DEF ReleaseSupervisor
<1>7. RestoreRelease =>
        /\ physicalStateUnresolved => physicalStateUnresolved'
        /\ \A s \in unresolvedTransactions \ unresolvedTransactions' : s = boot.of
  BY <1>2 DEF RestoreRelease
<1>. QED BY <1>1, <1>3, <1>4, <1>5, <1>6, <1>7 DEF CommitAction, Keeps

\* A restore deals with the report that it saw, and is about to release a closed row.
Restoring ==
  /\ boot.pc \in {"restore", "release", "confirm"} =>
       \A t \in boot.todo : boot.seen[t].report # None => Closed(t)
  /\ boot.pc \in {"release", "confirm"} => Closed(boot.of)

\* What is held and not closed is not let go of.
LEMMA HeldStays ==
  ASSUME CommitTypeOK, Answered, Restoring, CommitAction, ~Crash, NEW t \in Transactions, ~Closed(t), Held(t)
  PROVE  Held(t)'
<1>1. ASSUME NEW q \in Queries, ReleaseSupervisor(q) PROVE recovery[q].of # t
  BY <1>1 DEF ReleaseSupervisor, InRecovery, Answered, AnsweredBy
<1>2. RestoreRelease => boot.of # t
  BY DEF RestoreRelease, Booting, Restoring
<1>. QED BY <1>1, <1>2, HeldMoves DEF Held

\* The start of the process moves by a step of a restore or by a crash.
LEMMA BootMoves ==
  ASSUME CommitAction, boot' # boot
  PROVE  RestoreStep \/ Crash
BY DEF CommitAction, CommitStep, RecoveryStep, Admit, Recheck, Send, Readmit, Abandon, Refuse,
   Executed, Indeterminate, RecordIndeterminate, RecordFails, Hold, Claim, Apply, Reconcile,
   BeginResolve, QueryFinality, CloseFinality, ReleaseSupervisor, ConfirmRelease, RecoveryFails,
   Reassess, Disturb, Tick, commitVars, processVars

\* A restore that held a transaction goes on with the others, or with its release.
LEMMA RestoreHoldEffect ==
  ASSUME CommitTypeOK, NEW t \in Transactions, RestoreHold(t)
  PROVE  \/ boot' = Down
         \/ /\ boot'.seen = boot.seen /\ boot'.todo = boot.todo \ {t}
            /\ boot'.pc = "restore" \/ (boot'.pc = "release" /\ boot'.of = t /\ Archived(t))
            /\ t \in unresolvedTransactions'
<1>1. CASE boot' = Down
  BY <1>1
<1>2. ASSUME boot' = [boot EXCEPT !.todo = @ \ {t},
                                  !.of = IF Archived(t) THEN t ELSE @,
                                  !.pc = IF Archived(t) THEN "release" ELSE @],
             InterruptFor(StampAt(boot.at), {t}, FALSE)
      PROVE  /\ boot'.seen = boot.seen /\ boot'.todo = boot.todo \ {t}
             /\ boot'.pc = "restore" \/ (boot'.pc = "release" /\ boot'.of = t /\ Archived(t))
             /\ t \in unresolvedTransactions'
  <2>1. boot.pc = "restore" /\ boot \in Boots
    BY DEF RestoreHold, Booting, CommitTypeOK
  <2>2. t \in unresolvedTransactions'
    BY <1>2 DEF InterruptFor, InterruptUnknown
  <2>3. CASE Archived(t)
    BY <1>2, <2>1, <2>2, <2>3 DEF Boots
  <2>4. CASE ~Archived(t)
    BY <1>2, <2>1, <2>2, <2>4 DEF Boots
  <2>. QED BY <2>3, <2>4
<1>. QED BY <1>1, <1>2 DEF RestoreHold

LEMMA RestoringStep ==
  ASSUME CommitTypeOK, Seen, Asked, Restoring, CommitAction
  PROVE  Restoring'
<1>0. \A t \in Transactions : Closed(t) => Closed(t)'
  BY RecordMoves DEF Grows
<1>1. boot \in Boots
  BY DEF CommitTypeOK
<1>2. ASSUME boot'.pc \in {"down", "up"} PROVE Restoring'
  BY <1>2 DEF Restoring
<1>3. Down.pc = "down" /\ \A at : [NewBoot EXCEPT !.pc = "up"].pc = "up"
  BY DEF Down, NewBoot
<1>4. CASE boot' = boot
  BY <1>0, <1>1, <1>4 DEF Restoring, Boots
<1>5. CASE Crash
  BY <1>2, CrashMoves, <1>5, <1>3 DEF Crash
<1>6. ASSUME NEW verifying \in BOOLEAN, BeginRestore(verifying) PROVE Restoring'
  <2>1. /\ boot'.pc = "restore" /\ boot'.seen = record /\ record' = record
        /\ boot'.todo = {t \in Transactions : Pending(t)}
    BY <1>6 DEF BeginRestore, NewBoot
  <2>. QED BY <2>1 DEF Restoring, Pending, Closed, Exists
<1>7. CASE RestoreFails
  BY <1>2, <1>3, <1>7 DEF RestoreFails
<1>8. ASSUME NEW t \in Transactions, RestoreHold(t) PROVE Restoring'
  <2>1. record' = record /\ boot.pc = "restore" /\ t \in boot.todo
    BY <1>8 DEF RestoreHold, Booting
  <2>. QED BY <1>0, <1>2, <1>3, <1>8, <2>1, RestoreHoldEffect DEF Restoring, Archived, Closed, Exists
<1>9. CASE RestoreRelease
  BY <1>1, <1>9 DEF RestoreRelease, Booting, Restoring, Boots, Closed, Exists
<1>10. CASE RestoreConfirm
  BY <1>0, <1>1, <1>2, <1>3, <1>10 DEF RestoreConfirm, Booting, Restoring, Boots
<1>11. CASE RestoreDone
  BY <1>2, <1>3, <1>11 DEF RestoreDone, Restored
<1>. QED BY <1>4, <1>5, <1>6, <1>7, <1>8, <1>9, <1>10, <1>11, BootMoves DEF RestoreStep

\* The calls that a commit has still to make, or was refused, before its row is held.
Unfinished == {"record", "hold", "latch", "raised"}

\* What is owed is held, or will be by its commit, once the bridge is up; before that,
\* it is held or will be by the restore.
OwedAndHeld ==
  /\ Booting("up") => \A t \in Transactions : Owed(t) => Held(t) \/ job[record[t].of].pc \in Unfinished
  /\ boot.pc \in {"restore", "release", "confirm"} =>
       \A t \in Transactions : Owed(t) => Held(t) \/ t \in boot.todo

\* A commit that had still to hold its row has held it or has still to.
LEMMA UnfinishedMoves ==
  ASSUME CommitTypeOK, CommitAction, NEW c \in Commits, NEW t \in Transactions, job[c].of = t,
         CommitStep(c), job[c].pc \in Unfinished
  PROVE  Held(t)' \/ job'[c].pc \in Unfinished
<1>1. CASE RecordIndeterminate(c) \/ RecordFails(c)
  BY <1>1, MoveEffect DEF Unfinished
<1>2. CASE Hold(c)
  <2>1. PICK i \in Readings(c), raised \in BOOLEAN :
          /\ InterruptFor([wall |-> job[c].recordedAt, mono |-> i],
                          IF At(c, "hold") THEN {job[c].of} ELSE {}, raised)
          /\ IF raised /\ job[c].again
               THEN LoseOutcome(c, FALSE)
               ELSE Goto(c, IF raised \/ At(c, "latch") THEN "raised" ELSE "failed")
    BY <1>2 DEF Hold
  <2>2. CASE raised \/ At(c, "latch")
    <3>1. LoseOutcome(c, FALSE) \/ Goto(c, "raised")
      BY <2>1, <2>2
    <3>2. "raised" \in CommitPcs
      BY DEF CommitPcs, Ended
    <3>. QED BY <3>1, <3>2, GotoEffect, LoseOutcomeEffect DEF Unfinished
  <2>3. CASE ~raised /\ At(c, "hold")
    <3>1. InterruptUnknown([wall |-> job[c].recordedAt, mono |-> i], {job[c].of})
      BY <2>1, <2>3 DEF InterruptFor
    <3>. QED BY <3>1 DEF InterruptUnknown, Held
  <2>. QED BY <1>2, <2>2, <2>3 DEF Hold, At
<1>3. CASE Claim(c) \/ Apply(c)
  BY <1>3 DEF Claim, Apply, processVars
<1>4. CASE \/ \E s \in Transactions : Admit(c, s)
           \/ Recheck(c) \/ Send(c) \/ Abandon(c) \/ Refuse(c) \/ Executed(c) \/ Indeterminate(c)
  BY <1>4 DEF Admit, Recheck, Send, Abandon, Refuse, Executed, Indeterminate, At, Unfinished
<1>. QED BY <1>1, <1>2, <1>3, <1>4 DEF CommitStep

LEMMA OwedStep ==
  ASSUME CommitTypeOK, Seen, Lineage, Asked, Answered, Restoring, OwedAndHeld, CommitAction
  PROVE  OwedAndHeld'
<1>. USE DEF Booting
<1>0. boot \in Boots /\ Down.pc = "down"
  BY DEF CommitTypeOK, Down, NewBoot
\* What is owed now was owed before, or its row is new.
<1>1. ASSUME NEW t \in Transactions, Owed(t)'
      PROVE  \/ Owed(t) /\ record'[t].of = record[t].of
             \/ Opens(t)
  BY <1>1, RecordMoves DEF Owed, Grows
<1>2. ASSUME NEW t \in Transactions, Owed(t), Held(t), ~Crash PROVE Held(t)'
  BY <1>2, HeldStays DEF Owed
<1>3. CASE Crash
  <2>1. boot'.pc = "down"
    BY <1>3 DEF Crash, Down, NewBoot
  <2>. QED BY <2>1 DEF OwedAndHeld
<1>4. CASE boot' = boot /\ boot.pc = "up" /\ ~Crash
  <2>1. ASSUME NEW t \in Transactions, Opens(t) PROVE job'[record'[t].of].pc \in Unfinished
    BY <2>1, MoveEffect DEF Opens, Unfinished
  <2>2. ASSUME NEW t \in Transactions, Owed(t), record'[t].of = record[t].of, ~Held(t)
        PROVE  Held(t)' \/ job'[record'[t].of].pc \in Unfinished
    <3>1. PICK c \in Commits : c = record[t].of
      BY <2>2 DEF Owed, Exists, CommitTypeOK, RecordTypeOK, Records
    <3>2. job[c].of = t /\ job[c].pc \in Unfinished
      BY <1>4, <2>2, <3>1 DEF Lineage, Owed, OwedAndHeld
    <3>3. CASE CommitStep(c)
      BY <2>2, <3>1, <3>2, <3>3, UnfinishedMoves
    <3>4. CASE \E d \in Commits \ {c} : CommitStep(d)
      BY <2>2, <3>1, <3>2, <3>4, CommitStepMoves DEF OthersStay
    <3>5. CASE \A d \in Commits : ~CommitStep(d)
      BY <1>4, <2>2, <3>1, <3>2, <3>5, JobFrame
    <3>. QED BY <3>3, <3>4, <3>5
  <2>. QED BY <1>1, <1>2, <1>4, <2>1, <2>2 DEF OwedAndHeld
<1>. SUFFICES ASSUME ~Crash, boot.pc # "up" PROVE OwedAndHeld'
  <2>1. RestoreStep => boot.pc # "up"
    BY DEF RestoreStep, BeginRestore, RestoreFails, RestoreHold, RestoreRelease, RestoreConfirm, RestoreDone
  <2>2. boot' = boot \/ boot.pc # "up" \/ Crash
    BY <2>1, BootMoves
  <2>. QED BY <1>3, <1>4, <2>2
\* Before the bridge is up, no commit records.
<1>5. ASSUME NEW t \in Transactions, Owed(t)' PROVE Owed(t)
  <2>1. ~Opens(t)
    BY DEF Opens, RecordIndeterminate, At, Lineage
  <2>. QED BY <1>1, <1>5, <2>1
<1>6. CASE boot' = boot
  BY <1>2, <1>5, <1>6 DEF OwedAndHeld
<1>7. ASSUME NEW verifying \in BOOLEAN, BeginRestore(verifying) PROVE OwedAndHeld'
  <2>1. boot'.pc = "restore" /\ boot'.todo = {t \in Transactions : Pending(t)}
    BY <1>7 DEF BeginRestore, NewBoot
  <2>2. ASSUME NEW t \in Transactions, Owed(t) PROVE Pending(t)
    BY <2>2 DEF Owed, Pending, Closed, Released, Exists, CommitTypeOK, RecordTypeOK
  <2>. QED BY <1>5, <2>1, <2>2 DEF OwedAndHeld
<1>8. CASE RestoreFails
  <2>1. PICK i \in boot.at..clock, raised \in BOOLEAN :
          /\ InterruptFor(StampAt(i), {}, raised)
          /\ boot' = IF raised THEN Down ELSE [NewBoot EXCEPT !.pc = "up"]
    BY <1>8 DEF RestoreFails
  <2>2. CASE raised
    BY <1>0, <2>1, <2>2 DEF OwedAndHeld
  <2>3. CASE ~raised
    <3>1. physicalStateUnresolved' /\ boot'.pc = "up"
      BY <2>1, <2>3 DEF InterruptFor, InterruptUnknown, NewBoot
    <3>. QED BY <3>1 DEF OwedAndHeld, Held
  <2>. QED BY <2>2, <2>3
<1>9. ASSUME NEW s \in Transactions, RestoreHold(s) PROVE OwedAndHeld'
  <2>1. CASE boot' = Down
    BY <1>0, <2>1 DEF OwedAndHeld
  <2>2. CASE /\ boot'.todo = boot.todo \ {s} /\ boot'.pc \in {"restore", "release"}
             /\ s \in unresolvedTransactions'
    <3>1. boot.pc = "restore"
      BY <1>9 DEF RestoreHold
    <3>. QED BY <1>2, <1>5, <2>2, <3>1 DEF OwedAndHeld, Held
  <2>. QED BY <1>9, <2>1, <2>2, RestoreHoldEffect
<1>10. CASE RestoreRelease
  BY <1>0, <1>2, <1>5, <1>10 DEF RestoreRelease, OwedAndHeld, Boots
<1>11. CASE RestoreConfirm
  BY <1>0, <1>2, <1>5, <1>11 DEF RestoreConfirm, OwedAndHeld, Boots
<1>12. CASE RestoreDone
  BY <1>0, <1>2, <1>5, <1>12 DEF RestoreDone, Restored, NewBoot, OwedAndHeld
<1>. QED BY <1>6, <1>7, <1>8, <1>9, <1>10, <1>11, <1>12, BootMoves DEF RestoreStep

\* What the supervisor promises to any caller, it promises here: the commits' and
\* recoveries' calls are steps of it, and a new supervisor starts with the promise.
LEMMA SupervisorKeepsInv ==
  ASSUME CommitTypeOK, Inv, CommitAction
  PROVE  Inv'
<1>1. ASSUME NewSupervisor PROVE Inv'
  BY <1>1, NewSupervisorType
  DEF NewSupervisor, Inv, UnresolvedIsUnknown, Unresolved, ActiveOutlivesInterruption, PAUSED, ACTIVE
<1>. QED BY <1>1, SupervisorMoves, StepInv, StutterInv

-----------------------------------------------------------------------------
(* The theorems *)

CommitInv ==
  /\ CommitTypeOK /\ Seen /\ Inv
  /\ Lineage /\ Epochs /\ ClaimedOnce
  /\ Asked /\ Answered /\ Terminal
  /\ Restoring /\ OwedAndHeld

LEMMA InitCommitInv == ASSUME CommitInit PROVE CommitInv
<1>1. CommitTypeOK /\ Seen /\ Inv
  BY CommitInitTypeOK, InitSeen, InitInv DEF CommitInit
<1>2. \A t \in Transactions : ~Exists(t)
  BY DEF CommitInit, RecordInit, Exists
<1>3. Lineage /\ Epochs /\ ClaimedOnce
  BY <1>2 DEF CommitInit, NewJob, Lineage, Epochs, ClaimedOnce, Executing, Booting
<1>4. Asked /\ Answered
  BY DEF CommitInit, NewRecovery, Asked, Answered, AnsweredBy
<1>5. Terminal /\ Restoring /\ OwedAndHeld
  BY <1>2 DEF CommitInit, NewBoot, Terminal, Closed, Restoring, OwedAndHeld, Booting
<1>. QED BY <1>1, <1>3, <1>4, <1>5 DEF CommitInv

LEMMA StepCommitInv == ASSUME CommitInv, CommitNext PROVE CommitInv'
<1>1. CommitAction /\ lapsed' \subseteq Commits
  BY NextIsAction, LapsedType
<1>2. CommitTypeOK' /\ Seen' /\ Inv'
  BY <1>1, ActionKeepsType, SupervisorKeepsInv DEF CommitInv
<1>3. Lineage' /\ Epochs' /\ ClaimedOnce'
  BY <1>1, LineageStep, EpochsStep, ClaimedOnceStep DEF CommitInv
<1>4. Asked' /\ Answered' /\ Terminal'
  BY <1>1, CallsStep, TerminalStep DEF CommitInv
<1>5. Restoring' /\ OwedAndHeld'
  BY <1>1, RestoringStep, OwedStep DEF CommitInv
<1>. QED BY <1>2, <1>3, <1>4, <1>5 DEF CommitInv

LEMMA StutterCommitInv == ASSUME CommitInv, UNCHANGED allVars PROVE CommitInv'
<1>1. UNCHANGED supervisorVars /\ UNCHANGED commitVars /\ UNCHANGED lapsed
  BY DEF allVars
<1>2. CommitTypeOK' /\ Seen' /\ Inv'
  BY <1>1, StutterType, StutterInv DEF CommitInv
<1>3. /\ UNCHANGED <<admissionGeneration, unresolvedTransactions, physicalStateUnresolved>>
      /\ UNCHANGED <<record, ledger, request, job, recovery, boot, lapsed>>
  BY <1>1 DEF supervisorVars, unresolved, commitVars, processVars
<1>. QED BY <1>2, <1>3
     DEF CommitInv, Lineage, Epochs, ClaimedOnce, Asked, Answered, AnsweredBy, Attested, Applied, Terminal,
         Restoring, OwedAndHeld, Owed, Closed, Exists, Held, Booting

LEMMA CommitInvIsInvariant == CommitSpec => []CommitInv
<1>1. CommitInv /\ [CommitNext]_allVars => CommitInv'
  BY StepCommitInv, StutterCommitInv
<1>. QED BY <1>1, InitCommitInv, PTL DEF CommitSpec

\* The state of the bridge, of the recoveries, of the record and of the endpoint stays
\* within its types, across crashes too.
THEOREM CommitTypeCorrect == CommitSpec => []CommitTypeOK
BY CommitInvIsInvariant, PTL DEF CommitInv

\* Once the bridge is up, what is recorded and not closed is held in the supervisor, or
\* its own commit has still to hold it or was refused: for any number of commits,
\* recoveries and crashes.
THEOREM OwedStaysHeld == CommitSpec => []OwedIsHeld
<1>1. CommitInv => OwedIsHeld
  BY DEF CommitInv, OwedAndHeld, OwedIsHeld, Held, Unfinished
<1>. QED BY <1>1, CommitInvIsInvariant, PTL

\* Automation stays off while an effect is unaccounted for: once the bridge is up, the
\* supervisor shows UNKNOWN_PHYSICAL_STATE as long as a row is recorded and not closed,
\* except while its own commit has still to hold it or was refused.
OwedIsUnknown ==
  Booting("up") =>
    \A t \in Transactions : Owed(t) => state = UNKNOWN \/ job[record[t].of].pc \in Unfinished

\* So a recorded effect that is open shows in the supervisor's state, in whatever order
\* calls, crashes and restores follow one another.
THEOREM OwedStaysUnknown == CommitSpec => []OwedIsUnknown
<1>1. CommitInv => OwedIsUnknown
  BY DEF CommitInv, Inv, UnresolvedIsUnknown, Unresolved, OwedAndHeld, OwedIsUnknown, Held
<1>. QED BY <1>1, CommitInvIsInvariant, PTL

\* The supervisor's own promises hold under the calls of commits, recoveries and
\* restores, and across crashes.
THEOREM SupervisorStaysSafe == CommitSpec => [](UnresolvedIsUnknown /\ ActiveOutlivesInterruption)
BY CommitInvIsInvariant, PTL DEF CommitInv, Inv

\* A transaction is executed for at most one commit, and what its closed record says is
\* what became of it.
THEOREM ClosedStaysFinal == CommitSpec => []ClosedIsFinal
<1>1. ASSUME CommitInv PROVE ClosedIsFinal
  <2>. SUFFICES ASSUME NEW t \in Transactions
                PROVE  /\ Cardinality({c \in Commits : job[c].of = t /\ request[c] = "applied"}) <= 1
                       /\ Closed(t) => (record[t].status = "VERIFIED_APPLIED" <=> Applied(t))
                       /\ Closed(t) /\ ~Applied(t) => ledger[t] = "NOT_APPLIED"
    BY DEF ClosedIsFinal
  <2>. DEFINE S == {c \in Commits : job[c].of = t /\ request[c] = "applied"}
  <2>1. Cardinality(S) <= 1
    <3>1. CASE S = {}
      BY <3>1, FS_EmptySet
    <3>2. CASE S # {}
      <4>1. PICK c : c \in S
        BY <3>2
      <4>2. S = {c}
        BY <1>1, <4>1 DEF CommitInv, ClaimedOnce, Executing
      <4>3. Cardinality({c}) = 1
        BY FS_Singleton
      <4>. HIDE DEF S
      <4>. QED BY <4>2, <4>3
    <3>. QED BY <3>1, <3>2
  <2>2. ASSUME Closed(t)
        PROVE  /\ record[t].status = "VERIFIED_APPLIED" <=> Applied(t)
               /\ ~Applied(t) => ledger[t] = "NOT_APPLIED"
    <3>1. record[t].status \in Verified /\ Attested(t, record[t].status)
      BY <1>1, <2>2 DEF CommitInv, Terminal, Closed, Exists, CommitTypeOK, RecordTypeOK
    <3>. QED BY <1>1, <3>1, NotAppliedIsFinal DEF CommitInv, Attested, Verified
  <2>. QED BY <2>1, <2>2
<1>. QED BY <1>1, CommitInvIsInvariant, PTL

\* A request leaves only under the stretch of permission that admitted its commit.
THEOREM SentUnderAdmission == CommitSpec => SentUnderItsAdmission
<1>1. ASSUME CommitInv, [CommitNext]_allVars, NEW c \in Commits, ~At(c, "sent"), job'[c].pc = "sent"
      PROVE  c \notin lapsed'
  <2>1. job' # job
    BY <1>1 DEF At
  <2>2. CommitNext
    BY <1>1, <2>1 DEF allVars, commitVars, processVars
  <2>3. CommitAction /\ CommitTypeOK /\ Lineage /\ Epochs
    BY <1>1, <2>2, NextIsAction DEF CommitInv
  <2>4. ~Crash
    BY <1>1, <2>3, CrashMoves
  <2>5. CommitStep(c)
    BY <1>1, <2>3, <2>4, CommitStepMoves, JobFrame DEF OthersStay, At
  <2>6. Send(c)
    <3>1. ~Recheck(c) /\ \A t \in Transactions : ~Admit(c, t)
      BY <1>1, <2>3, ReadmitEffect, AdmitEffect DEF Recheck
    <3>2. ~(Claim(c) \/ Apply(c))
      BY <1>1 DEF Claim, Apply, processVars, At
    <3>. QED BY <1>1, <2>3, <2>5, <3>1, <3>2, MoveEffect DEF CommitStep
  <2>7. At(c, "cleared") /\ state' = ACTIVE /\ admissionGeneration' = job[c].generation
    BY <1>1, <2>3, <2>6, ReadmitEffect DEF Send
  <2>8. admissionGeneration' = admissionGeneration /\ admissionGeneration \in Nat
    BY <2>3, <2>4, <2>7, EpochMoves DEF CommitTypeOK, SupervisorTypeOK
  <2>9. c \notin lapsed
    <3>1. c \in lapsed => job[c].generation < admissionGeneration
      BY <2>3, <2>7 DEF Epochs, At
    <3>2. job[c].generation = admissionGeneration
      BY <2>7, <2>8
    <3>. QED BY <2>8, <3>1, <3>2
  <2>. QED BY <2>2, <2>7, <2>9 DEF CommitNext
<1>2. CommitInv /\ [CommitNext]_allVars =>
        [\A c \in Commits : ~At(c, "sent") /\ job'[c].pc = "sent" => c \notin lapsed']_allVars
  BY <1>1
<1>. QED BY <1>2, CommitInvIsInvariant, PTL DEF CommitSpec, SentUnderItsAdmission

\* The supervisor lets go of a transaction only when its finality is archived, or with
\* everything else in a crash.
THEOREM ReleasedWhenClosed == CommitSpec => ReleasedOnlyWhenClosed
<1>1. ASSUME CommitInv, CommitNext, NEW t \in unresolvedTransactions \ unresolvedTransactions'
      PROVE  Closed(t) \/ crashes' # crashes
  <2>1. CommitAction /\ CommitTypeOK
    BY <1>1, NextIsAction DEF CommitInv
  <2>2. CASE Crash
    <3>1. crashes \in 0..MaxCrashes
      BY <2>1 DEF CommitTypeOK
    <3>2. crashes' = crashes + 1
      BY <2>2 DEF Crash
    <3>. QED BY <3>1, <3>2, CommitBoundsAssumption
  <2>3. ASSUME NEW q \in Queries, ReleaseSupervisor(q), recovery[q].of = t PROVE Closed(t)
    BY <1>1, <2>3 DEF CommitInv, Answered, AnsweredBy, ReleaseSupervisor, InRecovery
  <2>4. ASSUME RestoreRelease, boot.of = t PROVE Closed(t)
    BY <1>1, <2>4 DEF CommitInv, Restoring, RestoreRelease, Booting
  <2>. QED BY <2>1, <2>2, <2>3, <2>4, HeldMoves
<1>2. CommitInv /\ [CommitNext]_allVars =>
        [\A t \in unresolvedTransactions \ unresolvedTransactions' : Closed(t) \/ crashes' # crashes]_allVars
  BY <1>1
<1>. QED BY <1>2, CommitInvIsInvariant, PTL DEF CommitSpec, ReleasedOnlyWhenClosed

\* The first report archived for a transaction stands, and so does its release.
THEOREM ArchiveStaysFinal == CommitSpec => ArchiveIsFinal
<1>1. ASSUME CommitInv, CommitNext, NEW t \in Transactions, Closed(t)
      PROVE  /\ record'[t].report = record[t].report
             /\ record[t].released => record'[t].released
  BY <1>1, NextIsAction, RecordMoves DEF CommitInv, Grows
<1>2. CommitInv /\ [CommitNext]_allVars =>
        [\A t \in Transactions : Closed(t) =>
           /\ record'[t].report = record[t].report
           /\ record[t].released => record'[t].released]_allVars
  BY <1>1
<1>. QED BY <1>2, CommitInvIsInvariant, PTL DEF CommitSpec, ArchiveIsFinal

=============================================================================
