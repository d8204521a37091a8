------------------------ MODULE PhysicalRecoveryStore ------------------------
(***************************************************************************)
(* The durable record of physical effects whose outcome was lost: one row  *)
(* of an SQLite table per transaction, every method one transaction of the *)
(* database.  A record starts as RECOVERY_REQUIRED, is reconciled with one *)
(* observation of the device, is closed with an endpoint's finality report *)
(* and at last marked as released by the supervisor.                       *)
(*                                                                         *)
(* The lineage of a record (intent, device, digests) is abstracted to the  *)
(* commit call it stems from, a finality report to the query it answers.   *)
(***************************************************************************)
EXTENDS Integers

CONSTANTS
  Transactions,  \* identifiers of physical transactions
  Commits,       \* commit calls: the lineage of a record
  Queries,       \* finality queries: the nonce a report answers
  None           \* no query

VARIABLE record  \* the table physical_recovery_records

Verified == {"VERIFIED_APPLIED", "VERIFIED_NOT_APPLIED"}

Statuses == Verified \cup {"RECOVERY_REQUIRED", "MANUAL_REVIEW_REQUIRED"}

Records ==
  [status : Statuses, of : Commits, recordedAt : Int,
   report : Queries \cup {None}, released : BOOLEAN]

\* No row.
Absent == [status |-> "ABSENT"]

RecordTypeOK ==
  /\ record \in [Transactions -> Records \cup {Absent}]
  /\ \A t \in Transactions : record[t] # Absent =>
       /\ record[t].report # None => record[t].status \in Verified
       /\ record[t].released => record[t].report # None

RecordInit == record = [t \in Transactions |-> Absent]

Exists(t) == record[t] # Absent

\* finality_closed
Closed(t) == Exists(t) /\ record[t].report # None

Released(t) == Exists(t) /\ record[t].released

\* An effect is recorded and no endpoint has closed it.
Owed(t) == Exists(t) /\ ~Closed(t)

-----------------------------------------------------------------------------

Fresh(c, at) ==
  [status |-> "RECOVERY_REQUIRED", of |-> c, recordedAt |-> at, report |-> None, released |-> FALSE]

\* record raises: another record holds the transaction.
Conflicts(t, fresh) == Exists(t) /\ record[t] # fresh

Record(t, fresh) ==
  /\ ~Conflicts(t, fresh)
  /\ record' = [record EXCEPT ![t] = fresh]

\* reconcile_observation of an open record by an observation that does not
\* predate it; the observed state is the target, the earlier state or neither.
ReconcileObservation(t, status, observedAt) ==
  /\ Exists(t)
  /\ record[t].status = "RECOVERY_REQUIRED"
  /\ observedAt >= record[t].recordedAt
  /\ status \in Statuses \ {"RECOVERY_REQUIRED"}
  /\ record' = [record EXCEPT ![t].status = status]

\* confirm_finality: the record must still be the one the caller saw, or the
\* record the caller would have made of it, and its report may not change.
ClosedForm(seen, query) == [seen EXCEPT !.report = query]

\* Faulty variant: the row is not compared with what the caller saw.
FinalityRaisesOnItsOwnRecord(t, seen, query) == ~Exists(t) \/ seen.report \notin {None, query}

FinalityRaises(t, seen, query) ==
  \/ ~Exists(t)
  \/ seen.report \notin {None, query}
  \/ record[t] \notin {seen, ClosedForm(seen, query)}

ConfirmFinality(t, seen, query) ==
  /\ seen.status \in Verified
  /\ ~FinalityRaises(t, seen, query)
  /\ record' = [record EXCEPT ![t] = ClosedForm(seen, query)]

\* confirm_supervisor_release
ReleasedForm(seen) == [seen EXCEPT !.released = TRUE]

ReleaseRaises(t, seen) ==
  ~Exists(t) \/ seen.report = None \/ record[t] \notin {seen, ReleasedForm(seen)}

ConfirmSupervisorRelease(t, seen) ==
  /\ ~ReleaseRaises(t, seen)
  /\ record' = [record EXCEPT ![t] = ReleasedForm(seen)]

=============================================================================
