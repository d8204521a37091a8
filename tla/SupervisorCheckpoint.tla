------------------------- MODULE SupervisorCheckpoint -------------------------
(***************************************************************************)
(* Checkpoints of the protection supervisor across restarts.  A save first *)
(* advances a freshness witness outside the device (a compare-and-advance  *)
(* on sequence and digest) and then replaces the checkpoint file; nothing  *)
(* locks the two steps together, so savers interleave, and a step may fail *)
(* before or after it took effect.  While the process is down the file may *)
(* be lost, damaged or put back to an earlier authentic one.  The restart  *)
(* builds a new supervisor and hands it what the store accepts.            *)
(*                                                                         *)
(* The digest covers the whole checkpoint, so the witness is modelled as   *)
(* holding the checkpoint itself.  Signatures, encodings and their size    *)
(* limits only decide whether the file is one the store wrote.  The code   *)
(* that decides when to save and restore is outside the repository: any    *)
(* saver may save the supervisor's present state under any sequence, may   *)
(* retry what failed, and every start of the process restores.             *)
(***************************************************************************)
EXTENDS ProtectionSupervisor

CONSTANTS
  Savers,       \* threads that save checkpoints
  Reports,      \* what evidence may say, some of the Findings
  MaxClock,     \* bound on the instants of the clock
  MaxSequence,  \* bound on checkpoint sequences
  MaxRestarts,  \* bound on restarts of the process
  NoCheckpoint, \* no file, an unreadable one, or no record at the witness
  None          \* no checkpoint was accepted

ASSUME CheckpointBounds ==
  /\ MaxClock \in Nat /\ MaxSequence \in Nat /\ MaxRestarts \in Nat
  /\ Reports \subseteq Findings

VARIABLES
  clock,       \* the present instant
  booted,      \* the instant at which the monotonic clock read zero
  life,        \* runtime_generation: the restarts so far
  running,     \* the process is up and has restored
  file,        \* the checkpoint file
  written,     \* history: every checkpoint the file ever held
  witness,     \* the record at the freshness witness
  jobs,        \* the save each saver is in
  returned,    \* history: the checkpoints whose save returned
  restored,    \* history: the checkpoint this start accepted, or None
  restartedAt, \* history: the monotonic reading given to the restorer
  held,        \* history: the lives that began with an accepted checkpoint in UNKNOWN
  blind        \* history: the lives that began without a checkpoint

storeVars == <<file, written, witness, jobs, returned>>
startVars == <<held, blind>>
restartVars == <<booted, life, running, restored, restartedAt, startVars>>
checkpointVars == <<supervisorVars, clock, storeVars, restartVars>>

Checkpoints ==
  [state : ProtectionStates, observedAt : 0 .. MaxClock,
   generation : 0 .. MaxRestarts, sequence : 1 .. MaxSequence]

Idle == [step |-> "idle"]
Jobs == {Idle} \cup [step : {"advance", "write", "failed"}, checkpoint : Checkpoints]

ASSUME NoCheckpointAssumption == NoCheckpoint \notin Checkpoints /\ None \notin Checkpoints

CheckpointTypeOK ==
  /\ state \in ProtectionStates
  /\ lastObservedAt \in 0 .. MaxClock \cup {NoTime}
  /\ physicalStateUnresolved \in BOOLEAN
  /\ clock \in 0 .. MaxClock
  /\ booted \in 0 .. clock
  /\ life \in 0 .. MaxRestarts
  /\ running \in BOOLEAN
  /\ file \in Checkpoints \cup {NoCheckpoint}
  /\ written \subseteq Checkpoints
  /\ witness \in Checkpoints \cup {NoCheckpoint}
  /\ jobs \in [Savers -> Jobs]
  /\ returned \subseteq written
  /\ restored \in Checkpoints \cup {None}
  /\ restartedAt \in 0 .. MaxClock \cup {NoTime}
  /\ held \subseteq 0 .. MaxRestarts
  /\ blind \subseteq 0 .. MaxRestarts

CheckpointInit ==
  /\ SupervisorInit
  /\ clock = 0 /\ booted = 0 /\ life = 0 /\ running = FALSE
  /\ file = NoCheckpoint /\ written = {} /\ witness = NoCheckpoint
  /\ jobs = [s \in Savers |-> Idle]
  /\ returned = {} /\ restored = None /\ restartedAt = NoTime
  /\ held = {} /\ blind = {}

-----------------------------------------------------------------------------
(* The supervisor in use *)

\* A reading of both clocks at an instant of this boot.
At(instant) == [wall |-> instant, mono |-> instant - booted]

Tick ==
  /\ clock < MaxClock   \* bound
  /\ clock' = clock + 1
  /\ UNCHANGED <<supervisorVars, storeVars, restartVars>>

Use ==
  /\ running
  /\ \/ Interrupted(At(clock))
     \/ \E report \in Reports, captured \in booted .. clock :
          Validate(report, At(captured), At(clock))
     \/ Status(At(clock).wall, At(clock).mono)
  /\ UNCHANGED <<clock, storeVars, restartVars>>

-----------------------------------------------------------------------------
(* Saving *)

\* A checkpoint needs a finite observed_at, which a supervisor that never
\* judged evidence does not have.
Present(sequence) ==
  [state |-> state, observedAt |-> lastObservedAt,
   generation |-> life, sequence |-> sequence]

Save(s, sequence) ==
  /\ running
  /\ jobs[s].step \in {"idle", "failed"}
  /\ lastObservedAt # NoTime
  /\ jobs' = [jobs EXCEPT ![s] = [step |-> "advance", checkpoint |-> Present(sequence)]]
  /\ UNCHANGED <<supervisorVars, clock, file, written, witness, returned, restartVars>>

\* The identical checkpoint is saved again after a failure.
Retry(s) ==
  /\ running
  /\ jobs[s].step = "failed"
  /\ jobs' = [jobs EXCEPT ![s].step = "advance"]
  /\ UNCHANGED <<supervisorVars, clock, file, written, witness, returned, restartVars>>

\* The witness has an authentic record for this store.
Recorded == witness # NoCheckpoint

\* Faulty variant: a sequence may be taken by a second checkpoint.
AdvanceableToAnySequence(c) ==
  IF Recorded
    THEN c.sequence \in {witness.sequence, witness.sequence + 1}
    ELSE c.sequence = 1

\* compare_and_advance accepts the next sequence, or the record it holds.
Advanceable(c) ==
  IF Recorded
    THEN c = witness \/ c.sequence = witness.sequence + 1
    ELSE c.sequence = 1

\* freshness_anchor.advance: refused, unavailable before or after the witness
\* recorded the checkpoint, or done.
Advance(s) ==
  LET c == jobs[s].checkpoint IN
  /\ jobs[s].step = "advance"
  /\ \/ /\ Advanceable(c)
        /\ witness' = c
        /\ \E step \in {"write", "failed"} : jobs' = [jobs EXCEPT ![s].step = step]
     \/ /\ jobs' = [jobs EXCEPT ![s].step = "failed"]
        /\ UNCHANGED witness
  /\ UNCHANGED <<supervisorVars, clock, file, written, returned, restartVars>>

\* The file is replaced; the call fails before or after, or returns.
Write(s) ==
  LET c == jobs[s].checkpoint IN
  /\ jobs[s].step = "write"
  /\ \/ /\ jobs' = [jobs EXCEPT ![s] = Idle]
        /\ file' = c
        /\ written' = written \cup {c}
        /\ returned' = returned \cup {c}
     \/ /\ jobs' = [jobs EXCEPT ![s].step = "failed"]
        /\ \/ file' = c /\ written' = written \cup {c}
           \/ UNCHANGED <<file, written>>
        /\ UNCHANGED returned
  /\ UNCHANGED <<supervisorVars, clock, witness, restartVars>>

-----------------------------------------------------------------------------
(* Restart *)

\* The process ends; the monotonic clock goes on, or starts anew with the device.
Stop ==
  /\ running
  /\ life < MaxRestarts   \* bound
  /\ life' = life + 1
  /\ running' = FALSE
  /\ booted' \in {booted, clock}
  /\ jobs' = [s \in Savers |-> Idle]
  /\ restored' = None /\ restartedAt' = NoTime
  /\ state' = PAUSED
  /\ interruptedAt' = NoTime /\ interruptedMonotonic' = NoTime
  /\ lastObservedAt' = NoTime /\ lastObservedMonotonic' = NoTime
  /\ reactivationAfter' = NoTime /\ reactivationAfterMonotonic' = NoTime
  /\ physicalStateUnresolved' = FALSE /\ unresolvedTransactions' = {}
  /\ admissionGeneration' = 0
  /\ UNCHANGED <<clock, file, written, witness, returned, startVars>>

\* While the process is down its file is lost, damaged or put back.
Meddle ==
  /\ ~running
  /\ file' \in written \cup {NoCheckpoint}
  /\ UNCHANGED <<supervisorVars, clock, written, witness, jobs, returned, restartVars>>

\* The file exists, was written by this store and decodes to a checkpoint.
Readable == file # NoCheckpoint

\* Faulty variant: only a file ahead of the witness is refused.
LoadableUnlessAhead == file.sequence <= witness.sequence

\* load compares sequence and digest with the record of the witness.
Loadable == file = witness

\* Faulty variant: a new runtime generation is examined first.
PhysicalStateKnownUnlessReused(c) == c.state # UNKNOWN \/ c.generation # life

\* The physical state a checkpoint vouches for.
PhysicalStateKnown(c) == c.state # UNKNOWN

\* restore: history only; the supervisor demands fresh evidence.
RestoreAccepted ==
  /\ ~running
  /\ Readable /\ Recorded
  /\ Loadable
  /\ RequireRevalidation(file.observedAt, At(clock), PhysicalStateKnown(file))
  /\ restored' = file
  /\ restartedAt' = At(clock).mono
  /\ running' = TRUE
  /\ held' = IF file.state = UNKNOWN THEN held \cup {life} ELSE held
  /\ UNCHANGED <<clock, storeVars, booted, life, blind>>

\* CHECKPOINT_ROLLBACK_DETECTED, CHECKPOINT_FRESHNESS_ANCHOR_UNAVAILABLE and
\* CHECKPOINT_UNAVAILABLE_OR_INVALID: the restorer goes on without it.
RestoreRefused ==
  /\ ~running
  /\ RequireRevalidation(NoTime, At(clock), TRUE)
  /\ restored' = None
  /\ restartedAt' = At(clock).mono
  /\ running' = TRUE
  /\ blind' = blind \cup {life}
  /\ UNCHANGED <<clock, storeVars, booted, life, held>>

-----------------------------------------------------------------------------

CheckpointNext ==
  \/ Tick \/ Use \/ Stop \/ Meddle \/ RestoreAccepted \/ RestoreRefused
  \/ \E s \in Savers :
       \/ \E sequence \in 1 .. MaxSequence : Save(s, sequence)
       \/ Retry(s) \/ Advance(s) \/ Write(s)

CheckpointSpec == CheckpointInit /\ [][CheckpointNext]_checkpointVars

-----------------------------------------------------------------------------
(* Properties *)

\* A start never accepts a checkpoint older than one whose save returned, or
\* another one of the same sequence, whichever savers overlapped, failed or
\* retried, and whatever was put in the file's place (save and load of
\* RollbackProtectedProtectionSupervisorCheckpointStore).  Saves of the run it
\* started may be newer.
RestoredIsNewest ==
  restored # None =>
    \A c \in returned :
      c = restored \/ c.sequence < restored.sequence \/ c.generation = life

\* Two saves that returned under one sequence saved the same checkpoint, also
\* when they ran at once or in different runs of the process
\* (compare_and_advance).
OneCheckpointPerSequence ==
  \A c, e \in returned : c.sequence = e.sequence => c = e

\* The life a run descends from: the one that saved what its start accepted, or itself.
Origin == IF restored = None THEN life ELSE restored.generation

\* A life after g, and not after the last, began without a checkpoint.
Forgotten(g, last) == \E h \in blind : g < h /\ h <= last

\* Once a start has accepted a checkpoint in UNKNOWN_PHYSICAL_STATE, that run and every later
\* one stays there: whatever they save, in whichever order their saves overlap, fail or are
\* retried, and whichever earlier file is put back.  Only a start that gets no checkpoint
\* forgets it, and then only that run and what descends from its saves (restore,
\* restore_from_store, load, and the latch of require_revalidation).
UnknownOutlivesRestarts ==
  running /\ state # UNKNOWN => \A g \in held : Forgotten(g, Origin)

\* After a restart from a checkpoint automation stands on evidence captured strictly after it, as
\* src/tests/test_protection_supervisor_checkpoint.py:23 says
\* (test_restart_boundary_requires_strictly_newer_evidence).
ActiveIsNewerThanRestart ==
  restored # None /\ state = ACTIVE => Exceeds(lastObservedMonotonic, restartedAt)

=============================================================================
