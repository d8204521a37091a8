----------------------- MODULE SupervisorCheckpointProofs -----------------------
(***************************************************************************)
(* Theorems about SupervisorCheckpoint, for any number of savers and any   *)
(* bounds on clock, sequences and restarts.                                *)
(*                                                                         *)
(* The argument is about Admitted: the checkpoints the witness has let     *)
(* pass, in the file, returned, or on their way there in some saver.  The  *)
(* witness is at the newest of them, and they differ in their sequences;   *)
(* so a file that equals the witness is at least as new as all that was    *)
(* ever returned.  What a saver still carries belongs to this run of the   *)
(* process, because the others ended with theirs.                          *)
(*                                                                         *)
(* What a start was told of an unknown physical state is inherited by way  *)
(* of the saves: a checkpoint that does not say so was saved by a run that *)
(* forgot it (Remembers), and the witness is at no checkpoint from before  *)
(* (WitnessHolds).                                                         *)
(***************************************************************************)
EXTENDS SupervisorCheckpoint, TLAPS

\* The checkpoints that passed the witness.
Admitted ==
  written \cup returned \cup {jobs[s].checkpoint : s \in {r \in Savers : jobs[r].step = "write"}}

\* The witness is at the newest of them, and no other has its sequence.
WitnessLeads ==
  \A c \in Admitted : Recorded /\ (c = witness \/ c.sequence < witness.sequence)

SequencesDiffer == \A c, e \in Admitted : c.sequence = e.sequence => c = e

\* Savers carry checkpoints of this run.
JobsOfThisLife == \A s \in Savers : jobs[s].step # "idle" => jobs[s].checkpoint.generation = life

StoreInv ==
  /\ CheckpointTypeOK
  /\ WitnessLeads /\ SequencesDiffer /\ JobsOfThisLife
  /\ RestoredIsNewest

\* The lives that have begun, those that saved, and the present one.
LivesInOrder ==
  /\ \A g \in held \cup blind : g < life \/ (g = life /\ running)
  /\ Recorded => witness.generation < life \/ (witness.generation = life /\ running)
  /\ restored # None => restored.generation < life
  /\ ~running => \A s \in Savers : jobs[s].step = "idle"

\* A checkpoint that is not in UNKNOWN was saved by a life that forgot what was held before.
Remembers(c) ==
  c.state # UNKNOWN => \A g \in held : g <= c.generation => Forgotten(g, c.generation)

SavesRemember ==
  /\ Recorded => Remembers(witness)
  /\ \A s \in Savers : jobs[s].step # "idle" => Remembers(jobs[s].checkpoint)

\* The witness is at the checkpoint a life was held by, or at one of that life or a later one.
WitnessHolds ==
  \A g \in held : Recorded /\ (witness.state = UNKNOWN \/ g <= witness.generation)

\* The latch of require_revalidation stands for what was held and is not forgotten.
LatchStands ==
  /\ physicalStateUnresolved => state = UNKNOWN
  /\ running /\ ~physicalStateUnresolved => \A g \in held : Forgotten(g, Origin)

LineageInv == LivesInOrder /\ SavesRemember /\ WitnessHolds /\ LatchStands

-----------------------------------------------------------------------------
(* Types *)

LEMMA CheckpointType ==
  ASSUME NEW c \in Checkpoints
  PROVE  /\ c # NoCheckpoint /\ c.sequence \in Nat
         /\ c.state \in ProtectionStates /\ c.observedAt \in 0 .. MaxClock
BY NoCheckpointAssumption, CheckpointBounds DEF Checkpoints

LEMMA JobType ==
  ASSUME NEW j \in Jobs
  PROVE  /\ j.step \in {"idle", "advance", "write", "failed"}
         /\ j.step # "idle" =>
              /\ j.checkpoint \in Checkpoints
              /\ \A step \in {"advance", "write", "failed"} :
                   [j EXCEPT !.step = step] = [step |-> step, checkpoint |-> j.checkpoint]
BY DEF Jobs, Idle

\* A checkpoint is replaced in a saver by no other, only its step changes.
LEMMA JobStep ==
  ASSUME CheckpointTypeOK, NEW s \in Savers, jobs[s].step # "idle",
         NEW step \in {"advance", "write", "failed"}, jobs' = [jobs EXCEPT ![s].step = step]
  PROVE  /\ jobs' \in [Savers -> Jobs]
         /\ jobs'[s].step = step /\ jobs'[s].checkpoint = jobs[s].checkpoint
         /\ \A r \in Savers \ {s} : jobs'[r] = jobs[r]
<1>1. jobs[s] \in Jobs /\ jobs \in [Savers -> Jobs]
  BY DEF CheckpointTypeOK
<1>2. /\ jobs[s].checkpoint \in Checkpoints
      /\ [jobs[s] EXCEPT !.step = step] = [step |-> step, checkpoint |-> jobs[s].checkpoint]
  BY <1>1, JobType
<1>3. [step |-> step, checkpoint |-> jobs[s].checkpoint] \in Jobs
  BY <1>2 DEF Jobs
<1>4. jobs' = [jobs EXCEPT ![s] = [step |-> step, checkpoint |-> jobs[s].checkpoint]]
  BY <1>1, <1>2
<1> QED BY <1>1, <1>3, <1>4

\* What validate makes of the evidence of an instant.
LEMMA UseType ==
  ASSUME CheckpointTypeOK, Use
  PROVE  /\ state' \in ProtectionStates
         /\ lastObservedAt' \in 0 .. MaxClock \cup {NoTime}
         /\ physicalStateUnresolved' \in BOOLEAN
         /\ UNCHANGED restored
         /\ physicalStateUnresolved => physicalStateUnresolved'
         /\ (physicalStateUnresolved => state = UNKNOWN)
              => (physicalStateUnresolved' => state' = UNKNOWN)
<1> USE DEF ProtectionStates, ACTIVE, DEGRADED, PAUSED, RECOVERY, UNKNOWN, observation, unresolved,
            interruption, boundary
<1>0. UNCHANGED restored
  BY DEF Use, restartVars
<1>1. CASE Interrupted(At(clock))
  <2>1. CASE InterruptKnown(At(clock))
    BY <1>0, <2>1 DEF InterruptKnown, Unresolved, CheckpointTypeOK
  <2>2. ASSUME NEW S, InterruptUnknown(At(clock), S)
        PROVE  /\ state' = UNKNOWN
               /\ UNCHANGED observation
               /\ physicalStateUnresolved' = (physicalStateUnresolved \/ S = {})
    BY <2>2 DEF InterruptUnknown
  <2>3. InterruptKnown(At(clock)) \/ \E S : InterruptUnknown(At(clock), S)
    BY <1>1 DEF Interrupted
  <2>4. ASSUME NEW S, InterruptUnknown(At(clock), S)
        PROVE  /\ physicalStateUnresolved' \in BOOLEAN
               /\ physicalStateUnresolved => physicalStateUnresolved'
    BY <2>2, <2>4
  <2>5. ASSUME NEW S, InterruptUnknown(At(clock), S)
        PROVE  lastObservedAt' \in 0 .. MaxClock \cup {NoTime}
    BY <2>2, <2>5 DEF CheckpointTypeOK
  <2> QED BY <1>0, <2>1, <2>2, <2>3, <2>4, <2>5
<1>2. CASE \E report \in Reports, captured \in booted .. clock :
             Validate(report, At(captured), At(clock))
  <2>1. PICK report \in Reports, captured \in booted .. clock :
               Validate(report, At(captured), At(clock))
    BY <1>2
  <2> DEFINE observed == CaptureTime(At(captured), At(clock))
  <2>2. captured \in 0 .. MaxClock /\ observed.wall = captured
    BY CheckpointBounds DEF CheckpointTypeOK, CaptureTime, At
  <2> HIDE DEF observed
  <2>3. UNCHANGED unresolved
    BY <2>1 DEF Validate
  <2>4. \/ ValidateUnresolved
        \/ ValidateRegressed(observed)
        \/ ValidateDenied(report, observed, At(clock))
        \/ ValidateFuture(report, observed, At(clock))
        \/ ValidateStale(report, observed, At(clock))
        \/ ValidateSuperseded(report, observed, At(clock))
        \/ ValidateActive(report, observed, At(clock))
    BY <2>1 DEF Validate, observed
  <2>5. Observe(observed, At(clock)) => lastObservedAt' \in 0 .. MaxClock \cup {NoTime}
    BY <2>2 DEF Observe, CheckpointTypeOK
  <2>6. DeniedState(report) \in ProtectionStates
    BY CheckpointBounds DEF DeniedState, Findings
  <2>7. lastObservedAt' \in 0 .. MaxClock \cup {NoTime}
    BY <2>4, <2>5 DEF ValidateUnresolved, ValidateRegressed, ValidateDenied, ValidateFuture,
         ValidateStale, ValidateSuperseded, ValidateActive, CheckpointTypeOK
  <2>8. state' \in ProtectionStates
    BY <2>4, <2>6 DEF ValidateUnresolved, ValidateRegressed, ValidateDenied, ValidateFuture,
         ValidateStale, ValidateSuperseded, ValidateActive
  <2>9. physicalStateUnresolved => state' = UNKNOWN
    BY <2>4 DEF ValidateUnresolved, ValidateRegressed, ValidateDenied, ValidateFuture,
         ValidateStale, ValidateSuperseded, ValidateActive, Accepted, Timely, Unresolved
  <2>10. physicalStateUnresolved' = physicalStateUnresolved /\ physicalStateUnresolved \in BOOLEAN
    BY <2>3 DEF CheckpointTypeOK
  <2> QED BY <1>0, <2>7, <2>8, <2>9, <2>10
<1>3. CASE Status(At(clock).wall, At(clock).mono)
  BY <1>0, <1>3 DEF Status, StatusUnchanged, StatusClockFault, StatusAgedOut, Standing,
       CheckpointTypeOK
<1> QED BY <1>1, <1>2, <1>3 DEF Use

-----------------------------------------------------------------------------
(* The store *)

LEMMA StoreInvInit == CheckpointInit => StoreInv
<1> SUFFICES ASSUME CheckpointInit PROVE StoreInv
  OBVIOUS
<1>1. jobs \in [Savers -> Jobs] /\ \A s \in Savers : jobs[s].step = "idle"
  BY DEF CheckpointInit, Jobs, Idle
<1>2. CheckpointTypeOK
  <2>1. clock \in 0 .. MaxClock /\ booted \in 0 .. clock /\ life \in 0 .. MaxRestarts
    BY CheckpointBounds DEF CheckpointInit
  <2>2. /\ state = PAUSED /\ lastObservedAt = NoTime /\ physicalStateUnresolved = FALSE
        /\ running = FALSE /\ file = NoCheckpoint /\ written = {} /\ witness = NoCheckpoint
        /\ returned = {} /\ restored = None /\ restartedAt = NoTime
        /\ held = {} /\ blind = {}
    BY DEF CheckpointInit, SupervisorInit
  <2>3. state \in ProtectionStates
    BY <2>2 DEF ProtectionStates, PAUSED
  <2> QED BY <1>1, <2>1, <2>2, <2>3 DEF CheckpointTypeOK
<1>3. Admitted = {}
  BY <1>1 DEF CheckpointInit, Admitted
<1> QED BY <1>1, <1>2, <1>3
        DEF CheckpointInit, StoreInv, WitnessLeads, SequencesDiffer, JobsOfThisLife, RestoredIsNewest

\* What the steps that leave the store alone keep.
LEMMA SameStore ==
  ASSUME StoreInv, UNCHANGED <<written, witness, returned>>, UNCHANGED <<restored, life>>,
         jobs' \in [Savers -> Jobs],
         \A s \in Savers : jobs'[s].step = "write" => jobs'[s] = jobs[s],
         \A s \in Savers : jobs'[s].step # "idle" => jobs'[s].checkpoint.generation = life
  PROVE  WitnessLeads' /\ SequencesDiffer' /\ JobsOfThisLife' /\ RestoredIsNewest'
<1>1. Admitted' \subseteq Admitted
  BY DEF Admitted
<1> QED BY <1>1 DEF StoreInv, WitnessLeads, SequencesDiffer, JobsOfThisLife, RestoredIsNewest, Recorded

LEMMA SaveKeeps == ASSUME StoreInv, NEW s \in Savers, NEW n \in 1 .. MaxSequence, Save(s, n) PROVE StoreInv'
<1> USE DEF StoreInv, CheckpointTypeOK
<1>1. Present(n) \in Checkpoints /\ Present(n).generation = life
  BY DEF Present, Checkpoints, Save
<1>2. jobs' = [jobs EXCEPT ![s] = [step |-> "advance", checkpoint |-> Present(n)]]
  BY DEF Save
<1>3. [step |-> "advance", checkpoint |-> Present(n)] \in Jobs
  BY <1>1 DEF Jobs
<1>4. jobs' \in [Savers -> Jobs]
  BY <1>2, <1>3
<1>5. /\ \A r \in Savers : jobs'[r].step = "write" => jobs'[r] = jobs[r]
      /\ \A r \in Savers : jobs'[r].step # "idle" => jobs'[r].checkpoint.generation = life
  BY <1>1, <1>2 DEF JobsOfThisLife
<1>6. UNCHANGED <<supervisorVars, clock, file, written, witness, returned, restartVars>>
  BY DEF Save
<1>7. CheckpointTypeOK'
  BY <1>4, <1>6 DEF supervisorVars, observation, unresolved, restartVars, startVars
<1> QED BY <1>4, <1>5, <1>6, <1>7, SameStore DEF restartVars

LEMMA RetryKeeps == ASSUME StoreInv, NEW s \in Savers, Retry(s) PROVE StoreInv'
<1> USE DEF StoreInv, CheckpointTypeOK
<1>1. /\ jobs[s].step = "failed" /\ jobs' = [jobs EXCEPT ![s].step = "advance"]
      /\ UNCHANGED <<supervisorVars, clock, file, written, witness, returned, restartVars>>
  BY DEF Retry
<1>2. /\ jobs' \in [Savers -> Jobs]
      /\ jobs'[s].step = "advance" /\ jobs'[s].checkpoint = jobs[s].checkpoint
      /\ \A r \in Savers \ {s} : jobs'[r] = jobs[r]
  BY <1>1, JobStep
<1>3. CheckpointTypeOK'
  BY <1>1, <1>2 DEF supervisorVars, observation, unresolved, restartVars, startVars
<1> QED BY <1>1, <1>2, <1>3, SameStore DEF restartVars, JobsOfThisLife

LEMMA AdvanceKeeps == ASSUME StoreInv, NEW s \in Savers, Advance(s) PROVE StoreInv'
<1> USE DEF StoreInv, CheckpointTypeOK
<1> DEFINE c == jobs[s].checkpoint
<1>1. /\ jobs[s].step = "advance"
      /\ UNCHANGED <<supervisorVars, clock, file, written, returned, restartVars>>
      /\ \/ Advanceable(c) /\ witness' = c
         \/ UNCHANGED witness /\ jobs' = [jobs EXCEPT ![s].step = "failed"]
  BY DEF Advance
<1>2. PICK step \in {"write", "failed"} : jobs' = [jobs EXCEPT ![s].step = step]
  BY DEF Advance
<1>3. /\ jobs' \in [Savers -> Jobs]
      /\ jobs'[s].step = step /\ jobs'[s].checkpoint = c
      /\ \A r \in Savers \ {s} : jobs'[r] = jobs[r]
  BY <1>1, <1>2, JobStep
<1>4. c \in Checkpoints /\ c # NoCheckpoint /\ c.sequence \in Nat
  BY <1>1, JobType, CheckpointType
<1>5. CheckpointTypeOK'
  BY <1>1, <1>3, <1>4 DEF supervisorVars, observation, unresolved, restartVars, startVars
<1>6. JobsOfThisLife' /\ RestoredIsNewest'
  BY <1>1, <1>3 DEF restartVars, JobsOfThisLife, RestoredIsNewest
<1>7. Admitted' \subseteq Admitted \cup {c}
  BY <1>1, <1>3 DEF Admitted
<1>8. Admitted \subseteq Checkpoints
  <2>1. \A r \in Savers : jobs[r].step = "write" => jobs[r].checkpoint \in Checkpoints
    BY JobType
  <2> QED BY <2>1 DEF Admitted
<1>9. CASE Advanceable(c) /\ witness' = c
  <2>1. Recorded'
    BY <1>4, <1>9 DEF Recorded
  <2>2. \A e \in Admitted : e = c \/ e.sequence < c.sequence
    <3>1. CASE Recorded
      <4>1. witness \in Checkpoints /\ witness.sequence \in Nat
        BY <3>1, CheckpointType DEF Recorded
      <4>2. c = witness \/ c.sequence = witness.sequence + 1
        BY <1>9, <3>1 DEF Advanceable
      <4>3. \A e \in Admitted : e.sequence \in Nat
        BY <1>8, CheckpointType
      <4> QED BY <4>1, <4>2, <4>3 DEF WitnessLeads
    <3>2. CASE ~Recorded
      BY <3>2 DEF WitnessLeads
    <3> QED BY <3>1, <3>2
  <2>3. WitnessLeads'
    BY <1>7, <1>9, <2>1, <2>2 DEF WitnessLeads
  <2>4. \A e \in Admitted : e.sequence = c.sequence => e = c
    BY <1>4, <1>8, <2>2, CheckpointType
  <2>5. SequencesDiffer'
    BY <1>7, <2>4 DEF SequencesDiffer
  <2> QED BY <1>5, <1>6, <2>3, <2>5
<1>10. CASE UNCHANGED witness /\ jobs' = [jobs EXCEPT ![s].step = "failed"]
  <2>1. jobs'[s].step = "failed"
    BY <1>1, <1>10, JobStep
  <2> QED BY <1>1, <1>3, <1>5, <1>10, <2>1, SameStore DEF restartVars, JobsOfThisLife
<1> QED BY <1>1, <1>9, <1>10

LEMMA WriteKeeps == ASSUME StoreInv, NEW s \in Savers, Write(s) PROVE StoreInv'
<1> USE DEF StoreInv, CheckpointTypeOK
<1> DEFINE c == jobs[s].checkpoint
<1>1. /\ jobs[s].step = "write"
      /\ UNCHANGED <<supervisorVars, clock, witness, restartVars>>
      /\ file' \in {file, c}
      /\ written' \in {written, written \cup {c}}
      /\ returned' \in {returned, returned \cup {c}}
      /\ returned' # returned => written' = written \cup {c}
      /\ jobs' = [jobs EXCEPT ![s] = Idle] \/ jobs' = [jobs EXCEPT ![s].step = "failed"]
  BY DEF Write
<1>2. c \in Checkpoints /\ c \in Admitted /\ c.generation = life
  BY <1>1, JobType DEF Admitted, JobsOfThisLife
<1>3. /\ jobs' \in [Savers -> Jobs]
      /\ jobs'[s].step = "idle" \/ (jobs'[s].step = "failed" /\ jobs'[s].checkpoint = c)
      /\ \A r \in Savers \ {s} : jobs'[r] = jobs[r]
  <2>1. CASE jobs' = [jobs EXCEPT ![s] = Idle]
    BY <2>1 DEF Idle, Jobs
  <2>2. CASE jobs' = [jobs EXCEPT ![s].step = "failed"]
    BY <1>1, <2>2, JobStep
  <2> QED BY <1>1, <2>1, <2>2
<1>4. CheckpointTypeOK'
  BY <1>1, <1>2, <1>3 DEF supervisorVars, observation, unresolved, restartVars, startVars
<1>5. Admitted' \subseteq Admitted
  BY <1>1, <1>2, <1>3 DEF Admitted
<1>6. WitnessLeads' /\ SequencesDiffer'
  BY <1>1, <1>5 DEF WitnessLeads, SequencesDiffer, Recorded
<1>7. JobsOfThisLife'
  BY <1>1, <1>2, <1>3 DEF restartVars, JobsOfThisLife
<1>8. RestoredIsNewest'
  BY <1>1, <1>2 DEF restartVars, RestoredIsNewest
<1> QED BY <1>4, <1>6, <1>7, <1>8

LEMMA StopKeeps == ASSUME StoreInv, Stop PROVE StoreInv'
<1> USE DEF StoreInv, CheckpointTypeOK
<1>1. jobs' \in [Savers -> Jobs] /\ \A s \in Savers : jobs'[s].step = "idle"
  BY DEF Stop, Jobs, Idle
<1>2. CheckpointTypeOK'
  <2>1. /\ booted' \in 0 .. clock /\ clock' = clock /\ life' \in 0 .. MaxRestarts
        /\ UNCHANGED <<file, written, witness, returned, held, blind>>
    BY CheckpointBounds DEF Stop, startVars
  <2>2. /\ running' = FALSE /\ restored' = None /\ restartedAt' = NoTime
        /\ state' = PAUSED /\ lastObservedAt' = NoTime /\ physicalStateUnresolved' = FALSE
    BY DEF Stop
  <2> QED BY <1>1, <2>1, <2>2 DEF ProtectionStates, PAUSED
<1>3. Admitted' \subseteq Admitted
  BY <1>1 DEF Admitted, Stop
<1>4. WitnessLeads' /\ SequencesDiffer'
  BY <1>3 DEF WitnessLeads, SequencesDiffer, Recorded, Stop
<1> QED BY <1>1, <1>2, <1>4 DEF JobsOfThisLife, RestoredIsNewest, Stop

\* The file that is accepted is the witness's.
LEMMA RestoreKeeps == ASSUME StoreInv, RestoreAccepted \/ RestoreRefused PROVE StoreInv'
<1> USE DEF StoreInv, CheckpointTypeOK
<1>1. UNCHANGED <<clock, storeVars, booted, life>>
  BY DEF RestoreAccepted, RestoreRefused
<1>2. Admitted' = Admitted
  BY <1>1 DEF Admitted, storeVars
<1>3. WitnessLeads' /\ SequencesDiffer' /\ JobsOfThisLife'
  BY <1>1, <1>2 DEF storeVars, WitnessLeads, SequencesDiffer, JobsOfThisLife, Recorded
<1>4. /\ restartedAt' \in 0 .. MaxClock \cup {NoTime} /\ running' \in BOOLEAN
      /\ held' \subseteq 0 .. MaxRestarts /\ blind' \subseteq 0 .. MaxRestarts
  <2>1. restartedAt' = clock - booted /\ running' = TRUE
    BY DEF RestoreAccepted, RestoreRefused, At
  <2>2. held' \subseteq held \cup {life} /\ blind' \subseteq blind \cup {life}
    BY DEF RestoreAccepted, RestoreRefused
  <2> QED BY <2>1, <2>2, CheckpointBounds
<1>5. state' \in ProtectionStates
  BY DEF RestoreAccepted, RestoreRefused, RequireRevalidation, ProtectionStates, UNKNOWN, RECOVERY
<1>6. physicalStateUnresolved' \in BOOLEAN
  BY DEF RestoreAccepted, RestoreRefused, RequireRevalidation
<1>7. CASE RestoreAccepted
  <2>1. file = witness /\ file \in Checkpoints /\ restored' = file /\ lastObservedAt' = file.observedAt
    BY <1>7 DEF RestoreAccepted, Loadable, Readable, RequireRevalidation
  <2>2. lastObservedAt' \in 0 .. MaxClock \cup {NoTime}
    BY <2>1, CheckpointType
  <2>3. CheckpointTypeOK'
    BY <1>1, <1>4, <1>5, <1>6, <2>1, <2>2 DEF storeVars
  <2>4. RestoredIsNewest'
    BY <1>1, <2>1 DEF storeVars, RestoredIsNewest, WitnessLeads, Admitted
  <2> QED BY <1>3, <2>3, <2>4
<1>8. CASE RestoreRefused
  <2>1. restored' = None /\ lastObservedAt' = NoTime
    BY <1>8 DEF RestoreRefused, RequireRevalidation
  <2> QED BY <1>1, <1>3, <1>4, <1>5, <1>6, <2>1 DEF storeVars, RestoredIsNewest
<1> QED BY <1>7, <1>8

LEMMA StoreInvNext == StoreInv /\ [CheckpointNext]_checkpointVars => StoreInv'
<1> SUFFICES ASSUME StoreInv, [CheckpointNext]_checkpointVars PROVE StoreInv'
  OBVIOUS
<1>0. jobs \in [Savers -> Jobs] /\ \A s \in Savers : jobs[s].step # "idle" => jobs[s].checkpoint.generation = life
  BY DEF StoreInv, CheckpointTypeOK, JobsOfThisLife
<1>1. CASE Tick
  <2>1. UNCHANGED <<supervisorVars, storeVars, restartVars>>
    BY <1>1 DEF Tick
  <2>2. CheckpointTypeOK'
    BY <1>1, <2>1, CheckpointBounds
    DEF Tick, StoreInv, CheckpointTypeOK, supervisorVars, observation, unresolved, storeVars, restartVars, startVars
  <2> QED BY <1>0, <2>1, <2>2, SameStore DEF StoreInv, storeVars, restartVars
<1>2. CASE Use
  <2>1. UNCHANGED <<clock, storeVars, restartVars>>
    BY <1>2 DEF Use
  <2>2. CheckpointTypeOK'
    BY <1>2, <2>1, UseType DEF StoreInv, CheckpointTypeOK, storeVars, restartVars, startVars
  <2> QED BY <1>0, <2>1, <2>2, SameStore DEF StoreInv, storeVars, restartVars
<1>3. CASE Meddle
  <2>1. UNCHANGED <<supervisorVars, clock, written, witness, jobs, returned, restartVars>>
    BY <1>3 DEF Meddle
  <2>2. CheckpointTypeOK'
    BY <1>3, <2>1 DEF Meddle, StoreInv, CheckpointTypeOK, supervisorVars, observation, unresolved, restartVars, startVars
  <2> QED BY <1>0, <2>1, <2>2, SameStore DEF StoreInv, restartVars
<1>4. CASE UNCHANGED checkpointVars
  <2>1. CheckpointTypeOK'
    BY <1>4 DEF checkpointVars, StoreInv, CheckpointTypeOK, supervisorVars, observation, unresolved, storeVars, restartVars, startVars
  <2> QED BY <1>0, <1>4, <2>1, SameStore DEF checkpointVars, StoreInv, storeVars, restartVars
<1> QED BY <1>1, <1>2, <1>3, <1>4, StopKeeps, RestoreKeeps, SaveKeeps, RetryKeeps, AdvanceKeeps,
           WriteKeeps DEF CheckpointNext

LEMMA StoreInvariant == CheckpointSpec => []StoreInv
BY StoreInvInit, StoreInvNext, PTL DEF CheckpointSpec

-----------------------------------------------------------------------------
(* What later lives remember *)

LEMMA LineageInit == CheckpointInit => LineageInv
BY DEF CheckpointInit, SupervisorInit, Idle, LineageInv, LivesInOrder, SavesRemember, WitnessHolds,
       LatchStands, Recorded

\* What the steps keep that leave the starts, the witness and the latch alone and let no
\* saver go on with another checkpoint.
LEMMA SameLineage ==
  ASSUME LineageInv, UNCHANGED <<witness, restartVars>>,
         \A s \in Savers : jobs'[s].step # "idle" =>
           \/ jobs[s].step # "idle" /\ jobs'[s].checkpoint = jobs[s].checkpoint
           \/ running /\ Remembers(jobs'[s].checkpoint),
         physicalStateUnresolved => physicalStateUnresolved',
         physicalStateUnresolved' => state' = UNKNOWN
  PROVE  LineageInv'
<1> USE DEF LineageInv, restartVars, startVars
<1>1. \A c : Remembers(c)' = Remembers(c)
  BY DEF Remembers, Forgotten
<1>2. LivesInOrder'
  BY DEF LivesInOrder, Recorded
<1>3. SavesRemember'
  BY <1>1 DEF SavesRemember, Recorded, Remembers, Forgotten
<1>4. WitnessHolds'
  BY DEF WitnessHolds, Recorded
<1>5. LatchStands'
  BY DEF LatchStands, Forgotten, Origin
<1> QED BY <1>2, <1>3, <1>4, <1>5

\* What is saved is remembered as far as the saving life remembers it.
LEMMA PresentRemembers ==
  ASSUME StoreInv, LineageInv, running, NEW n
  PROVE  Remembers(Present(n))
<1> SUFFICES ASSUME state # UNKNOWN, NEW g \in held PROVE Forgotten(g, life)
  BY DEF Remembers, Present
<1>1. PICK h \in blind : g < h /\ h <= Origin
  BY DEF LineageInv, LatchStands, Forgotten
<1>2. Origin <= life /\ Origin \in Nat
  <2>1. restored # None => restored \in Checkpoints
    BY DEF StoreInv, CheckpointTypeOK
  <2> QED BY <2>1, CheckpointBounds DEF Origin, LineageInv, LivesInOrder, StoreInv, CheckpointTypeOK, Checkpoints
<1>3. h \in Nat /\ life \in Nat
  BY CheckpointBounds DEF StoreInv, CheckpointTypeOK
<1> QED BY <1>1, <1>2, <1>3 DEF Forgotten

\* The witness takes a checkpoint of the present life.
LEMMA AdvanceKeepsLineage ==
  ASSUME StoreInv, LineageInv, NEW s \in Savers, Advance(s)
  PROVE  LineageInv'
<1> DEFINE c == jobs[s].checkpoint
<1>1. /\ jobs[s].step = "advance"
      /\ UNCHANGED <<supervisorVars, restartVars>>
      /\ witness' \in {witness, c}
  BY DEF Advance
<1>2. PICK step \in {"write", "failed"} : jobs' = [jobs EXCEPT ![s].step = step]
  BY DEF Advance
<1>3. /\ jobs'[s].checkpoint = c
      /\ \A r \in Savers \ {s} : jobs'[r] = jobs[r]
  BY <1>1, <1>2, JobStep DEF StoreInv
<1>4. \A r \in Savers : jobs'[r].step # "idle" =>
        jobs[r].step # "idle" /\ jobs'[r].checkpoint = jobs[r].checkpoint
  BY <1>1, <1>3
<1>5. /\ UNCHANGED <<physicalStateUnresolved, state>>
      /\ physicalStateUnresolved => state = UNKNOWN
  BY <1>1 DEF supervisorVars, unresolved, LineageInv, LatchStands
<1>6. CASE witness' = witness
  BY <1>1, <1>4, <1>5, <1>6, SameLineage
<1>7. CASE witness' = c
  <2>1. c.generation = life /\ c \in Checkpoints /\ running
    BY <1>1, JobType DEF StoreInv, CheckpointTypeOK, JobsOfThisLife, LineageInv, LivesInOrder
  <2>2. Recorded'
    BY <1>7, <2>1, CheckpointType DEF Recorded
  <2>3. LivesInOrder'
    BY <1>1, <1>7, <2>1 DEF LineageInv, LivesInOrder, restartVars, startVars
  <2>4. \A e : Remembers(e)' = Remembers(e)
    BY <1>1 DEF Remembers, Forgotten, restartVars, startVars
  <2>5. SavesRemember'
    <3>1. Remembers(c)
      BY <1>1 DEF LineageInv, SavesRemember
    <3>2. \A r \in Savers : jobs'[r].step # "idle" => Remembers(jobs'[r].checkpoint)
      BY <1>4 DEF LineageInv, SavesRemember
    <3> QED BY <1>1, <1>7, <3>1, <3>2 DEF SavesRemember, Remembers, Forgotten, restartVars, startVars
  <2>6. WitnessHolds'
    <3>1. \A g \in held : g <= life
      BY <2>1, CheckpointBounds DEF LineageInv, LivesInOrder, StoreInv, CheckpointTypeOK
    <3> QED BY <1>1, <1>7, <2>1, <2>2, <3>1 DEF WitnessHolds, restartVars, startVars
  <2>7. LatchStands'
    BY <1>1, <1>5 DEF LineageInv, LatchStands, Forgotten, Origin, restartVars, startVars
  <2> QED BY <2>3, <2>5, <2>6, <2>7 DEF LineageInv
<1> QED BY <1>1, <1>6, <1>7

LEMMA StopKeepsLineage == ASSUME StoreInv, LineageInv, Stop PROVE LineageInv'
<1>1. /\ life' = life + 1 /\ running' = FALSE /\ restored' = None
      /\ jobs' = [s \in Savers |-> Idle]
      /\ UNCHANGED <<witness, held, blind>>
      /\ physicalStateUnresolved' = FALSE
  BY DEF Stop, startVars
<1>2. /\ life \in Nat /\ held \subseteq Nat /\ blind \subseteq Nat
      /\ Recorded => witness.generation \in Nat
  <2>1. Recorded => witness \in Checkpoints
    BY DEF Recorded, StoreInv, CheckpointTypeOK
  <2> QED BY <2>1, CheckpointBounds DEF StoreInv, CheckpointTypeOK, Checkpoints
<1>3. \A s \in Savers : jobs'[s].step = "idle"
  BY <1>1 DEF Idle
<1>4. LivesInOrder'
  BY <1>1, <1>2, <1>3 DEF LineageInv, LivesInOrder, Recorded
<1>5. SavesRemember'
  BY <1>1, <1>3 DEF LineageInv, SavesRemember, Recorded, Remembers, Forgotten
<1>6. WitnessHolds'
  BY <1>1 DEF LineageInv, WitnessHolds, Recorded
<1>7. LatchStands'
  BY <1>1 DEF LatchStands
<1> QED BY <1>4, <1>5, <1>6, <1>7 DEF LineageInv

\* A start that gets no checkpoint forgets what was held before.
LEMMA RefusedKeepsLineage == ASSUME StoreInv, LineageInv, RestoreRefused PROVE LineageInv'
<1>1. /\ ~running /\ running' = TRUE /\ restored' = None
      /\ blind' = blind \cup {life}
      /\ UNCHANGED <<witness, jobs, life, held>>
      /\ physicalStateUnresolved' => state' = UNKNOWN
  BY DEF RestoreRefused, RequireRevalidation, storeVars
<1>2. life \in Nat /\ \A g \in held : g < life
  BY <1>1, CheckpointBounds DEF LineageInv, LivesInOrder, StoreInv, CheckpointTypeOK
<1>3. LivesInOrder'
  BY <1>1 DEF LineageInv, LivesInOrder, Recorded
<1>4. SavesRemember'
  BY <1>1 DEF LineageInv, SavesRemember, Recorded, Remembers, Forgotten
<1>5. WitnessHolds'
  BY <1>1 DEF LineageInv, WitnessHolds, Recorded
<1>6. LatchStands'
  BY <1>1, <1>2 DEF LatchStands, Forgotten, Origin
<1> QED BY <1>3, <1>4, <1>5, <1>6 DEF LineageInv

\* What a start accepts is the witness's: it remembers what was held, or holds this life.
LEMMA AcceptedKeepsLineage == ASSUME StoreInv, LineageInv, RestoreAccepted PROVE LineageInv'
<1>1. /\ ~running /\ running' = TRUE /\ restored' = witness /\ Recorded
      /\ held' = IF witness.state = UNKNOWN THEN held \cup {life} ELSE held
      /\ UNCHANGED <<witness, jobs, life, blind>>
      /\ physicalStateUnresolved' = (physicalStateUnresolved \/ witness.state = UNKNOWN)
      /\ physicalStateUnresolved' => state' = UNKNOWN
  BY DEF RestoreAccepted, RequireRevalidation, PhysicalStateKnown, Loadable, storeVars
<1>2. /\ witness \in Checkpoints /\ witness # None /\ life \in Nat
      /\ witness.generation \in Nat /\ witness.generation < life
  <2>1. witness \in Checkpoints
    BY <1>1 DEF Recorded, StoreInv, CheckpointTypeOK
  <2> QED BY <1>1, <2>1, NoCheckpointAssumption, CheckpointBounds
          DEF LineageInv, LivesInOrder, StoreInv, CheckpointTypeOK, Checkpoints
<1>3. \A s \in Savers : jobs'[s].step = "idle"
  BY <1>1 DEF LineageInv, LivesInOrder
<1>4. LivesInOrder'
  BY <1>1, <1>2, <1>3 DEF LineageInv, LivesInOrder, Recorded
<1>5. SavesRemember'
  BY <1>1, <1>2, <1>3 DEF LineageInv, SavesRemember, Recorded, Remembers, Forgotten
<1>6. WitnessHolds'
  BY <1>1 DEF LineageInv, WitnessHolds, Recorded
<1>7. LatchStands'
  <2> SUFFICES ASSUME witness.state # UNKNOWN, NEW g \in held
               PROVE  Forgotten(g, witness.generation)
    BY <1>1, <1>2 DEF LatchStands, Forgotten, Origin
  <2> QED BY <1>1 DEF LineageInv, WitnessHolds, SavesRemember, Remembers
<1> QED BY <1>4, <1>5, <1>6, <1>7 DEF LineageInv

LEMMA LineageNext == StoreInv /\ LineageInv /\ [CheckpointNext]_checkpointVars => LineageInv'
<1> SUFFICES ASSUME StoreInv, LineageInv, [CheckpointNext]_checkpointVars PROVE LineageInv'
  OBVIOUS
<1>0. /\ physicalStateUnresolved => state = UNKNOWN
      /\ jobs \in [Savers -> Jobs]
  BY DEF LineageInv, LatchStands, StoreInv, CheckpointTypeOK
<1>1. ASSUME UNCHANGED <<supervisorVars, witness, restartVars, jobs>> PROVE LineageInv'
  BY <1>0, <1>1, SameLineage DEF supervisorVars, unresolved
<1>2. CASE Tick \/ Meddle \/ UNCHANGED checkpointVars
  BY <1>1, <1>2 DEF Tick, Meddle, checkpointVars, storeVars
<1>3. CASE Use
  BY <1>0, <1>3, UseType, SameLineage DEF Use, storeVars, StoreInv
<1>4. ASSUME NEW s \in Savers, NEW n \in 1 .. MaxSequence, Save(s, n) PROVE LineageInv'
  <2>1. /\ running /\ UNCHANGED <<supervisorVars, witness, restartVars>>
        /\ jobs' = [jobs EXCEPT ![s] = [step |-> "advance", checkpoint |-> Present(n)]]
    BY <1>4 DEF Save
  <2>2. Remembers(Present(n))
    BY <2>1, PresentRemembers
  <2>3. \A r \in Savers : jobs'[r].step # "idle" =>
          \/ jobs[r].step # "idle" /\ jobs'[r].checkpoint = jobs[r].checkpoint
          \/ running /\ Remembers(jobs'[r].checkpoint)
    BY <1>0, <2>1, <2>2
  <2> QED BY <1>0, <2>1, <2>3, SameLineage DEF supervisorVars, unresolved
<1>5. ASSUME NEW s \in Savers, Retry(s) \/ Write(s) PROVE LineageInv'
  <2>1. /\ UNCHANGED <<supervisorVars, witness, restartVars>>
        /\ jobs[s].step # "idle"
        /\ \/ jobs' = [jobs EXCEPT ![s] = Idle]
           \/ \E step \in {"advance", "failed"} : jobs' = [jobs EXCEPT ![s].step = step]
    BY <1>5 DEF Retry, Write
  <2>2. \A r \in Savers : jobs'[r].step # "idle" =>
          jobs[r].step # "idle" /\ jobs'[r].checkpoint = jobs[r].checkpoint
    <3>1. CASE jobs' = [jobs EXCEPT ![s] = Idle]
      BY <1>0, <3>1 DEF Idle
    <3>2. ASSUME NEW step \in {"advance", "failed"}, jobs' = [jobs EXCEPT ![s].step = step]
          PROVE  /\ jobs'[s].checkpoint = jobs[s].checkpoint
                 /\ \A r \in Savers \ {s} : jobs'[r] = jobs[r]
      BY <2>1, <3>2, JobStep DEF StoreInv
    <3> QED BY <2>1, <3>1, <3>2
  <2> QED BY <1>0, <2>1, <2>2, SameLineage DEF supervisorVars, unresolved
<1> QED BY <1>2, <1>3, <1>4, <1>5, AdvanceKeepsLineage, StopKeepsLineage, RefusedKeepsLineage,
           AcceptedKeepsLineage DEF CheckpointNext

-----------------------------------------------------------------------------
(* Theorems *)

\* The file, the witness and the savers hold well-formed checkpoints of the supervisor
\* through saves, failures, restarts and restores.
THEOREM CheckpointTypeCorrect == CheckpointSpec => []CheckpointTypeOK
<1>1. StoreInv => CheckpointTypeOK
  BY DEF StoreInv
<1> QED BY StoreInvariant, <1>1, PTL

\* Whichever savers overlap, fail or retry, and whatever is put in the file's place, a start accepts
\* nothing older than what was saved before it.
THEOREM NewestIsRestored == CheckpointSpec => []RestoredIsNewest
<1>1. StoreInv => RestoredIsNewest
  BY DEF StoreInv
<1> QED BY StoreInvariant, <1>1, PTL

\* No sequence is ever returned for two checkpoints.
THEOREM SequenceNamesCheckpoint == CheckpointSpec => []OneCheckpointPerSequence
<1>1. StoreInv => OneCheckpointPerSequence
  BY DEF StoreInv, SequencesDiffer, Admitted, OneCheckpointPerSequence
<1> QED BY StoreInvariant, <1>1, PTL

\* What a start was told of an unknown physical state is remembered by every later run, until one
\* starts without a checkpoint.
THEOREM UnknownIsRemembered == CheckpointSpec => []UnknownOutlivesRestarts
<1>1. LineageInv => UnknownOutlivesRestarts
  BY DEF LineageInv, LatchStands, UnknownOutlivesRestarts
<1> QED BY StoreInvariant, LineageInit, LineageNext, <1>1, PTL DEF CheckpointSpec

=============================================================================
