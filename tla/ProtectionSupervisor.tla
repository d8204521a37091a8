------------------------- MODULE ProtectionSupervisor -------------------------
(***************************************************************************)
(* The protection supervisor of Audio Bodyguard: the lock-protected state  *)
(* machine that decides whether automation is allowed.  Every public       *)
(* method of the class runs under one re-entrant lock, so each is a single *)
(* action here.  Modules that model the supervisor's callers EXTEND this   *)
(* one and conjoin these actions with their own steps.                     *)
(*                                                                         *)
(* Times are readings of the wall clock and of the monotonic clock.  A     *)
(* caller may leave the monotonic reading out, and evidence carries its    *)
(* own pair of capture times: both are stamps [wall, mono] with mono       *)
(* possibly NoTime.  The reason texts of the code are wording and are left *)
(* out.  Arguments that the code rejects for their type raise before any   *)
(* assignment and are not steps.                                           *)
(***************************************************************************)
EXTENDS Integers

CONSTANTS
  Transactions,    \* identifiers of physical transactions
  Stamps,          \* the clock readings callers and evidence may carry
  NoTime,          \* Python's None in the place of a time
  MaxEvidenceAge,  \* constructor argument max_evidence_age
  MaxGeneration    \* bound: activation stops at this admission generation

ASSUME NoTimeAssumption == NoTime \notin Int

ASSUME StampsAssumption == Stamps \subseteq [wall : Int, mono : Int \cup {NoTime}]

ASSUME BoundsAssumption ==
  /\ MaxEvidenceAge \in Nat \ {0}
  /\ MaxGeneration \in Nat

VARIABLES
  state,                        \* ProtectionState
  interruptedAt,                \* _interrupted_at
  interruptedMonotonic,         \* _interrupted_monotonic
  lastObservedAt,               \* _last_observed_at
  lastObservedMonotonic,        \* _last_observed_monotonic
  reactivationAfter,            \* _reactivation_after
  reactivationAfterMonotonic,   \* _reactivation_after_monotonic
  physicalStateUnresolved,      \* _physical_state_unresolved
  unresolvedTransactions,       \* _unresolved_physical_transactions
  admissionGeneration           \* _admission_generation

interruption == <<interruptedAt, interruptedMonotonic>>
observation  == <<lastObservedAt, lastObservedMonotonic>>
boundary     == <<reactivationAfter, reactivationAfterMonotonic>>
unresolved   == <<physicalStateUnresolved, unresolvedTransactions>>

supervisorVars ==
  <<state, interruption, observation, boundary, unresolved, admissionGeneration>>

ACTIVE   == "ACTIVE"
DEGRADED == "DEGRADED"
PAUSED   == "PAUSED"
RECOVERY == "RECOVERY_REQUIRED"
UNKNOWN  == "UNKNOWN_PHYSICAL_STATE"

ProtectionStates == {ACTIVE, DEGRADED, PAUSED, RECOVERY, UNKNOWN}

(***************************************************************************)
(* What a piece of evidence says, reduced to the first prerequisite it     *)
(* fails, in the order in which validate looks at them.                    *)
(***************************************************************************)
Findings ==
  {"ELIGIBLE", "PERMISSION_DENIED", "RUNTIME_INELIGIBLE", "SENSOR_UNAVAILABLE",
   "CONNECTIVITY_UNAVAILABLE", "AUTHORITY_INVALID", "STORAGE_INELIGIBLE",
   "PATH_INELIGIBLE"}

\* The state validate enters for evidence that fails a prerequisite.
DeniedState(finding) ==
  CASE finding \in {"PERMISSION_DENIED", "RUNTIME_INELIGIBLE"} -> PAUSED
    [] finding \in {"AUTHORITY_INVALID", "STORAGE_INELIGIBLE"} -> RECOVERY
    [] OTHER -> DEGRADED

Times == Int \cup {NoTime}

SupervisorTypeOK ==
  /\ state \in ProtectionStates
  /\ interruptedAt \in Times
  /\ interruptedMonotonic \in Times
  /\ lastObservedAt \in Times
  /\ lastObservedMonotonic \in Times
  /\ reactivationAfter \in Times
  /\ reactivationAfterMonotonic \in Times
  /\ physicalStateUnresolved \in BOOLEAN
  /\ unresolvedTransactions \subseteq Transactions
  /\ admissionGeneration \in Nat

SupervisorInit ==
  /\ state = PAUSED
  /\ interruptedAt = NoTime
  /\ interruptedMonotonic = NoTime
  /\ lastObservedAt = NoTime
  /\ lastObservedMonotonic = NoTime
  /\ reactivationAfter = NoTime
  /\ reactivationAfterMonotonic = NoTime
  /\ physicalStateUnresolved = FALSE
  /\ unresolvedTransactions = {}
  /\ admissionGeneration = 0

-----------------------------------------------------------------------------
(* Helpers *)

\* Faulty variant: automation that lapses with age keeps its generation.
SerializedUnlessDegraded ==
  admissionGeneration' =
    IF state = ACTIVE /\ state' \notin {ACTIVE, DEGRADED}
      THEN admissionGeneration + 1
      ELSE admissionGeneration

\* The wrapper around every method: a call that leaves ACTIVE advances the
\* generation, so that a commit admitted earlier can tell.
Serialized ==
  admissionGeneration' =
    IF state = ACTIVE /\ state' # ACTIVE
      THEN admissionGeneration + 1
      ELSE admissionGeneration

\* Some physical effect has no known outcome.
Unresolved == physicalStateUnresolved \/ unresolvedTransactions # {}

\* A time is present and later than another.
Exceeds(time, limit) == time # NoTime /\ limit # NoTime /\ time > limit

\* Evidence is not strictly newer than a mark.  The monotonic mark decides when
\* there is one, the wall mark otherwise.
NotAfter(observed, wallMark, monoMark) ==
  IF monoMark # NoTime
    THEN ~Exceeds(observed.mono, monoMark)
    ELSE wallMark # NoTime /\ observed.wall <= wallMark

\* Faulty variant: the same evidence judged again counts as older.
RegressedOrEqual(observed) ==
  IF lastObservedMonotonic # NoTime /\ observed.mono # NoTime
    THEN observed.mono <= lastObservedMonotonic
    ELSE lastObservedAt # NoTime /\ observed.wall <= lastObservedAt

\* Evidence is older than the evidence accepted last.
Regressed(observed) ==
  IF lastObservedMonotonic # NoTime /\ observed.mono # NoTime
    THEN observed.mono < lastObservedMonotonic
    ELSE lastObservedAt # NoTime /\ observed.wall < lastObservedAt

\* Evidence without a monotonic capture time counts as captured now.
CaptureTime(observed, now) ==
  IF observed.mono = NoTime THEN [observed EXCEPT !.mono = now.mono] ELSE observed

Stale(observed, now) ==
  \/ /\ observed.mono # NoTime /\ now.mono # NoTime
     /\ now.mono - observed.mono > MaxEvidenceAge
  \/ now.wall - observed.wall > MaxEvidenceAge

-----------------------------------------------------------------------------
(* The methods *)

\* interrupt raises: the new interruption precedes the recorded one.
InterruptRaises(now) ==
  IF now.mono # NoTime
    THEN interruptedMonotonic # NoTime /\ now.mono < interruptedMonotonic
    ELSE interruptedAt # NoTime /\ now.wall < interruptedAt

\* Faulty variant: a known interruption forgets what is unresolved.
InterruptKnownOverUnresolved(now) ==
  /\ ~InterruptRaises(now)
  /\ interruptedMonotonic' = IF now.mono # NoTime THEN now.mono ELSE interruptedMonotonic
  /\ interruptedAt' = now.wall
  /\ state' = PAUSED
  /\ Serialized
  /\ UNCHANGED <<observation, boundary, unresolved>>

\* interrupt with a known physical state.
InterruptKnown(now) ==
  /\ ~InterruptRaises(now)
  /\ interruptedMonotonic' = IF now.mono # NoTime THEN now.mono ELSE interruptedMonotonic
  /\ interruptedAt' = now.wall
  /\ state' = IF Unresolved THEN UNKNOWN ELSE PAUSED
  /\ Serialized
  /\ UNCHANGED <<observation, boundary, unresolved>>

\* interrupt because a physical effect is unobserved: the transactions that
\* caused it are remembered, or the permanent latch is set when none is named.
InterruptUnknown(now, transactions) ==
  /\ ~InterruptRaises(now)
  /\ interruptedMonotonic' = IF now.mono # NoTime THEN now.mono ELSE interruptedMonotonic
  /\ interruptedAt' = now.wall
  /\ physicalStateUnresolved' = (physicalStateUnresolved \/ transactions = {})
  /\ unresolvedTransactions' = unresolvedTransactions \cup transactions
  /\ state' = UNKNOWN
  /\ Serialized
  /\ UNCHANGED <<observation, boundary>>

\* require_revalidation: the restorer of a checkpoint replaces the evidence
\* baseline and demands evidence captured after the restart.
RequireRevalidation(observedAt, now, known) ==
  /\ lastObservedAt' = observedAt
  /\ lastObservedMonotonic' = NoTime
  /\ reactivationAfter' = now.wall
  /\ reactivationAfterMonotonic' = now.mono
  /\ physicalStateUnresolved' = (physicalStateUnresolved \/ ~known)
  /\ state' = IF physicalStateUnresolved' \/ unresolvedTransactions # {}
                THEN UNKNOWN
                ELSE RECOVERY
  /\ Serialized
  /\ UNCHANGED <<interruption, unresolvedTransactions>>

\* resolve_physical_transaction of a transaction that is not outstanding.
ResolveStranger(t) ==
  /\ t \notin unresolvedTransactions
  /\ state' = UNKNOWN
  /\ Serialized
  /\ UNCHANGED <<interruption, observation, boundary, unresolved>>

\* resolve_physical_transaction of an outstanding transaction.
ResolveOutstanding(t, now) ==
  /\ t \in unresolvedTransactions
  /\ unresolvedTransactions' = unresolvedTransactions \ {t}
  /\ IF physicalStateUnresolved \/ unresolvedTransactions' # {}
       THEN /\ state' = UNKNOWN
            /\ UNCHANGED boundary
       ELSE /\ state' = PAUSED
            /\ reactivationAfter' = now.wall
            /\ reactivationAfterMonotonic' = now.mono
  /\ Serialized
  /\ UNCHANGED <<interruption, observation, physicalStateUnresolved>>

\* resolve_physical_transaction
ResolvePhysicalTransaction(t, now) ==
  ResolveStranger(t) \/ ResolveOutstanding(t, now)

-----------------------------------------------------------------------------
(* validate *)

FutureWall(observed, now) == observed.wall > now.wall

FutureMonotonic(observed, now) == Exceeds(observed.mono, now.mono)

\* The evidence becomes the ordering baseline, unless it claims to be from the
\* future.
Observe(observed, now) ==
  /\ lastObservedAt' = IF FutureWall(observed, now) THEN lastObservedAt ELSE observed.wall
  /\ lastObservedMonotonic' =
       IF FutureWall(observed, now) \/ FutureMonotonic(observed, now)
         THEN lastObservedMonotonic
         ELSE observed.mono

\* Only evidence newer than the evidence judged now may reactivate.
RaiseBoundary(observed, now) ==
  /\ reactivationAfter' = IF FutureWall(observed, now) THEN now.wall ELSE observed.wall
  /\ reactivationAfterMonotonic' =
       IF FutureMonotonic(observed, now) THEN NoTime ELSE observed.mono

\* An outstanding physical effect overrides all evidence.
ValidateUnresolved ==
  /\ Unresolved
  /\ state' = UNKNOWN
  /\ UNCHANGED <<observation, boundary>>

\* NON_MONOTONIC_EVIDENCE
ValidateRegressed(observed) ==
  /\ ~Unresolved /\ Regressed(observed)
  /\ state' = UNKNOWN
  /\ UNCHANGED <<observation, boundary>>

\* Evidence that validate goes on to judge.
Accepted(observed) == ~Unresolved /\ ~Regressed(observed)

\* A prerequisite is missing.
ValidateDenied(finding, observed, now) ==
  /\ Accepted(observed)
  /\ finding # "ELIGIBLE"
  /\ state' = DeniedState(finding)
  /\ Observe(observed, now)
  /\ RaiseBoundary(observed, now)

\* FUTURE_EVIDENCE, FUTURE_MONOTONIC_EVIDENCE
ValidateFuture(finding, observed, now) ==
  /\ Accepted(observed)
  /\ finding = "ELIGIBLE"
  /\ FutureWall(observed, now) \/ FutureMonotonic(observed, now)
  /\ state' = UNKNOWN
  /\ Observe(observed, now)
  /\ UNCHANGED boundary

\* Evidence of the present or past whose prerequisites all hold.
Timely(finding, observed, now) ==
  /\ Accepted(observed)
  /\ finding = "ELIGIBLE"
  /\ ~FutureWall(observed, now) /\ ~FutureMonotonic(observed, now)

\* STALE_EVIDENCE
ValidateStale(finding, observed, now) ==
  /\ Timely(finding, observed, now)
  /\ Stale(observed, now)
  /\ state' = DEGRADED
  /\ Observe(observed, now)
  /\ RaiseBoundary(observed, now)

\* Faulty variant: only earlier judgements count, not interruptions.
SupersededByJudgement(observed) ==
  NotAfter(observed, reactivationAfter, reactivationAfterMonotonic)

\* The evidence was captured before the interruption or the judgement that
\* withdrew automation.
Superseded(observed) ==
  \/ NotAfter(observed, interruptedAt, interruptedMonotonic)
  \/ NotAfter(observed, reactivationAfter, reactivationAfterMonotonic)

\* FRESH_VALIDATION_REQUIRED
ValidateSuperseded(finding, observed, now) ==
  /\ Timely(finding, observed, now)
  /\ ~Stale(observed, now)
  /\ Superseded(observed)
  /\ state' = PAUSED
  /\ Observe(observed, now)
  /\ UNCHANGED boundary

\* VALIDATED
ValidateActive(finding, observed, now) ==
  /\ Timely(finding, observed, now)
  /\ ~Stale(observed, now)
  /\ ~Superseded(observed)
  /\ admissionGeneration < MaxGeneration   \* bound
  /\ state' = ACTIVE
  /\ Observe(observed, now)
  /\ reactivationAfter' = NoTime
  /\ reactivationAfterMonotonic' = NoTime

Validate(finding, evidence, now) ==
  LET observed == CaptureTime(evidence, now) IN
  /\ \/ ValidateUnresolved
     \/ ValidateRegressed(observed)
     \/ ValidateDenied(finding, observed, now)
     \/ ValidateFuture(finding, observed, now)
     \/ ValidateStale(finding, observed, now)
     \/ ValidateSuperseded(finding, observed, now)
     \/ ValidateActive(finding, observed, now)
  /\ Serialized
  /\ UNCHANGED <<interruption, unresolved>>

-----------------------------------------------------------------------------
(* status and require_automation *)

\* The clocks contradict the evidence ACTIVE stands on.
ClockFault(wall, mono) ==
  IF mono # NoTime
    THEN lastObservedMonotonic # NoTime => mono < lastObservedMonotonic
    ELSE Exceeds(lastObservedAt, wall)

\* The evidence ACTIVE stands on has aged out.
AgedOut(wall, mono) ==
  IF mono # NoTime
    THEN mono - lastObservedMonotonic > MaxEvidenceAge
    ELSE wall # NoTime /\ wall - lastObservedAt > MaxEvidenceAge

\* There is permission to re-examine.
Standing == state = ACTIVE /\ lastObservedAt # NoTime

StatusUnchanged(wall, mono) ==
  /\ IF Standing THEN ~ClockFault(wall, mono) /\ ~AgedOut(wall, mono) ELSE TRUE
  /\ UNCHANGED <<state, boundary>>

StatusClockFault(wall, mono) ==
  /\ Standing
  /\ ClockFault(wall, mono)
  /\ state' = UNKNOWN
  /\ UNCHANGED boundary

StatusAgedOut(wall, mono) ==
  /\ Standing
  /\ ~ClockFault(wall, mono) /\ AgedOut(wall, mono)
  /\ state' = DEGRADED
  /\ reactivationAfter' = lastObservedAt
  /\ reactivationAfterMonotonic' = lastObservedMonotonic

\* status; either clock reading may be left out.
Status(wall, mono) ==
  /\ \/ StatusUnchanged(wall, mono)
     \/ StatusClockFault(wall, mono)
     \/ StatusAgedOut(wall, mono)
  /\ Serialized
  /\ UNCHANGED <<interruption, observation, unresolved>>

\* require_automation returns when the re-examined state still is ACTIVE and
\* raises otherwise.
RequireAutomation(now, granted) ==
  /\ Status(now.wall, now.mono)
  /\ granted = (state' = ACTIVE)

-----------------------------------------------------------------------------
(* The supervisor under callers that call any method at any time. *)

\* The wall times a checkpoint may carry for its last observation.
WallTimes == {s.wall : s \in Stamps} \cup {NoTime}

Interrupted(now) ==
  \/ InterruptKnown(now)
  \/ InterruptUnknown(now, {})
  \/ \E t \in Transactions : InterruptUnknown(now, {t})

Next ==
  \E now \in Stamps :
    \/ Interrupted(now)
    \/ \E known \in BOOLEAN, observedAt \in WallTimes : RequireRevalidation(observedAt, now, known)
    \/ \E t \in Transactions : ResolvePhysicalTransaction(t, now)
    \/ \E finding \in Findings, evidence \in Stamps : Validate(finding, evidence, now)
    \/ Status(now.wall, now.mono)
    \/ Status(NoTime, now.mono)

Spec == SupervisorInit /\ [][Next]_supervisorVars

-----------------------------------------------------------------------------
(* Properties *)

\* A physical effect without a known outcome shows as UNKNOWN_PHYSICAL_STATE, and
\* as nothing better, whatever evidence, interruption, restore or status query
\* comes in between (the latch and the transaction set of interrupt, validate,
\* require_revalidation and resolve_physical_transaction).
UnresolvedIsUnknown == Unresolved => state = UNKNOWN

\* While automation is allowed, the evidence it stands on was captured strictly
\* after the last interruption: on the monotonic clock when an interruption ever
\* carried a monotonic reading, on the wall clock otherwise.
ActiveOutlivesInterruption ==
  state = ACTIVE =>
    /\ lastObservedAt # NoTime
    /\ IF interruptedMonotonic # NoTime
         THEN Exceeds(lastObservedMonotonic, interruptedMonotonic)
         ELSE interruptedAt # NoTime => lastObservedAt > interruptedAt

\* The supervisor keeps the promise of AutomationPermit: automation is granted
\* only with nothing outstanding, an admission epoch belongs to one stretch of
\* permission, and a debt is settled one transaction at a time without granting.
Permit == INSTANCE AutomationPermit WITH
  allowed     <- state = ACTIVE,
  epoch       <- admissionGeneration,
  latched     <- physicalStateUnresolved,
  outstanding <- unresolvedTransactions

PermitSpec == Permit!Spec

=============================================================================
