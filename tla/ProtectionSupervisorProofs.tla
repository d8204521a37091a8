----------------------- MODULE ProtectionSupervisorProofs -----------------------
(***************************************************************************)
(* Proofs about ProtectionSupervisor, for every set of transactions and    *)
(* clock readings, every maximal evidence age and every generation bound.  *)
(***************************************************************************)
EXTENDS ProtectionSupervisor, TLAPS

\* A reading of the two clocks, by a caller of any kind.
Reading == [wall : Int, mono : Int \cup {NoTime}]

\* The steps of Next, without the bounded choice of their arguments: what the modules
\* of the supervisor's callers take is such a step too.
Step ==
  \/ \E now \in Reading : InterruptKnown(now)
  \/ \E now \in Reading, S \in SUBSET Transactions : InterruptUnknown(now, S)
  \/ \E now \in Reading, at \in Times, known \in BOOLEAN : RequireRevalidation(at, now, known)
  \/ \E t \in Transactions : ResolveStranger(t)
  \/ \E t \in Transactions, now \in Reading : ResolveOutstanding(t, now)
  \/ \E finding \in Findings, evidence \in Reading, now \in Reading : Validate(finding, evidence, now)
  \/ \E wall \in Times, mono \in Times : Status(wall, mono)

LEMMA NextIsStep == ASSUME Next PROVE Step
<1>. USE StampsAssumption DEF Times, Reading
<1>1. PICK now \in Stamps :
        \/ Interrupted(now)
        \/ \E known \in BOOLEAN, observedAt \in WallTimes : RequireRevalidation(observedAt, now, known)
        \/ \E t \in Transactions : ResolvePhysicalTransaction(t, now)
        \/ \E finding \in Findings, evidence \in Stamps : Validate(finding, evidence, now)
        \/ Status(now.wall, now.mono)
        \/ Status(NoTime, now.mono)
  BY DEF Next
<1>2. /\ now.wall \in Times
      /\ now.mono \in Times
      /\ NoTime \in Times
      /\ WallTimes \subseteq Times
  BY DEF WallTimes
<1>3. CASE Interrupted(now)
  BY <1>3 DEF Interrupted, Step
<1>4. CASE \E known \in BOOLEAN, observedAt \in WallTimes : RequireRevalidation(observedAt, now, known)
  BY <1>2, <1>4 DEF Step
<1>5. CASE \E t \in Transactions : ResolvePhysicalTransaction(t, now)
  BY <1>5 DEF ResolvePhysicalTransaction, Step
<1>6. CASE \E finding \in Findings, evidence \in Stamps : Validate(finding, evidence, now)
  BY <1>6 DEF Step
<1>7. CASE Status(now.wall, now.mono) \/ Status(NoTime, now.mono)
  BY <1>2, <1>7 DEF Step
<1>. QED BY <1>1, <1>3, <1>4, <1>5, <1>6, <1>7

-----------------------------------------------------------------------------
(* Lemmas about the helpers *)

\* The wrapper of every method keeps the generation a natural number.
LEMMA SerializedType ==
  ASSUME admissionGeneration \in Nat, Serialized
  PROVE  admissionGeneration' \in Nat
BY DEF Serialized

\* Evidence with a default capture time is a pair of times with a wall time.
LEMMA CaptureTimeType ==
  ASSUME NEW evidence \in Reading, NEW now \in Reading
  PROVE  CaptureTime(evidence, now) \in Reading
BY DEF CaptureTime, Reading

\* A denied piece of evidence leads to a state of the enumeration other than ACTIVE.
LEMMA DeniedStateType ==
  ASSUME NEW finding \in Findings
  PROVE  DeniedState(finding) \in ProtectionStates \ {ACTIVE}
BY DEF DeniedState, ProtectionStates, ACTIVE, DEGRADED, PAUSED, RECOVERY, UNKNOWN

\* validate leaves the observation and the boundary times.
LEMMA ValidateTimes ==
  ASSUME SupervisorTypeOK, NEW finding \in Findings, NEW evidence \in Reading, NEW now \in Reading,
         Validate(finding, evidence, now)
  PROVE  /\ lastObservedAt' \in Times /\ lastObservedMonotonic' \in Times
         /\ reactivationAfter' \in Times /\ reactivationAfterMonotonic' \in Times
<1>. DEFINE observed == CaptureTime(evidence, now)
<1>1. observed \in Reading /\ now \in Reading
  BY CaptureTimeType
<1>. HIDE DEF observed
<1>2. Observe(observed, now) => lastObservedAt' \in Times /\ lastObservedMonotonic' \in Times
  BY <1>1 DEF Observe, SupervisorTypeOK, Times, Reading
<1>3. RaiseBoundary(observed, now) => reactivationAfter' \in Times /\ reactivationAfterMonotonic' \in Times
  BY <1>1 DEF RaiseBoundary, Times, Reading
<1>4. UNCHANGED observation => lastObservedAt' \in Times /\ lastObservedMonotonic' \in Times
  BY DEF observation, SupervisorTypeOK
<1>5. UNCHANGED boundary => reactivationAfter' \in Times /\ reactivationAfterMonotonic' \in Times
  BY DEF boundary, SupervisorTypeOK
<1>6. \/ ValidateUnresolved
      \/ ValidateRegressed(observed)
      \/ ValidateDenied(finding, observed, now)
      \/ ValidateFuture(finding, observed, now)
      \/ ValidateStale(finding, observed, now)
      \/ ValidateSuperseded(finding, observed, now)
      \/ ValidateActive(finding, observed, now)
  BY DEF Validate, observed
<1>7. CASE ValidateUnresolved
  BY <1>4, <1>5, <1>7 DEF ValidateUnresolved
<1>8. CASE ValidateRegressed(observed)
  BY <1>4, <1>5, <1>8 DEF ValidateRegressed
<1>9. CASE ValidateDenied(finding, observed, now)
  BY <1>2, <1>3, <1>9 DEF ValidateDenied
<1>10. CASE ValidateFuture(finding, observed, now)
  BY <1>2, <1>5, <1>10 DEF ValidateFuture
<1>11. CASE ValidateStale(finding, observed, now)
  BY <1>2, <1>3, <1>11 DEF ValidateStale
<1>12. CASE ValidateSuperseded(finding, observed, now)
  BY <1>2, <1>5, <1>12 DEF ValidateSuperseded
<1>13. CASE ValidateActive(finding, observed, now)
  BY <1>2, <1>13 DEF ValidateActive, Times
<1>. QED BY <1>6, <1>7, <1>8, <1>9, <1>10, <1>11, <1>12, <1>13

\* What validate makes of the state: ACTIVE only for evidence of this step that is
\* newer than the last interruption, with nothing unresolved, and UNKNOWN whenever
\* something is unresolved.
LEMMA ValidateState ==
  ASSUME SupervisorTypeOK, NEW finding \in Findings, NEW evidence \in Reading, NEW now \in Reading,
         Validate(finding, evidence, now)
  PROVE  /\ state' \in ProtectionStates
         /\ Unresolved => state' = UNKNOWN
         /\ state' = ACTIVE => ~Unresolved /\ ActiveOutlivesInterruption'
<1>. DEFINE observed == CaptureTime(evidence, now)
<1>. USE DEF ProtectionStates, ACTIVE, DEGRADED, PAUSED, RECOVERY, UNKNOWN
<1>1. observed \in Reading
  BY CaptureTimeType
<1>. HIDE DEF observed
<1>2. \/ ValidateUnresolved
      \/ ValidateRegressed(observed)
      \/ ValidateDenied(finding, observed, now)
      \/ ValidateFuture(finding, observed, now)
      \/ ValidateStale(finding, observed, now)
      \/ ValidateSuperseded(finding, observed, now)
      \/ ValidateActive(finding, observed, now)
  BY DEF Validate, observed
<1>3. CASE ValidateUnresolved
  BY <1>3 DEF ValidateUnresolved
<1>4. CASE ValidateRegressed(observed)
  BY <1>4 DEF ValidateRegressed
<1>5. CASE ValidateDenied(finding, observed, now)
  BY <1>5, DeniedStateType DEF ValidateDenied, Accepted
<1>6. CASE ValidateFuture(finding, observed, now)
  BY <1>6 DEF ValidateFuture, Accepted
<1>7. CASE ValidateStale(finding, observed, now)
  BY <1>7 DEF ValidateStale, Timely, Accepted
<1>8. CASE ValidateSuperseded(finding, observed, now)
  BY <1>8 DEF ValidateSuperseded, Timely, Accepted
<1>9. CASE ValidateActive(finding, observed, now)
  <2>1. ~Unresolved /\ state' = ACTIVE
    BY <1>9 DEF ValidateActive, Timely, Accepted
  <2>2. lastObservedAt' = observed.wall /\ lastObservedMonotonic' = observed.mono
    BY <1>9 DEF ValidateActive, Timely, Observe
  <2>3. UNCHANGED interruption
    BY DEF Validate
  <2>4. IF interruptedMonotonic # NoTime
          THEN Exceeds(observed.mono, interruptedMonotonic)
          ELSE interruptedAt # NoTime => observed.wall > interruptedAt
    BY <1>1, <1>9, NoTimeAssumption
    DEF ValidateActive, Superseded, NotAfter, SupervisorTypeOK, Times, Reading
  <2>5. lastObservedAt' # NoTime
    BY <1>1, <2>2, NoTimeAssumption DEF Reading
  <2>6. ActiveOutlivesInterruption'
    BY <2>2, <2>3, <2>4, <2>5 DEF ActiveOutlivesInterruption, interruption, Exceeds
  <2>. QED BY <2>1, <2>6
<1>. QED BY <1>2, <1>3, <1>4, <1>5, <1>6, <1>7, <1>8, <1>9

-----------------------------------------------------------------------------
(* Type correctness *)

LEMMA InitTypeOK == ASSUME SupervisorInit PROVE SupervisorTypeOK
BY DEF SupervisorInit, SupervisorTypeOK, Times, ProtectionStates, PAUSED

LEMMA StepTypeOK ==
  ASSUME SupervisorTypeOK, Step
  PROVE  SupervisorTypeOK'
<1>. USE SerializedType
     DEF Reading, SupervisorTypeOK, Times, ProtectionStates, ACTIVE, DEGRADED, PAUSED, RECOVERY, UNKNOWN,
         interruption, observation, boundary, unresolved
<1>1. ASSUME NEW now \in Reading, InterruptKnown(now) PROVE SupervisorTypeOK'
  BY <1>1 DEF InterruptKnown
<1>2. ASSUME NEW now \in Reading, NEW S \in SUBSET Transactions, InterruptUnknown(now, S)
      PROVE  SupervisorTypeOK'
  BY <1>2 DEF InterruptUnknown
<1>3. ASSUME NEW now \in Reading, NEW at \in Times, NEW known \in BOOLEAN,
             RequireRevalidation(at, now, known)
      PROVE  SupervisorTypeOK'
  BY <1>3 DEF RequireRevalidation
<1>4. ASSUME NEW t \in Transactions, ResolveStranger(t) PROVE SupervisorTypeOK'
  BY <1>4 DEF ResolveStranger
<1>5. ASSUME NEW t \in Transactions, NEW now \in Reading, ResolveOutstanding(t, now)
      PROVE  SupervisorTypeOK'
  BY <1>5 DEF ResolveOutstanding
<1>6. ASSUME NEW finding \in Findings, NEW evidence \in Reading, NEW now \in Reading,
             Validate(finding, evidence, now)
      PROVE  SupervisorTypeOK'
  <2>1. state' \in ProtectionStates
    BY <1>6, ValidateState
  <2>2. /\ lastObservedAt' \in Times /\ lastObservedMonotonic' \in Times
        /\ reactivationAfter' \in Times /\ reactivationAfterMonotonic' \in Times
    BY <1>6, ValidateTimes
  <2>3. Serialized /\ UNCHANGED <<interruption, unresolved>>
    BY <1>6 DEF Validate
  <2>. QED BY <2>1, <2>2, <2>3
<1>7. ASSUME NEW wall \in Times, NEW mono \in Times, Status(wall, mono) PROVE SupervisorTypeOK'
  BY <1>7 DEF Status, StatusUnchanged, StatusClockFault, StatusAgedOut
<1>. QED BY <1>1, <1>2, <1>3, <1>4, <1>5, <1>6, <1>7 DEF Step

LEMMA StutterTypeOK ==
  ASSUME SupervisorTypeOK, UNCHANGED supervisorVars
  PROVE  SupervisorTypeOK'
BY DEF SupervisorTypeOK, supervisorVars, interruption, observation, boundary, unresolved

\* The supervisor's state stays within its types: every method leaves one of the five
\* states, numbers or None in the time fields, and a generation that is a natural number.
THEOREM TypeCorrect == Spec => []SupervisorTypeOK
<1>1. SupervisorInit => SupervisorTypeOK
  BY InitTypeOK
<1>2. SupervisorTypeOK /\ [Next]_supervisorVars => SupervisorTypeOK'
  BY NextIsStep, StepTypeOK, StutterTypeOK
<1>. QED BY <1>1, <1>2, PTL DEF Spec

-----------------------------------------------------------------------------
(* The safety invariants *)

\* Type correctness is what the two invariants need to be inductive: the comparisons
\* behind ActiveOutlivesInterruption are between integers or None.
Inv == SupervisorTypeOK /\ UnresolvedIsUnknown /\ ActiveOutlivesInterruption

LEMMA InitInv == ASSUME SupervisorInit PROVE Inv
BY InitTypeOK
DEF Inv, SupervisorInit, UnresolvedIsUnknown, Unresolved, ActiveOutlivesInterruption, PAUSED, ACTIVE

\* A call that ends outside ACTIVE has only UnresolvedIsUnknown to keep.
LEMMA StepInv ==
  ASSUME Inv, Step
  PROVE  Inv'
<1>. USE DEF ACTIVE, DEGRADED, PAUSED, RECOVERY, UNKNOWN, Unresolved, unresolved
<1>1. SupervisorTypeOK'
  BY StepTypeOK DEF Inv
<1>2. UnresolvedIsUnknown' /\ ActiveOutlivesInterruption'
  <2>1. ASSUME NEW now \in Reading, InterruptKnown(now)
        PROVE  UnresolvedIsUnknown' /\ ActiveOutlivesInterruption'
    BY <2>1 DEF InterruptKnown, UnresolvedIsUnknown, ActiveOutlivesInterruption
  <2>2. ASSUME NEW now \in Reading, NEW S \in SUBSET Transactions, InterruptUnknown(now, S)
        PROVE  UnresolvedIsUnknown' /\ ActiveOutlivesInterruption'
    BY <2>2 DEF InterruptUnknown, UnresolvedIsUnknown, ActiveOutlivesInterruption
  <2>3. ASSUME NEW now \in Reading, NEW at \in Times, NEW known \in BOOLEAN,
               RequireRevalidation(at, now, known)
        PROVE  UnresolvedIsUnknown' /\ ActiveOutlivesInterruption'
    BY <2>3 DEF RequireRevalidation, UnresolvedIsUnknown, ActiveOutlivesInterruption
  <2>4. ASSUME NEW t \in Transactions, ResolveStranger(t)
        PROVE  UnresolvedIsUnknown' /\ ActiveOutlivesInterruption'
    BY <2>4 DEF ResolveStranger, UnresolvedIsUnknown, ActiveOutlivesInterruption
  <2>5. ASSUME NEW t \in Transactions, NEW now \in Reading, ResolveOutstanding(t, now)
        PROVE  UnresolvedIsUnknown' /\ ActiveOutlivesInterruption'
    BY <2>5 DEF ResolveOutstanding, UnresolvedIsUnknown, ActiveOutlivesInterruption
  <2>6. ASSUME NEW finding \in Findings, NEW evidence \in Reading, NEW now \in Reading,
               Validate(finding, evidence, now)
        PROVE  UnresolvedIsUnknown' /\ ActiveOutlivesInterruption'
    <3>1. /\ Unresolved => state' = UNKNOWN
          /\ state' = ACTIVE => ActiveOutlivesInterruption'
      BY <2>6, ValidateState DEF Inv
    <3>2. UNCHANGED unresolved
      BY <2>6 DEF Validate
    <3>. QED BY <3>1, <3>2 DEF UnresolvedIsUnknown, ActiveOutlivesInterruption
  <2>7. ASSUME NEW wall \in Times, NEW mono \in Times, Status(wall, mono)
        PROVE  UnresolvedIsUnknown' /\ ActiveOutlivesInterruption'
    <3>1. UNCHANGED <<interruption, observation, unresolved>>
      BY <2>7 DEF Status
    <3>2. state' = state \/ (state = ACTIVE /\ state' # ACTIVE)
      BY <2>7 DEF Status, StatusUnchanged, StatusClockFault, StatusAgedOut, Standing
    <3>. QED BY <3>1, <3>2
         DEF Inv, UnresolvedIsUnknown, ActiveOutlivesInterruption, interruption, observation, Exceeds
  <2>. QED BY <2>1, <2>2, <2>3, <2>4, <2>5, <2>6, <2>7 DEF Step
<1>. QED BY <1>1, <1>2 DEF Inv

LEMMA StutterInv == ASSUME Inv, UNCHANGED supervisorVars PROVE Inv'
BY StutterTypeOK
DEF Inv, UnresolvedIsUnknown, Unresolved, ActiveOutlivesInterruption, Exceeds,
    supervisorVars, interruption, observation, boundary, unresolved

LEMMA InvIsInvariant == Spec => []Inv
<1>1. SupervisorInit => Inv
  BY InitInv
<1>2. Inv /\ [Next]_supervisorVars => Inv'
  BY NextIsStep, StepInv, StutterInv
<1>. QED BY <1>1, <1>2, PTL DEF Spec

\* An unresolved physical effect keeps the supervisor in UNKNOWN_PHYSICAL_STATE through
\* any sequence of calls.
THEOREM UnresolvedStaysUnknown == Spec => []UnresolvedIsUnknown
BY InvIsInvariant, PTL DEF Inv

\* Automation is only ever allowed on evidence captured strictly after the last
\* interruption.
THEOREM ActiveIsNewerThanInterruption == Spec => []ActiveOutlivesInterruption
BY InvIsInvariant, PTL DEF Inv

-----------------------------------------------------------------------------
(* The refinement of AutomationPermit *)

\* A call that leaves the debts alone grants, revokes or keeps the permit; it may
\* grant only when nothing is owed.
LEMMA SameDebts ==
  ASSUME UNCHANGED unresolved, Serialized,
         state # ACTIVE /\ state' = ACTIVE => ~Unresolved
  PROVE  [Permit!Next]_(Permit!vars)
<1>1. CASE state # ACTIVE /\ state' = ACTIVE
  <2>1. Permit!Grant
    BY <1>1 DEF Permit!Grant, Permit!Debt, Unresolved, Serialized, unresolved
  <2>. QED BY <2>1 DEF Permit!Next
<1>2. CASE state = ACTIVE /\ state' # ACTIVE
  <2>1. Permit!Revoke
    BY <1>2 DEF Permit!Revoke, Serialized, unresolved
  <2>. QED BY <2>1 DEF Permit!Next
<1>3. CASE (state = ACTIVE) <=> (state' = ACTIVE)
  <2>1. UNCHANGED Permit!vars
    BY <1>3 DEF Permit!vars, Serialized, unresolved
  <2>. QED BY <2>1
<1>. QED BY <1>1, <1>2, <1>3

\* A call that adds a debt and ends outside ACTIVE incurs it.
LEMMA MoreDebts ==
  ASSUME SupervisorTypeOK, SupervisorTypeOK', Serialized, state' # ACTIVE,
         physicalStateUnresolved => physicalStateUnresolved',
         unresolvedTransactions \subseteq unresolvedTransactions',
         physicalStateUnresolved' \/ unresolvedTransactions' # {}
  PROVE  Permit!Next
<1>1. Permit!Incur
  BY DEF Permit!Incur, SupervisorTypeOK, Serialized
<1>. QED BY <1>1 DEF Permit!Next

LEMMA StepKeepsPermit ==
  ASSUME Inv, Step
  PROVE  [Permit!Next]_(Permit!vars)
<1>. USE DEF ACTIVE, DEGRADED, PAUSED, RECOVERY, UNKNOWN
<1>0. SupervisorTypeOK /\ SupervisorTypeOK'
  BY StepTypeOK DEF Inv
<1>1. ASSUME NEW now \in Reading, InterruptKnown(now)
      PROVE  [Permit!Next]_(Permit!vars)
  BY <1>1, SameDebts DEF InterruptKnown
<1>2. ASSUME NEW now \in Reading, NEW S \in SUBSET Transactions, InterruptUnknown(now, S)
      PROVE  [Permit!Next]_(Permit!vars)
  <2>1. /\ Serialized /\ state' # ACTIVE
        /\ physicalStateUnresolved => physicalStateUnresolved'
        /\ unresolvedTransactions \subseteq unresolvedTransactions'
        /\ physicalStateUnresolved' \/ unresolvedTransactions' # {}
    BY <1>2 DEF InterruptUnknown
  <2>. QED BY <1>0, <2>1, MoreDebts
<1>3. ASSUME NEW now \in Reading, NEW at \in Times, NEW known \in BOOLEAN,
             RequireRevalidation(at, now, known)
      PROVE  [Permit!Next]_(Permit!vars)
  <2>1. Serialized /\ state' # ACTIVE /\ UNCHANGED unresolvedTransactions
    BY <1>3 DEF RequireRevalidation
  <2>2. CASE known
    <3>1. UNCHANGED unresolved
      BY <1>0, <1>3, <2>2 DEF RequireRevalidation, unresolved, SupervisorTypeOK
    <3>. QED BY <2>1, <3>1, SameDebts
  <2>3. CASE ~known
    <3>1. physicalStateUnresolved'
      BY <1>3, <2>3 DEF RequireRevalidation
    <3>. QED BY <1>0, <2>1, <3>1, MoreDebts
  <2>. QED BY <2>2, <2>3
<1>4. ASSUME NEW t \in Transactions, ResolveStranger(t)
      PROVE  [Permit!Next]_(Permit!vars)
  BY <1>4, SameDebts DEF ResolveStranger
<1>5. ASSUME NEW t \in Transactions, NEW now \in Reading, ResolveOutstanding(t, now)
      PROVE  [Permit!Next]_(Permit!vars)
  <2>1. state # ACTIVE /\ state' # ACTIVE
    BY <1>5 DEF ResolveOutstanding, Inv, UnresolvedIsUnknown, Unresolved
  <2>2. Permit!Settle(t)
    BY <1>5, <2>1 DEF ResolveOutstanding, Permit!Settle, Serialized
  <2>. QED BY <2>2 DEF Permit!Next
<1>6. ASSUME NEW finding \in Findings, NEW evidence \in Reading, NEW now \in Reading,
             Validate(finding, evidence, now)
      PROVE  [Permit!Next]_(Permit!vars)
  <2>1. state' = ACTIVE => ~Unresolved
    BY <1>0, <1>6, ValidateState
  <2>2. Serialized /\ UNCHANGED unresolved
    BY <1>6 DEF Validate
  <2>. QED BY <2>1, <2>2, SameDebts
<1>7. ASSUME NEW wall \in Times, NEW mono \in Times, Status(wall, mono)
      PROVE  [Permit!Next]_(Permit!vars)
  <2>1. Serialized /\ UNCHANGED unresolved
    BY <1>7 DEF Status
  <2>2. state' = ACTIVE => state = ACTIVE
    BY <1>7 DEF Status, StatusUnchanged, StatusClockFault, StatusAgedOut
  <2>. QED BY <2>1, <2>2, SameDebts
<1>. QED BY <1>1, <1>2, <1>3, <1>4, <1>5, <1>6, <1>7 DEF Step

\* The supervisor implements AutomationPermit: whatever its callers do, permission is
\* granted only with nothing owed, each epoch is one stretch of permission, and debts
\* are settled one at a time and never by granting.
THEOREM KeepsThePermit == Spec => PermitSpec
<1>1. SupervisorInit => Permit!Init
  BY DEF SupervisorInit, Permit!Init, ACTIVE, PAUSED
<1>2. Inv /\ [Next]_supervisorVars => [Permit!Next]_(Permit!vars)
  <2>1. UNCHANGED supervisorVars => UNCHANGED Permit!vars
    BY DEF supervisorVars, unresolved, Permit!vars
  <2>. QED BY <2>1, NextIsStep, StepKeepsPermit
<1>. QED BY <1>1, <1>2, InvIsInvariant, PTL DEF Spec, PermitSpec, Permit!Spec

=============================================================================
