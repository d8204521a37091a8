------------------------ MODULE ProtectionEvidenceProofs ------------------------
(***************************************************************************)
(* Theorems about ProtectionEvidence, for any number of threads, any       *)
(* bounds and any wall clock.                                              *)
(*                                                                         *)
(* Two instants decide.  The supervisor's interruption never recedes, so   *)
(* what was announced stays covered by it; and no evidence is ever judged  *)
(* that is newer than what the source holds.  While ACTIVE, the evidence   *)
(* judged last is newer than the interruption, so neither an announced     *)
(* event under way nor an announced source can be newer than that.         *)
(***************************************************************************)
EXTENDS ProtectionEvidence, ProtectionSupervisorProofs

\* An interruption at this mark is one at instant i or later.
Covers(mark, i) == mark # NoTime /\ mark >= i

\* What was announced is covered.
AnnouncedIsCovered ==
  /\ announced => Covers(interruptedMonotonic, source.at)
  /\ \A t \in Threads :
       job[t].pc \in {"publish", "failure"} /\ Negative(job[t].ev) => Covers(interruptedMonotonic, job[t].ev.at)

\* Nothing judged, nor about to be, is newer than the source.
SourceIsNewest ==
  /\ lastObservedMonotonic # NoTime => lastObservedMonotonic <= source.at
  /\ \A t \in Threads : job[t].pc \in {"clock", "judge"} => job[t].ev.at <= source.at

EvidenceInv == EvidenceTypeOK /\ Inv /\ AnnouncedIsCovered /\ SourceIsNewest

-----------------------------------------------------------------------------
(* Types *)

Jobs == [pc : Pcs, ev : Evidence, now : Instants]

LEMMA InstantType == Instants \subseteq Int /\ 0 \in Instants /\ 0..MaxClock \subseteq Instants
BY InstantsAssumption DEF Instants

LEMMA StampType ==
  ASSUME NEW i \in Instants
  PROVE  StampAt(i) \in Reading /\ StampAt(i).mono = i /\ i # NoTime
BY InstantsAssumption, InstantType, NoTimeAssumption DEF StampAt, Reading

LEMMA EvidenceType ==
  ASSUME NEW e \in Evidence
  PROVE  e.at \in Instants /\ e.at \in Int /\ e.says \in Reports
BY InstantType DEF Evidence

LEMMA IdleType == Idle \in Jobs /\ Idle.pc = "idle"
BY ReportsAssumption, InstantType DEF Idle, Jobs, Evidence, Pcs

LEMMA JobType ==
  ASSUME EvidenceTypeOK, NEW t \in Threads
  PROVE  job[t] \in Jobs /\ job[t].ev \in Evidence /\ job[t].now \in Instants
BY DEF EvidenceTypeOK, Jobs

-----------------------------------------------------------------------------
(* What the supervisor's methods do to the two instants *)

\* After an attempt to interrupt at i the supervisor is covered up to i, and what was
\* covered stays so; an attempt that does not raise leaves ACTIVE.
LEMMA InterruptCovers ==
  ASSUME Inv, NEW i \in Instants, NEW raised \in BOOLEAN, InterruptAt(i, raised)
  PROVE  /\ [Step]_supervisorVars
         /\ Covers(interruptedMonotonic', i)
         /\ \A k \in Int : Covers(interruptedMonotonic, k) => Covers(interruptedMonotonic', k)
         /\ UNCHANGED lastObservedMonotonic
<1>1. StampAt(i) \in Reading /\ StampAt(i).mono = i /\ i # NoTime /\ i \in Int
  BY StampType, InstantType
<1>2. interruptedMonotonic \in Times
  BY DEF Inv, SupervisorTypeOK
<1>3. CASE InterruptRaises(StampAt(i))
  <2>1. UNCHANGED supervisorVars
    BY <1>3 DEF InterruptAt
  <2>2. interruptedMonotonic # NoTime /\ i < interruptedMonotonic
    BY <1>1, <1>3 DEF InterruptRaises
  <2> QED BY <2>1, <2>2, <1>1, <1>2 DEF Covers, Times, supervisorVars, interruption, observation
<1>4. CASE ~InterruptRaises(StampAt(i))
  <2>1. InterruptKnown(StampAt(i))
    BY <1>4 DEF InterruptAt
  <2>2. interruptedMonotonic' = i
    BY <2>1, <1>1 DEF InterruptKnown
  <2>3. interruptedMonotonic # NoTime => interruptedMonotonic <= i
    BY <1>1, <1>2, <1>4 DEF InterruptRaises, Times
  <2>4. Step
    BY <2>1, <1>1 DEF Step
  <2>5. UNCHANGED lastObservedMonotonic
    BY <2>1 DEF InterruptKnown, observation
  <2>6. Covers(interruptedMonotonic', i) /\ \A k \in Int : Covers(interruptedMonotonic, k) => Covers(interruptedMonotonic', k)
    BY <2>2, <2>3, <1>1, <1>2 DEF Covers, Times
  <2> QED BY <2>4, <2>5, <2>6
<1> QED BY <1>3, <1>4

\* validate keeps the interruption, and its baseline is the old one or what it judged.
LEMMA ValidateObserves ==
  ASSUME Inv, NEW finding \in Findings, NEW i \in Instants, NEW now \in Instants,
         Validate(finding, StampAt(i), StampAt(now))
  PROVE  /\ Step
         /\ UNCHANGED interruption
         /\ lastObservedMonotonic' \in {lastObservedMonotonic, i}
<1>1. StampAt(i) \in Reading /\ StampAt(now) \in Reading /\ StampAt(i).mono = i /\ i # NoTime
  BY StampType
<1>2. Step
  BY <1>1 DEF Step
<1>3. CaptureTime(StampAt(i), StampAt(now)) = StampAt(i)
  BY <1>1 DEF CaptureTime
<1>4. \A o, n : Observe(o, n) => lastObservedMonotonic' \in {lastObservedMonotonic, o.mono}
  BY DEF Observe
<1>5. lastObservedMonotonic' \in {lastObservedMonotonic, i}
  BY <1>1, <1>3, <1>4 DEF Validate, ValidateUnresolved, ValidateRegressed, ValidateDenied,
     ValidateFuture, ValidateStale, ValidateSuperseded, ValidateActive, Timely, observation
<1> QED BY <1>2, <1>5 DEF Validate

-----------------------------------------------------------------------------
(* The steps *)

LEMMA EvidenceInvInit == EvidenceInit => EvidenceInv
<1> SUFFICES ASSUME EvidenceInit PROVE EvidenceInv
  OBVIOUS
<1>1. SupervisorInit /\ Inv
  BY InitInv DEF EvidenceInit
<1>2. EvidenceTypeOK
  <2>1. clock \in 0..MaxClock /\ events \in 0..MaxEvents /\ announced \in BOOLEAN
    <3>1. MaxClock \in Nat /\ MaxEvents \in Nat
      BY InstantsAssumption
    <3>2. clock = 0 /\ events = 0 /\ announced = FALSE
      BY DEF EvidenceInit
    <3>3. clock \in 0..MaxClock /\ events \in 0..MaxEvents
      BY <3>1, <3>2
    <3>4. announced \in BOOLEAN
      BY <3>2
    <3> QED BY <3>3, <3>4
  <2>2. source \in Evidence
    BY InstantType, ReportsAssumption DEF EvidenceInit, Evidence
  <2>3. job \in [Threads -> Jobs]
    BY IdleType DEF EvidenceInit
  <2> QED BY <1>1, <2>1, <2>2, <2>3 DEF EvidenceTypeOK, Jobs, Inv
<1>3. AnnouncedIsCovered /\ SourceIsNewest
  BY <1>1, IdleType DEF EvidenceInit, AnnouncedIsCovered, SourceIsNewest, SupervisorInit
<1> QED BY <1>1, <1>2, <1>3 DEF EvidenceInv

\* The supervisor keeps its invariants, and what is new in the state of one thread and
\* of the source is all that has to be looked at.
LEMMA StepKeeps ==
  ASSUME EvidenceInv, [Step]_supervisorVars,
         \A k \in Int : Covers(interruptedMonotonic, k) => Covers(interruptedMonotonic', k),
         NEW t \in Threads, NEW new \in Jobs, job' = [job EXCEPT ![t] = new],
         clock' \in 0..MaxClock, events' \in 0..MaxEvents, announced' \in BOOLEAN,
         source' \in Evidence, source.at <= source'.at,
         lastObservedMonotonic' # NoTime => lastObservedMonotonic' <= source'.at,
         announced' => Covers(interruptedMonotonic', source'.at),
         new.pc \in {"publish", "failure"} /\ Negative(new.ev) => Covers(interruptedMonotonic', new.ev.at),
         new.pc \in {"clock", "judge"} => new.ev.at <= source'.at
  PROVE  EvidenceInv'
<1>1. Inv'
  BY StepInv, StutterInv DEF EvidenceInv
<1>2. job' \in [Threads -> Jobs] /\ \A u \in Threads : job'[u] = IF u = t THEN new ELSE job[u]
  BY DEF EvidenceInv, EvidenceTypeOK, Jobs
<1>3. EvidenceTypeOK'
  BY <1>1, <1>2 DEF EvidenceTypeOK, Inv, Jobs
<1>4. AnnouncedIsCovered'
  <2>1. \A u \in Threads :
          job'[u].pc \in {"publish", "failure"} /\ Negative(job'[u].ev) => Covers(interruptedMonotonic', job'[u].ev.at)
    <3> SUFFICES ASSUME NEW u \in Threads, job'[u].pc \in {"publish", "failure"},
                        Negative(job'[u].ev)
                 PROVE  Covers(interruptedMonotonic', job'[u].ev.at)
      OBVIOUS
    <3>1. CASE u = t
      BY <3>1, <1>2
    <3>2. CASE u # t
      <4>1. job'[u] = job[u] /\ job[u].ev.at \in Int
        BY <3>2, <1>2, JobType, EvidenceType DEF EvidenceInv
      <4>2. Covers(interruptedMonotonic, job[u].ev.at)
        BY <4>1 DEF EvidenceInv, AnnouncedIsCovered
      <4>3. Covers(interruptedMonotonic', job[u].ev.at)
        BY <4>1, <4>2
      <4> QED BY <4>1, <4>3 DEF Covers
    <3> QED BY <3>1, <3>2
  <2> QED BY <2>1 DEF AnnouncedIsCovered, Negative, Covers
<1>5. SourceIsNewest'
  <2>1. \A u \in Threads : job'[u].pc \in {"clock", "judge"} => job'[u].ev.at <= source'.at
    <3>1. \A u \in Threads : job[u].ev.at \in Int
      BY JobType, EvidenceType DEF EvidenceInv
    <3>2. source.at \in Int /\ source'.at \in Int
      BY EvidenceType DEF EvidenceInv, EvidenceTypeOK
    <3> QED BY <3>1, <3>2, <1>2 DEF EvidenceInv, SourceIsNewest
  <2> QED BY <2>1 DEF SourceIsNewest
<1> QED BY <1>1, <1>3, <1>4, <1>5 DEF EvidenceInv

\* A step of a thread that leaves the supervisor and the source alone.
LEMMA ThreadKeeps ==
  ASSUME EvidenceInv, UNCHANGED <<supervisorVars, clock, source, announced>>,
         NEW t \in Threads, NEW new \in Jobs, job' = [job EXCEPT ![t] = new],
         events' \in 0..MaxEvents,
         new.pc \in {"publish", "failure"} /\ Negative(new.ev) => Covers(interruptedMonotonic, new.ev.at),
         new.pc \in {"clock", "judge"} => new.ev.at <= source.at
  PROVE  EvidenceInv'
<1>1. interruptedMonotonic' = interruptedMonotonic /\ lastObservedMonotonic' = lastObservedMonotonic
  BY DEF supervisorVars, interruption, observation
<1>2. \A k \in Int : Covers(interruptedMonotonic, k) => Covers(interruptedMonotonic', k)
  BY <1>1
<1>3. source' \in Evidence /\ source.at <= source'.at /\ [Step]_supervisorVars
  BY EvidenceType DEF EvidenceInv, EvidenceTypeOK
<1>4. lastObservedMonotonic' # NoTime => lastObservedMonotonic' <= source'.at
  BY <1>1 DEF EvidenceInv, SourceIsNewest
<1>5. announced' => Covers(interruptedMonotonic', source'.at)
  BY <1>1 DEF EvidenceInv, AnnouncedIsCovered
<1>6. clock' \in 0..MaxClock /\ announced' \in BOOLEAN
  BY DEF EvidenceInv, EvidenceTypeOK
<1>7. new.pc \in {"publish", "failure"} /\ Negative(new.ev) => Covers(interruptedMonotonic', new.ev.at)
  BY <1>1 DEF Covers
<1> QED BY <1>2, <1>3, <1>4, <1>5, <1>6, <1>7, StepKeeps

\* How an event is begun: nothing is announced yet of evidence that is negative.
LEMMA BeginsKeeps ==
  ASSUME EvidenceInv, UNCHANGED <<supervisorVars, clock, source, announced>>,
         NEW t \in Threads, Begins(t), NEW new \in Jobs, job' = [job EXCEPT ![t] = new],
         new.pc \in {"invalid", "pending"} \/ (new.pc = "publish" /\ ~Negative(new.ev))
  PROVE  EvidenceInv'
<1>1. events' \in 0..MaxEvents
  BY InstantsAssumption DEF Begins, EvidenceInv, EvidenceTypeOK
<1> QED BY <1>1, ThreadKeeps

LEMMA ClassifiedType ==
  ASSUME NEW e \in Evidence, NEW i \in Instants
  PROVE  /\ [pc |-> Classified(e), ev |-> e, now |-> i] \in Jobs
         /\ \/ Classified(e) \in {"invalid", "pending"}
            \/ Classified(e) = "publish" /\ ~Negative(e)
BY DEF Classified, Jobs, Pcs

LEMMA ApplyKeeps ==
  ASSUME EvidenceInv, NEW t \in Threads, NEW e \in Evidence, ApplyEvidence(t, e)
  PROVE  EvidenceInv'
<1>. DEFINE new == [pc |-> Classified(e), ev |-> e, now |-> e.at]
<1>1. new \in Jobs /\ (new.pc \in {"invalid", "pending"} \/ (new.pc = "publish" /\ ~Negative(new.ev)))
  BY ClassifiedType, EvidenceType
<1>2. /\ UNCHANGED <<supervisorVars, clock, source, announced>>
      /\ Begins(t) /\ job' = [job EXCEPT ![t] = new]
  BY DEF ApplyEvidence
<1> HIDE DEF new
<1> QED BY <1>1, <1>2, BeginsKeeps

LEMMA GarbageKeeps ==
  ASSUME EvidenceInv, NEW t \in Threads, ApplyGarbage(t)
  PROVE  EvidenceInv'
<1>. DEFINE new == [Idle EXCEPT !.pc = "invalid", !.now = clock]
<1>1. clock \in Instants
  BY InstantType DEF EvidenceInv, EvidenceTypeOK
<1>2. new \in Jobs /\ new.pc = "invalid"
  BY <1>1, IdleType DEF Jobs, Pcs
<1>3. /\ UNCHANGED <<supervisorVars, clock, source, announced>>
      /\ Begins(t) /\ job' = [job EXCEPT ![t] = new]
  BY DEF ApplyGarbage
<1> HIDE DEF new
<1> QED BY <1>2, <1>3, BeginsKeeps

LEMMA PlatformKeeps ==
  ASSUME EvidenceInv, NEW t \in Threads, NEW i \in Instants, PlatformEvent(t, i)
  PROVE  EvidenceInv'
<1>. DEFINE e == [source EXCEPT !.at = i, !.suspended = TRUE]
            new == [pc |-> Classified(e), ev |-> e, now |-> i]
<1>1. e \in Evidence
  BY DEF EvidenceInv, EvidenceTypeOK, Evidence
<1>2. /\ UNCHANGED <<supervisorVars, clock, source, announced>>
      /\ Begins(t) /\ job' = [job EXCEPT ![t] = new]
  BY DEF PlatformEvent
<1> HIDE DEF e
<1>3. new \in Jobs /\ (new.pc \in {"invalid", "pending"} \/ (new.pc = "publish" /\ ~Negative(new.ev)))
  BY <1>1, ClassifiedType
<1> HIDE DEF new
<1> QED BY <1>2, <1>3, BeginsKeeps

\* A thread whose job only changes its place, or the time it read.
LEMMA MovedType ==
  ASSUME EvidenceTypeOK, NEW t \in Threads, NEW pc \in Pcs, NEW i \in Instants
  PROVE  /\ [job[t] EXCEPT !.pc = pc] \in Jobs
         /\ [job[t] EXCEPT !.pc = pc].pc = pc
         /\ [job[t] EXCEPT !.pc = pc].ev = job[t].ev
         /\ [job[t] EXCEPT !.pc = pc, !.now = i] \in Jobs
         /\ [job[t] EXCEPT !.pc = pc, !.now = i].pc = pc
         /\ [job[t] EXCEPT !.pc = pc, !.now = i].ev = job[t].ev
BY JobType DEF Jobs

\* The steps of one thread that touch neither the supervisor nor the source.
LEMMA QuietKeeps ==
  ASSUME EvidenceInv, NEW t \in Threads,
         \/ ReadFailureClock(t) \/ BeginRefresh(t) \/ ProvideSnapshot(t)
         \/ ProviderFails(t) \/ ReadClock(t)
  PROVE  EvidenceInv'
<1>0. EvidenceTypeOK /\ clock \in Instants /\ source \in Evidence /\ job \in [Threads -> Jobs]
  BY InstantType DEF EvidenceInv, EvidenceTypeOK, Jobs
<1>1. /\ UNCHANGED <<supervisorVars, clock, source, announced>>
      /\ events' \in 0..MaxEvents
  BY DEF ReadFailureClock, BeginRefresh, ProvideSnapshot, ProviderFails, ReadClock,
     EvidenceInv, EvidenceTypeOK
<1>2. CASE ReadFailureClock(t) \/ ProviderFails(t)
  <2>. DEFINE new == [job[t] EXCEPT !.pc = "invalid", !.now = clock]
  <2>0. "invalid" \in Pcs
    BY DEF Pcs
  <2>1. new \in Jobs /\ new.pc = "invalid"
    BY <1>0, <2>0, MovedType
  <2>2. job' = [job EXCEPT ![t] = new]
    BY <1>0, <1>2 DEF ReadFailureClock, ProviderFails
  <2> HIDE DEF new
  <2> QED BY <1>1, <2>1, <2>2, ThreadKeeps
<1>3. CASE BeginRefresh(t)
  <2>. DEFINE new == [job[t] EXCEPT !.pc = "provide"]
  <2>1. new \in Jobs /\ new.pc = "provide"
    BY <1>0, MovedType DEF Pcs
  <2>2. job' = [job EXCEPT ![t] = new]
    BY <1>0, <1>3 DEF BeginRefresh, Goto
  <2> HIDE DEF new
  <2> QED BY <1>1, <2>1, <2>2, ThreadKeeps
<1>4. CASE ProvideSnapshot(t)
  <2>. DEFINE new == [job[t] EXCEPT !.pc = "clock", !.ev = source]
  <2>1. new \in Jobs /\ new.pc = "clock" /\ new.ev = source
    BY <1>0, JobType DEF Jobs, Pcs
  <2>2. job' = [job EXCEPT ![t] = new]
    BY <1>0, <1>4 DEF ProvideSnapshot
  <2>3. new.ev.at <= source.at
    BY <1>0, <2>1, EvidenceType
  <2> HIDE DEF new
  <2> QED BY <1>1, <2>1, <2>2, <2>3, ThreadKeeps
<1>5. CASE ReadClock(t)
  <2>. DEFINE new == [job[t] EXCEPT !.pc = "judge", !.now = clock]
  <2>0. "judge" \in Pcs
    BY DEF Pcs
  <2>1. new \in Jobs /\ new.pc = "judge" /\ new.ev = job[t].ev
    <3>1. job[t] \in Jobs
      BY <1>0
    <3> QED BY <1>0, <2>0, <3>1 DEF Jobs
  <2>2. job' = [job EXCEPT ![t] = new]
    BY <1>0, <1>5 DEF ReadClock
  <2>3. job[t].ev.at <= source.at
    BY <1>5 DEF ReadClock, At, EvidenceInv, SourceIsNewest
  <2> HIDE DEF new
  <2> QED BY <1>1, <2>1, <2>2, <2>3, ThreadKeeps
<1> QED BY <1>2, <1>3, <1>4, <1>5

\* A thread's step that attempts an interruption.
LEMMA InterruptKeeps ==
  ASSUME EvidenceInv, NEW t \in Threads, NEW i \in Instants, NEW raised \in BOOLEAN,
         InterruptAt(i, raised), UNCHANGED <<clock, source, events, announced>>,
         NEW new \in Jobs, job' = [job EXCEPT ![t] = new],
         new.pc \notin {"clock", "judge"},
         new.pc \in {"publish", "failure"} /\ Negative(new.ev) => new.ev.at = i
  PROVE  EvidenceInv'
<1>1. /\ [Step]_supervisorVars
      /\ Covers(interruptedMonotonic', i)
      /\ \A k \in Int : Covers(interruptedMonotonic, k) => Covers(interruptedMonotonic', k)
      /\ UNCHANGED lastObservedMonotonic
  BY InterruptCovers DEF EvidenceInv
<1>2. /\ clock' \in 0..MaxClock /\ events' \in 0..MaxEvents /\ announced' \in BOOLEAN
      /\ source' \in Evidence /\ source.at <= source'.at
  BY EvidenceType DEF EvidenceInv, EvidenceTypeOK
<1>3. lastObservedMonotonic' # NoTime => lastObservedMonotonic' <= source'.at
  BY <1>1 DEF EvidenceInv, SourceIsNewest
<1>4. announced' => Covers(interruptedMonotonic', source'.at)
  <2>1. source.at \in Int
    BY EvidenceType DEF EvidenceInv, EvidenceTypeOK
  <2>2. announced => Covers(interruptedMonotonic, source.at)
    BY DEF EvidenceInv, AnnouncedIsCovered
  <2> QED BY <1>1, <2>1, <2>2
<1> QED BY <1>1, <1>2, <1>3, <1>4, StepKeeps

LEMMA InterruptAndReturnKeeps ==
  ASSUME EvidenceInv, NEW t \in Threads, InterruptAndReturn(t)
  PROVE  EvidenceInv'
<1>1. PICK raised \in BOOLEAN : InterruptAt(job[t].now, raised)
  BY DEF InterruptAndReturn
<1>2. job[t].now \in Instants
  BY JobType DEF EvidenceInv
<1>3. Idle \in Jobs /\ Idle.pc = "idle" /\ job' = [job EXCEPT ![t] = Idle]
  BY IdleType DEF InterruptAndReturn, Return
<1>4. UNCHANGED <<clock, source, events, announced>>
  BY DEF InterruptAndReturn
<1> QED BY <1>1, <1>2, <1>3, <1>4, InterruptKeeps

\* An announcement that raises finds a later interruption already recorded.
LEMMA AnnounceKeeps ==
  ASSUME EvidenceInv, NEW t \in Threads, AnnounceNegative(t)
  PROVE  EvidenceInv'
<1>1. PICK raised \in BOOLEAN :
        /\ InterruptAt(job[t].ev.at, raised)
        /\ Goto(t, IF raised THEN "failure" ELSE "publish")
  BY DEF AnnounceNegative
<1>. DEFINE pc == IF raised THEN "failure" ELSE "publish"
            new == [job[t] EXCEPT !.pc = pc]
<1>2. EvidenceTypeOK /\ job \in [Threads -> Jobs]
  BY DEF EvidenceInv, EvidenceTypeOK, Jobs
<1>3. pc \in {"failure", "publish"} /\ pc \in Pcs
  BY DEF Pcs
<1>4. job[t].ev \in Evidence /\ job[t].ev.at \in Instants
  BY <1>2, JobType, EvidenceType
<1>5. job' = [job EXCEPT ![t] = new]
  BY <1>1, <1>2 DEF Goto
<1> HIDE DEF pc
<1>6. new \in Jobs /\ new.pc = pc /\ new.ev = job[t].ev
  BY <1>2, <1>3, <1>4, MovedType
<1>7. UNCHANGED <<clock, source, events, announced>>
  BY DEF AnnounceNegative
<1>8. new.pc \notin {"clock", "judge"} /\ new.ev.at = job[t].ev.at
  BY <1>3, <1>6
<1> HIDE DEF new
<1> QED BY <1>1, <1>4, <1>5, <1>6, <1>7, <1>8, InterruptKeeps

\* The source only takes newer evidence; negative evidence it takes was announced.
LEMMA PublishKeeps ==
  ASSUME EvidenceInv, NEW t \in Threads, Publish(t)
  PROVE  EvidenceInv'
<1>0. EvidenceTypeOK /\ job \in [Threads -> Jobs] /\ source \in Evidence
        /\ job[t].ev \in Evidence /\ job[t].pc = "publish" /\ source.at \in Int
        /\ job[t].ev.at \in Int /\ 0 \in Instants
  BY JobType, EvidenceType, InstantType DEF EvidenceInv, EvidenceTypeOK, Jobs, Publish, At
<1>1. Negative(job[t].ev) => Covers(interruptedMonotonic, job[t].ev.at)
  BY <1>0 DEF EvidenceInv, AnnouncedIsCovered
<1>2. CASE PublishRaises(job[t].ev)
  <2>. DEFINE new == [job[t] EXCEPT !.pc = "failure"]
  <2>1. new \in Jobs /\ new.pc = "failure" /\ new.ev = job[t].ev
    BY <1>0, MovedType DEF Pcs
  <2>2. job' = [job EXCEPT ![t] = new]
    BY <1>0, <1>2 DEF Publish, Goto
  <2>3. UNCHANGED <<supervisorVars, clock, source, announced>> /\ events' \in 0..MaxEvents
    BY <1>0, <1>2 DEF Publish, EvidenceTypeOK
  <2> HIDE DEF new
  <2> QED BY <1>1, <2>1, <2>2, <2>3, ThreadKeeps
<1>3. CASE ~PublishRaises(job[t].ev)
  <2>. DEFINE new == [job[t] EXCEPT !.pc = "provide"]
  <2>1. new \in Jobs /\ new.pc = "provide"
    BY <1>0, MovedType DEF Pcs
  <2>2. job' = [job EXCEPT ![t] = new]
    BY <1>0, <1>3 DEF Publish, Goto
  <2>3. /\ source' = job[t].ev /\ source.at <= job[t].ev.at
        /\ announced' = IF job[t].ev = source THEN announced ELSE Negative(job[t].ev)
        /\ UNCHANGED <<supervisorVars, clock, events>>
    BY <1>0, <1>3 DEF Publish, PublishRaises
  <2>4. announced' \in BOOLEAN
    BY <2>3, <1>0 DEF EvidenceTypeOK, Negative, Evidence
  <2>5. interruptedMonotonic' = interruptedMonotonic /\ lastObservedMonotonic' = lastObservedMonotonic
    BY <2>3 DEF supervisorVars, interruption, observation
  <2>6. announced' => Covers(interruptedMonotonic', source'.at)
    BY <2>3, <2>5, <1>1 DEF EvidenceInv, AnnouncedIsCovered
  <2>7. lastObservedMonotonic' # NoTime => lastObservedMonotonic' <= source'.at
    <3>1. lastObservedMonotonic \in Times
      BY <1>0 DEF EvidenceTypeOK, SupervisorTypeOK
    <3>2. lastObservedMonotonic # NoTime => lastObservedMonotonic <= source.at
      BY DEF EvidenceInv, SourceIsNewest
    <3> QED BY <3>1, <3>2, <2>3, <2>5, <1>0 DEF Times
  <2>8. clock' \in 0..MaxClock /\ events' \in 0..MaxEvents
    BY <2>3, <1>0 DEF EvidenceTypeOK
  <2>9. \A k \in Int : Covers(interruptedMonotonic, k) => Covers(interruptedMonotonic', k)
    BY <2>5
  <2>10. source' \in Evidence /\ source.at <= source'.at /\ [Step]_supervisorVars
    BY <2>3, <1>0
  <2> HIDE DEF new
  <2> QED BY <2>1, <2>2, <2>4, <2>6, <2>7, <2>8, <2>9, <2>10, StepKeeps
<1> QED BY <1>2, <1>3

LEMMA TransitionKeeps ==
  ASSUME EvidenceInv, NEW t \in Threads, NEW suspended \in BOOLEAN, NEW i \in Instants,
         TransitionRuntimeMode(t, suspended, i)
  PROVE  EvidenceInv'
<1>. DEFINE new == [job[t] EXCEPT !.pc = "provide"]
<1>0. EvidenceTypeOK /\ job \in [Threads -> Jobs] /\ source \in Evidence /\ source.at \in Int
        /\ i \in Int
  BY EvidenceType, InstantType DEF EvidenceInv, EvidenceTypeOK, Jobs
<1>1. new \in Jobs /\ new.pc = "provide"
  BY <1>0, MovedType DEF Pcs
<1>2. job' = [job EXCEPT ![t] = new]
  BY <1>0 DEF TransitionRuntimeMode, Goto
<1>3. /\ source' = [source EXCEPT !.at = i, !.suspended = suspended] /\ source.at < i
      /\ announced' = FALSE /\ UNCHANGED <<supervisorVars, clock>>
  BY DEF TransitionRuntimeMode
<1>4. source' \in Evidence /\ source'.at = i /\ source.at <= source'.at
  <2>1. source' = [source EXCEPT !.at = i, !.suspended = suspended] /\ source.at < i
    BY <1>3
  <2>2. source' \in Evidence /\ source'.at = i
    BY <1>0, <2>1 DEF Evidence
  <2> QED BY <1>0, <2>1, <2>2
<1>5. interruptedMonotonic' = interruptedMonotonic /\ lastObservedMonotonic' = lastObservedMonotonic
  BY <1>3 DEF supervisorVars, interruption, observation
<1>6. lastObservedMonotonic' # NoTime => lastObservedMonotonic' <= source'.at
  <2>1. lastObservedMonotonic \in Times
    BY <1>0 DEF EvidenceTypeOK, SupervisorTypeOK
  <2>2. lastObservedMonotonic # NoTime => lastObservedMonotonic <= source.at
    BY DEF EvidenceInv, SourceIsNewest
  <2> QED BY <2>1, <2>2, <1>4, <1>5, <1>0 DEF Times
<1>7. clock' \in 0..MaxClock /\ events' \in 0..MaxEvents
  BY <1>0, <1>3, InstantsAssumption DEF EvidenceTypeOK, TransitionRuntimeMode, Begins
<1>8. \A k \in Int : Covers(interruptedMonotonic, k) => Covers(interruptedMonotonic', k)
  BY <1>5
<1>9. announced' \in BOOLEAN /\ ~announced' /\ [Step]_supervisorVars
  BY <1>3
<1> HIDE DEF new
<1> QED BY <1>1, <1>2, <1>4, <1>6, <1>7, <1>8, <1>9, StepKeeps

\* What is judged is no newer than the source, and neither is the baseline it leaves.
LEMMA JudgeKeeps ==
  ASSUME EvidenceInv, NEW t \in Threads, Judge(t)
  PROVE  EvidenceInv'
<1>. DEFINE e == job[t].ev
<1>0. EvidenceTypeOK /\ e \in Evidence /\ e.at \in Instants /\ e.at \in Int
        /\ job[t].now \in Instants /\ e.says \in Reports
        /\ source \in Evidence /\ source.at \in Int
  BY JobType, EvidenceType DEF EvidenceInv, EvidenceTypeOK
<1>1. Idle \in Jobs /\ Idle.pc = "idle" /\ job' = [job EXCEPT ![t] = Idle]
  BY IdleType DEF Judge, Return
<1>2. UNCHANGED <<clock, source, events, announced>>
  BY DEF Judge
<1>3. CASE e.suspended \/ Unreadable(e)
  <2>1. PICK raised \in BOOLEAN : InterruptAt(job[t].now, raised)
    BY <1>3 DEF Judge
  <2> QED BY <1>0, <1>1, <1>2, <2>1, InterruptKeeps
<1>4. CASE ~(e.suspended \/ Unreadable(e))
  <2>1. Validate(e.says, StampAt(e.at), StampAt(job[t].now))
    BY <1>4 DEF Judge
  <2>2. e.says \in Findings
    BY <1>0, <1>4, ReportsAssumption DEF Unreadable
  <2>3. /\ Step /\ UNCHANGED interruption
        /\ lastObservedMonotonic' \in {lastObservedMonotonic, e.at}
    BY <1>0, <2>1, <2>2, ValidateObserves DEF EvidenceInv
  <2>4. e.at <= source.at
    BY DEF Judge, At, EvidenceInv, SourceIsNewest
  <2>5. lastObservedMonotonic' # NoTime => lastObservedMonotonic' <= source'.at
    BY <1>2, <2>3, <2>4 DEF EvidenceInv, SourceIsNewest
  <2>6. announced' => Covers(interruptedMonotonic', source'.at)
    BY <1>2, <2>3 DEF interruption, EvidenceInv, AnnouncedIsCovered
  <2>7. \A k \in Int : Covers(interruptedMonotonic, k) => Covers(interruptedMonotonic', k)
    BY <2>3 DEF interruption
  <2>8. /\ clock' \in 0..MaxClock /\ events' \in 0..MaxEvents /\ announced' \in BOOLEAN
        /\ source' \in Evidence /\ source.at <= source'.at
    BY <1>0, <1>2 DEF EvidenceTypeOK
  <2> QED BY <1>1, <2>3, <2>5, <2>6, <2>7, <2>8, StepKeeps
<1> QED BY <1>3, <1>4

\* A step that changes neither the threads nor the source.
LEMMA AroundKeeps ==
  ASSUME EvidenceInv, [Step]_supervisorVars, UNCHANGED <<source, job, announced>>,
         interruptedMonotonic' = interruptedMonotonic,
         lastObservedMonotonic' = lastObservedMonotonic,
         clock' \in 0..MaxClock, events' \in 0..MaxEvents
  PROVE  EvidenceInv'
<1>1. Inv'
  BY StepInv, StutterInv DEF EvidenceInv
<1>2. EvidenceTypeOK'
  BY <1>1 DEF EvidenceInv, EvidenceTypeOK, Inv
<1>3. AnnouncedIsCovered' /\ SourceIsNewest'
  BY DEF EvidenceInv, AnnouncedIsCovered, SourceIsNewest
<1> QED BY <1>1, <1>2, <1>3 DEF EvidenceInv

LEMMA QueryIsStep ==
  ASSUME EvidenceInv, Query
  PROVE  Step /\ UNCHANGED <<interruption, observation, evidenceVars>>
<1>1. clock \in Instants
  BY InstantType DEF EvidenceInv, EvidenceTypeOK
<1>2. WallOf[clock] \in Times /\ clock \in Times
  BY <1>1, InstantsAssumption, InstantType DEF Times
<1>3. Status(WallOf[clock], clock) /\ UNCHANGED evidenceVars
  BY DEF Query
<1> QED BY <1>2, <1>3 DEF Step, Status

LEMMA QueryKeeps == ASSUME EvidenceInv, Query PROVE EvidenceInv'
<1>1. Step /\ UNCHANGED <<interruption, observation, evidenceVars>>
  BY QueryIsStep
<1>2. UNCHANGED <<source, job, announced>> /\ clock' \in 0..MaxClock /\ events' \in 0..MaxEvents
  BY <1>1 DEF evidenceVars, EvidenceInv, EvidenceTypeOK
<1> QED BY <1>1, <1>2, AroundKeeps DEF interruption, observation

LEMMA TickKeeps == ASSUME EvidenceInv, Tick PROVE EvidenceInv'
<1>1. clock' \in 0..MaxClock /\ events' \in 0..MaxEvents
  BY InstantsAssumption DEF Tick, EvidenceInv, EvidenceTypeOK
<1>2. UNCHANGED <<source, job, announced, supervisorVars>>
  BY DEF Tick
<1> QED BY <1>1, <1>2, AroundKeeps DEF supervisorVars, interruption, observation

LEMMA EvidenceInvNext == EvidenceInv /\ [EvidenceNext]_allVars => EvidenceInv'
<1> SUFFICES ASSUME EvidenceInv, [EvidenceNext]_allVars PROVE EvidenceInv'
  OBVIOUS
<1>1. ASSUME NEW t \in Threads, ThreadStep(t) PROVE EvidenceInv'
  BY <1>1, InterruptAndReturnKeeps, AnnounceKeeps, PublishKeeps, QuietKeeps, JudgeKeeps
  DEF ThreadStep
<1>2. ASSUME NEW t \in Threads, Event(t) PROVE EvidenceInv'
  BY <1>2, ApplyKeeps, GarbageKeeps, PlatformKeeps, TransitionKeeps DEF Event
<1>3. ASSUME NEW t \in Threads, BeginRefresh(t) \/ ProviderFails(t) PROVE EvidenceInv'
  BY <1>3, QuietKeeps
<1>4. CASE Query \/ Tick
  BY <1>4, QueryKeeps, TickKeeps
<1>5. CASE UNCHANGED allVars
  <2>1. UNCHANGED <<source, job, announced, clock, events, supervisorVars>>
    BY <1>5 DEF allVars, evidenceVars
  <2>2. clock' \in 0..MaxClock /\ events' \in 0..MaxEvents
    BY <2>1 DEF EvidenceInv, EvidenceTypeOK
  <2> QED BY <2>1, <2>2, AroundKeeps DEF supervisorVars, interruption, observation
<1> QED BY <1>1, <1>2, <1>3, <1>4, <1>5 DEF EvidenceNext

LEMMA EvidenceInvariant == EvidenceSpec => []EvidenceInv
BY EvidenceInvInit, EvidenceInvNext, PTL DEF EvidenceSpec

-----------------------------------------------------------------------------
(* Theorems *)

\* The source, the supervisor and every thread's work keep their types.
THEOREM EvidenceTypeCorrect == EvidenceSpec => []EvidenceTypeOK
<1>1. EvidenceInv => EvidenceTypeOK
  BY DEF EvidenceInv
<1> QED BY <1>1, EvidenceInvariant, PTL

\* While ACTIVE, what was judged last is newer than the interruption.
LEMMA ActiveIsNewer ==
  ASSUME EvidenceInv, state = ACTIVE, NEW i \in Int, Covers(interruptedMonotonic, i)
  PROVE  lastObservedMonotonic # NoTime /\ lastObservedMonotonic > i
<1>1. interruptedMonotonic \in Times /\ lastObservedMonotonic \in Times
  BY DEF EvidenceInv, Inv, SupervisorTypeOK
<1>2. Exceeds(lastObservedMonotonic, interruptedMonotonic)
  BY DEF Covers, EvidenceInv, Inv, ActiveOutlivesInterruption
<1> QED BY <1>1, <1>2 DEF Covers, Exceeds, Times

\* However many threads poll, and whenever they took their snapshots: while the source
\* holds negative evidence that was announced, automation is off.
THEOREM AnnouncedSourceStaysNegative == EvidenceSpec => []NegativeSourceIsNeverActive
<1>1. EvidenceInv => NegativeSourceIsNeverActive
  <2> SUFFICES ASSUME EvidenceInv, announced, state = ACTIVE PROVE FALSE
    BY DEF NegativeSourceIsNeverActive
  <2>1. source.at \in Int
    BY EvidenceType DEF EvidenceInv, EvidenceTypeOK
  <2>2. Covers(interruptedMonotonic, source.at)
    BY DEF EvidenceInv, AnnouncedIsCovered
  <2>3. lastObservedMonotonic # NoTime /\ lastObservedMonotonic > source.at
    BY <2>1, <2>2, ActiveIsNewer
  <2>4. lastObservedMonotonic <= source.at /\ lastObservedMonotonic \in Int
    BY <2>3 DEF EvidenceInv, SourceIsNewest, Inv, SupervisorTypeOK, Times
  <2> QED BY <2>1, <2>3, <2>4
<1> QED BY <1>1, EvidenceInvariant, PTL

\* From its announcement until it is published or its failure dealt with, a negative
\* event keeps automation off, unless newer evidence turned it on.
THEOREM NegativeEventHolds == EvidenceSpec => []NegativeEventHoldsAutomation
<1>1. EvidenceInv => NegativeEventHoldsAutomation
  <2> SUFFICES ASSUME EvidenceInv, NEW t \in Threads, job[t].pc \in {"publish", "failure"},
                      Negative(job[t].ev), state = ACTIVE
               PROVE  lastObservedMonotonic > job[t].ev.at
    BY DEF NegativeEventHoldsAutomation
  <2>1. job[t].ev.at \in Int
    BY JobType, EvidenceType DEF EvidenceInv
  <2>2. Covers(interruptedMonotonic, job[t].ev.at)
    BY DEF EvidenceInv, AnnouncedIsCovered
  <2> QED BY <2>1, <2>2, ActiveIsNewer
<1> QED BY <1>1, EvidenceInvariant, PTL

\* Every thread's step is one of the supervisor's methods, or none of them.
LEMMA EvidenceNextIsStep ==
  ASSUME EvidenceInv, [EvidenceNext]_allVars
  PROVE  [Step]_supervisorVars
<1>1. ASSUME NEW t \in Threads, ThreadStep(t) PROVE [Step]_supervisorVars
  <2>0. EvidenceTypeOK /\ Inv /\ job[t].now \in Instants /\ job[t].ev \in Evidence
          /\ job[t].ev.at \in Instants /\ job[t].ev.says \in Reports
    BY JobType, EvidenceType DEF EvidenceInv
  <2>1. CASE InterruptAndReturn(t)
    BY <2>0, <2>1, InterruptCovers DEF InterruptAndReturn
  <2>2. CASE AnnounceNegative(t)
    BY <2>0, <2>2, InterruptCovers DEF AnnounceNegative
  <2>3. CASE Judge(t)
    <3>1. CASE job[t].ev.suspended \/ Unreadable(job[t].ev)
      BY <2>0, <2>3, <3>1, InterruptCovers DEF Judge
    <3>2. CASE ~(job[t].ev.suspended \/ Unreadable(job[t].ev))
      <4>1. job[t].ev.says \in Findings
        BY <2>0, <3>2, ReportsAssumption DEF Unreadable
      <4> QED BY <2>0, <2>3, <3>2, <4>1, ValidateObserves DEF Judge
    <3> QED BY <3>1, <3>2
  <2>4. CASE Publish(t) \/ ReadFailureClock(t) \/ ProvideSnapshot(t) \/ ReadClock(t)
    BY <2>4 DEF Publish, ReadFailureClock, ProvideSnapshot, ReadClock
  <2> QED BY <1>1, <2>1, <2>2, <2>3, <2>4 DEF ThreadStep
<1>2. ASSUME NEW t \in Threads, Event(t) \/ BeginRefresh(t) \/ ProviderFails(t)
      PROVE  [Step]_supervisorVars
  BY <1>2 DEF Event, ApplyEvidence, ApplyGarbage, PlatformEvent, TransitionRuntimeMode,
     BeginRefresh, ProviderFails
<1>3. CASE Query
  BY <1>3, QueryIsStep
<1>4. CASE Tick \/ UNCHANGED allVars
  BY <1>4 DEF Tick, allVars
<1> QED BY <1>1, <1>2, <1>3, <1>4 DEF EvidenceNext

\* Under the callback and poll threads the supervisor still implements AutomationPermit:
\* no interleaving of announcements, publications and refreshes grants automation over
\* something owed, or lets an epoch outlive its stretch of permission.
THEOREM EvidenceKeepsThePermit == EvidenceSpec => PermitSpec
<1>1. EvidenceInit => Permit!Init
  BY DEF EvidenceInit, SupervisorInit, Permit!Init, ACTIVE, PAUSED
<1>2. EvidenceInv /\ [EvidenceNext]_allVars => [Permit!Next]_(Permit!vars)
  <2>1. UNCHANGED supervisorVars => UNCHANGED Permit!vars
    BY DEF supervisorVars, unresolved, Permit!vars
  <2> QED BY <2>1, EvidenceNextIsStep, StepKeepsPermit DEF EvidenceInv
<1> QED BY <1>1, <1>2, EvidenceInvariant, PTL DEF EvidenceSpec, PermitSpec, Permit!Spec

=============================================================================
