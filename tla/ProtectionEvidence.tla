-------------------------- MODULE ProtectionEvidence --------------------------
(***************************************************************************)
(* How evidence reaches the protection supervisor: the evidence source     *)
(* (one lock-protected value), the coordinator that polls it, the event    *)
(* dispatcher that announces negative evidence before publishing it, and   *)
(* the adapter for platform audio events.  They run on callback and poll   *)
(* threads; only the supervisor and the source take locks, so every call   *)
(* into one of them, and every clock reading, is a step of its own.        *)
(*                                                                         *)
(* Time is an instant of the monotonic clock.  WallOf gives the wall clock *)
(* at each instant and may go backwards.                                   *)
(***************************************************************************)
EXTENDS ProtectionSupervisor

CONSTANTS
  Threads,     \* threads that call into the protection code
  MaxClock,    \* bound: the last instant
  Lead,        \* how far ahead of the clock a native capture time may be
  WallOf,      \* the wall clock at every instant
  Reports,     \* what evidence may say
  MaxEvents    \* bound: how many events are applied

VARIABLES
  clock,       \* the monotonic clock
  source,      \* ProtectionEvidenceSource._evidence
  job,         \* what each thread is doing
  events,      \* events begun so far
  announced    \* history: source was announced by an interruption before publication

evidenceVars == <<clock, source, job, events, announced>>
allVars == <<supervisorVars, evidenceVars>>

Instants == 0..(MaxClock + Lead)

ASSUME InstantsAssumption ==
  /\ MaxClock \in Nat /\ Lead \in Nat /\ MaxEvents \in Nat
  /\ WallOf \in [Instants -> Int]

ASSUME ReportsAssumption ==
  /\ "ELIGIBLE" \in Reports
  /\ Reports \subseteq Findings \cup {"MALFORMED", "CONTRADICTORY"}

StampAt(i) == [wall |-> WallOf[i], mono |-> i]

(***************************************************************************)
(* A report is a finding of validate, or MALFORMED (a prerequisite is not  *)
(* a boolean), or CONTRADICTORY (a prerequisite fails and the path         *)
(* assessment is inconsistent as well).  suspended stands for a runtime    *)
(* mode that is not eligible for protection.                               *)
(***************************************************************************)
Evidence == [at : Instants, says : Reports, suspended : BOOLEAN]

Negative(e) == e.suspended \/ e.says # "ELIGIBLE"

Unreadable(e) == e.says \in {"MALFORMED", "CONTRADICTORY"}

Pcs == {"idle", "invalid", "pending", "publish", "failure", "provide", "clock", "judge"}

Idle == [pc |-> "idle", ev |-> [at |-> 0, says |-> "ELIGIBLE", suspended |-> FALSE], now |-> 0]

EvidenceTypeOK ==
  /\ SupervisorTypeOK
  /\ clock \in 0..MaxClock
  /\ source \in Evidence
  /\ job \in [Threads -> [pc : Pcs, ev : Evidence, now : Instants]]
  /\ events \in 0..MaxEvents
  /\ announced \in BOOLEAN

EvidenceInit ==
  /\ SupervisorInit
  /\ clock = 0
  /\ source = [at |-> 0, says |-> "ELIGIBLE", suspended |-> FALSE]
  /\ job = [t \in Threads |-> Idle]
  /\ events = 0
  /\ announced = FALSE

-----------------------------------------------------------------------------
(* Helpers *)

At(t, pc) == job[t].pc = pc

Goto(t, pc) == job' = [job EXCEPT ![t].pc = pc]

Return(t) == job' = [job EXCEPT ![t] = Idle]

\* An event begins to be handled by an idle thread.
Begins(t) ==
  /\ At(t, "idle")
  /\ events < MaxEvents   \* bound
  /\ events' = events + 1

\* The supervisor records an interruption at instant i, or raises; `raised`
\* says which.
InterruptAt(i, raised) ==
  IF InterruptRaises(StampAt(i))
    THEN raised = TRUE /\ UNCHANGED supervisorVars
    ELSE raised = FALSE /\ InterruptKnown(StampAt(i))

-----------------------------------------------------------------------------
(* ProtectionEvidenceEventDispatcher.apply *)

\* Faulty variant: a suspended runtime mode alone is not negative.
ClassifiedByReport(e) ==
  CASE e.says = "MALFORMED" -> "invalid"
    [] e.says # "ELIGIBLE" -> "pending"
    [] OTHER -> "publish"

\* How apply goes on: the evidence is malformed, negative, or neither.
Classified(e) ==
  CASE e.says = "MALFORMED" -> "invalid"
    [] Negative(e) -> "pending"
    [] OTHER -> "publish"

\* apply of evidence.  Malformed evidence is interrupted for with its own capture
\* time.
ApplyEvidence(t, e) ==
  /\ Begins(t)
  /\ e.at \in Nat /\ e.at <= clock + Lead
  /\ job' = [job EXCEPT ![t] = [pc |-> Classified(e), ev |-> e, now |-> e.at]]
  /\ UNCHANGED <<supervisorVars, clock, source, announced>>

\* apply of something that is not evidence, or whose capture times are not
\* finite numbers: the dispatcher's own clocks date the interruption.
ApplyGarbage(t) ==
  /\ Begins(t)
  /\ job' = [job EXCEPT ![t] = [Idle EXCEPT !.pc = "invalid", !.now = clock]]
  /\ UNCHANGED <<supervisorVars, clock, source, announced>>

\* ProtectionPlatformEventAdapter.apply: any audio interruption, route or focus
\* event suspends what the source holds, with the capture time of the event.
PlatformEvent(t, i) ==
  /\ Begins(t)
  /\ i <= clock + Lead
  /\ LET suspended == [source EXCEPT !.at = i, !.suspended = TRUE]
     IN  job' = [job EXCEPT ![t] = [pc |-> Classified(suspended), ev |-> suspended, now |-> i]]
  /\ UNCHANGED <<supervisorVars, clock, source, announced>>

\* EVIDENCE_EVENT_INVALID, EVIDENCE_PUBLICATION_FAILURE, EVIDENCE_PROVIDER_FAILURE
\* and EVIDENCE_PROVIDER_INVALID: interrupt and return; when interrupt raises, so
\* does the call.
InterruptAndReturn(t) ==
  /\ At(t, "invalid")
  /\ \E raised \in BOOLEAN : InterruptAt(job[t].now, raised)
  /\ Return(t)
  /\ UNCHANGED <<clock, source, events, announced>>

\* EVIDENCE_UPDATE_PENDING: negative evidence interrupts before it is published.
AnnounceNegative(t) ==
  /\ At(t, "pending")
  /\ \E raised \in BOOLEAN :
       /\ InterruptAt(job[t].ev.at, raised)
       /\ Goto(t, IF raised THEN "failure" ELSE "publish")
  /\ UNCHANGED <<clock, source, events, announced>>

\* ProtectionEvidenceSource.publish raises for older evidence, and for changed
\* evidence with the same capture time.
PublishRaises(e) == e.at < source.at \/ (e.at = source.at /\ e # source)

Publish(t) ==
  /\ At(t, "publish")
  /\ IF PublishRaises(job[t].ev)
       THEN /\ Goto(t, "failure")
            /\ UNCHANGED <<source, announced>>
       ELSE /\ Goto(t, "provide")
            /\ source' = job[t].ev
            /\ announced' = IF job[t].ev = source THEN announced ELSE Negative(job[t].ev)
  /\ UNCHANGED <<supervisorVars, clock, events>>

\* The announcement or the publication raised: read the clocks, then interrupt.
ReadFailureClock(t) ==
  /\ At(t, "failure")
  /\ job' = [job EXCEPT ![t].pc = "invalid", ![t].now = clock]
  /\ UNCHANGED <<supervisorVars, clock, source, events, announced>>

-----------------------------------------------------------------------------
(* ProtectionEvidenceSource.transition_runtime_mode *)

\* The runtime mode changes on the source directly; the supervisor learns of it
\* from the refresh that follows.  A transition that raises changes nothing.
TransitionRuntimeMode(t, suspended, i) ==
  /\ Begins(t)
  /\ source.at < i /\ i <= clock + Lead
  /\ source' = [source EXCEPT !.at = i, !.suspended = suspended]
  /\ announced' = FALSE
  /\ Goto(t, "provide")
  /\ UNCHANGED <<supervisorVars, clock>>

-----------------------------------------------------------------------------
(* ProtectionEvidenceCoordinator.refresh *)

BeginRefresh(t) ==
  /\ At(t, "idle")
  /\ Goto(t, "provide")
  /\ UNCHANGED <<supervisorVars, clock, source, events, announced>>

\* The provider is the source's snapshot.
ProvideSnapshot(t) ==
  /\ At(t, "provide")
  /\ job' = [job EXCEPT ![t].pc = "clock", ![t].ev = source]
  /\ UNCHANGED <<supervisorVars, clock, source, events, announced>>

\* The provider raises or returns something that is not evidence.
ProviderFails(t) ==
  /\ At(t, "provide")
  /\ job' = [job EXCEPT ![t].pc = "invalid", ![t].now = clock]
  /\ UNCHANGED <<supervisorVars, clock, source, events, announced>>

ReadClock(t) ==
  /\ At(t, "clock")
  /\ job' = [job EXCEPT ![t].pc = "judge", ![t].now = clock]
  /\ UNCHANGED <<supervisorVars, clock, source, events, announced>>

\* RUNTIME_MODE_INELIGIBLE and EVIDENCE_VALIDATION_FAILURE interrupt with the
\* clocks just read; all other evidence is validated.
Judge(t) ==
  /\ At(t, "judge")
  /\ LET e == job[t].ev IN
       IF e.suspended \/ Unreadable(e)
         THEN \E raised \in BOOLEAN : InterruptAt(job[t].now, raised)
         ELSE Validate(e.says, StampAt(e.at), StampAt(job[t].now))
  /\ Return(t)
  /\ UNCHANGED <<clock, source, events, announced>>

-----------------------------------------------------------------------------
(* Readers of the supervisor, and time *)

\* Any caller of status or require_automation, with readings taken now.
Query ==
  /\ Status(WallOf[clock], clock)
  /\ UNCHANGED evidenceVars

Tick ==
  /\ clock < MaxClock   \* bound
  /\ clock' = clock + 1
  /\ UNCHANGED <<supervisorVars, source, job, events, announced>>

ThreadStep(t) ==
  \/ InterruptAndReturn(t)
  \/ AnnounceNegative(t)
  \/ Publish(t)
  \/ ReadFailureClock(t)
  \/ ProvideSnapshot(t)
  \/ ReadClock(t)
  \/ Judge(t)

Event(t) ==
  \/ \E e \in Evidence : ApplyEvidence(t, e)
  \/ ApplyGarbage(t)
  \/ \E i \in Instants : PlatformEvent(t, i)
  \/ \E suspended \in BOOLEAN, i \in Instants : TransitionRuntimeMode(t, suspended, i)

EvidenceNext ==
  \/ \E t \in Threads : ThreadStep(t) \/ Event(t) \/ BeginRefresh(t) \/ ProviderFails(t)
  \/ Query
  \/ Tick

EvidenceSpec == EvidenceInit /\ [][EvidenceNext]_allVars

(***************************************************************************)
(* Threads finish the calls they begin, and the embedding application      *)
(* keeps polling refresh.  Events, provider failures, queries and the      *)
(* passage of time are under no obligation.                                *)
(***************************************************************************)
Fairness ==
  \A t \in Threads : WF_allVars(ThreadStep(t)) /\ WF_allVars(BeginRefresh(t))

FairEvidenceSpec == EvidenceSpec /\ Fairness

-----------------------------------------------------------------------------
(* Properties *)

\* Once negative evidence that came through the dispatcher is what the source
\* holds, automation stays withdrawn: a refresh that took its snapshot earlier,
\* on any thread, cannot bring ACTIVE back (dispatcher apply, coordinator refresh).
NegativeSourceIsNeverActive == announced => state # ACTIVE

\* From its announcement until its publication has succeeded or its failure has
\* been dealt with, a negative event keeps automation off, except on evidence
\* captured after the event (dispatcher apply, both of its try blocks).
NegativeEventHoldsAutomation ==
  \A t \in Threads :
    /\ job[t].pc \in {"publish", "failure"}
    /\ Negative(job[t].ev)
    /\ state = ACTIVE
    => lastObservedMonotonic > job[t].ev.at

\* Evidence in the source that a validation made now would accept.
Acceptable ==
  /\ source.says = "ELIGIBLE" /\ ~source.suspended
  /\ ~FutureWall(StampAt(source.at), StampAt(clock))
  /\ ~FutureMonotonic(StampAt(source.at), StampAt(clock))
  /\ ~Stale(StampAt(source.at), StampAt(clock))
  /\ ~Superseded(StampAt(source.at))

\* When the source settles on acceptable evidence, polling turns automation on for
\* good: no leftover of an earlier race (a stale snapshot judged last, a boundary
\* left behind, a raised interruption) keeps the supervisor from ACTIVE.
AcceptableEvidenceActivates == <>[]Acceptable => <>[](state = ACTIVE)

\* tests/test_protection_evidence_source.py:93 is named "malformed event pauses
\* without publication": after apply has dealt with an event it cannot use,
\* automation is off.
MalformedEventPauses ==
  [][\A t \in Threads :
       At(t, "invalid") /\ job'[t].pc = "idle" => state' # ACTIVE]_allVars

=============================================================================
