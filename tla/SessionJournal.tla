---------------------------- MODULE SessionJournal ----------------------------
(***************************************************************************)
(* The private timeline of a session: a producer samples the supervisor's  *)
(* status, publishes the sample later, and a bounded journal keeps what    *)
(* was published.  Capture and publication are separate calls, so anything *)
(* may happen to the supervisor between them, a sample may be overwritten  *)
(* before it is published, and a publication may be refused.               *)
(*                                                                         *)
(* The application may also append events of its own (the user paused or   *)
(* resumed) and may start a producer again, in the same runtime or in a    *)
(* new one.  Reasons are wording: a reason that changed while the state    *)
(* did not is a free choice.  Callers pass a reading of the monotonic      *)
(* clock that may be old by the time they are served.                      *)
(***************************************************************************)
EXTENDS ProtectionSupervisor, Sequences

CONSTANTS
  Reports,      \* what evidence may say, some of the Findings
  MaxClock,     \* bound on the instants of the clock
  MaxSequence,  \* bound on the sequences of samples
  MaxEvents,    \* constructor argument max_events
  MaxRuntimes,  \* bound on runtimes
  NoSample      \* no sample awaits publication

ASSUME SessionBounds ==
  /\ MaxClock \in Nat /\ MaxSequence \in Nat /\ MaxRuntimes \in Nat
  /\ MaxEvents \in Nat \ {0}
  /\ Reports \subseteq Findings

VARIABLES
  clock,            \* the present instant
  sample,          \* _pending, the sample not yet published
  nextSequence,     \* _next_sequence
  lastCapture,      \* _last_capture
  runtime,          \* _runtime_id
  events,           \* _events
  observations,     \* _observations
  missing,          \* _missing_sequences
  discontinuities,  \* _runtime_discontinuities
  evicted,          \* _evicted_events
  pauseLatched,     \* _user_pause_latched
  activeSince       \* history: automation was allowed since the sample was taken

producerVars == <<sample, nextSequence, lastCapture, runtime>>
journalVars ==
  <<events, observations, missing, discontinuities, evicted, pauseLatched>>
sessionOwnVars == <<clock, producerVars, journalVars, activeSince>>
sessionVars == <<supervisorVars, sessionOwnVars>>

Instants == 0 .. MaxClock

Samples ==
  [sequence : 1 .. MaxSequence, observed : Instants, expires : Nat,
   state : ProtectionStates \ {ACTIVE}, generation : Nat]

\* by is the producer, or what the user did.
Events ==
  [sequence : 1 .. MaxSequence, runtime : 0 .. MaxRuntimes, observed : Instants,
   received : Instants, expires : Nat, state : ProtectionStates \ {ACTIVE},
   by : {"producer", "paused", "resumed"}]

SessionTypeOK ==
  /\ SupervisorTypeOK
  /\ clock \in Instants
  /\ sample \in Samples \cup {NoSample}
  /\ nextSequence \in 1 .. MaxSequence + 1
  /\ lastCapture \in Instants \cup {NoTime}
  /\ runtime \in 0 .. MaxRuntimes
  /\ Len(events) <= MaxEvents /\ \A i \in DOMAIN events : events[i] \in Events
  /\ observations \in 0 .. MaxSequence
  /\ missing \in 0 .. MaxSequence
  /\ discontinuities \in 0 .. MaxRuntimes
  /\ evicted \in 0 .. MaxSequence
  /\ pauseLatched \in BOOLEAN
  /\ activeSince \in BOOLEAN

SessionInit ==
  /\ SupervisorInit
  /\ clock = 0
  /\ sample = NoSample /\ nextSequence = 1 /\ lastCapture = NoTime /\ runtime = 0
  /\ events = <<>> /\ observations = 0 /\ missing = 0 /\ discontinuities = 0
  /\ evicted = 0 /\ pauseLatched = FALSE
  /\ activeSince = FALSE

Last == events[Len(events)]
LastSequence == IF events = <<>> THEN 0 ELSE Last.sequence

\* History: automation is allowed after this step, or was since the sample.
Remember == activeSince' = (activeSince \/ state' = ACTIVE)

-----------------------------------------------------------------------------
(* The supervisor and the clock *)

At(time) == [wall |-> time, mono |-> time]

Tick ==
  /\ clock < MaxClock
  /\ clock' = clock + 1
  /\ UNCHANGED <<supervisorVars, producerVars, journalVars, activeSince>>

\* Transactions with a name are left out: an effect without one shows as UNKNOWN too.
Supervise ==
  /\ \/ \E report \in Reports, observed \in 0 .. clock :
          Validate(report, At(observed), At(clock))
     \/ InterruptKnown(At(clock))
     \/ InterruptUnknown(At(clock), {})
  /\ Remember
  /\ UNCHANGED <<clock, producerVars, journalVars>>

-----------------------------------------------------------------------------
(* The journal *)

\* The sequences that were skipped before an event.
Gap(event) == event.sequence - LastSequence - 1

\* append accepts the event.
Appendable(event) ==
  /\ event.sequence > LastSequence
  /\ events # <<>> /\ event.runtime = Last.runtime =>
       event.received >= Last.received /\ event.observed >= Last.observed

Append1(event) ==
  LET kept == Append(events, event) IN
  /\ Appendable(event)
  /\ discontinuities' =
       IF events # <<>> /\ event.runtime # Last.runtime
         THEN discontinuities + 1 ELSE discontinuities
  /\ missing' = missing + Gap(event)
  /\ pauseLatched' = CASE event.by = "paused"  -> TRUE
                       [] event.by = "resumed" -> FALSE
                       [] OTHER                -> pauseLatched
  /\ observations' = observations + 1
  /\ events' = IF Len(kept) > MaxEvents THEN Tail(kept) ELSE kept
  /\ evicted' = IF Len(kept) > MaxEvents THEN evicted + 1 ELSE evicted

\* The application reports that the user paused or resumed.
UserEvent ==
  \E by \in {"paused", "resumed"}, sequence \in {LastSequence + 1, nextSequence} :
    /\ sequence <= MaxSequence   \* bound
    /\ Append1([sequence |-> sequence, runtime |-> runtime, observed |-> clock,
                received |-> clock, expires |-> clock + MaxEvidenceAge,
                state |-> PAUSED, by |-> by])
    /\ UNCHANGED <<supervisorVars, clock, producerVars, activeSince>>

-----------------------------------------------------------------------------
(* The producer *)

\* The supervisor's permission is software eligibility and is never reported.
Project(protection) == IF protection = ACTIVE THEN UNKNOWN ELSE protection

\* capture: sample the status; a sample not yet published is lost with its
\* sequence.
Capture(now) ==
  /\ nextSequence <= MaxSequence   \* bound
  /\ lastCapture # NoTime => now >= lastCapture
  /\ Status(NoTime, now)
  /\ sample' = [sequence |-> nextSequence, observed |-> now,
                 expires |-> now + MaxEvidenceAge, state |-> Project(state'),
                 generation |-> admissionGeneration']
  /\ nextSequence' = nextSequence + 1
  /\ lastCapture' = now
  /\ activeSince' = (state' = ACTIVE)
  /\ UNCHANGED <<clock, runtime, journalVars>>

\* Faulty variant: the state alone is compared.
UnchangedState == sample.state = Project(state')

\* The status at publication is the one that was sampled.
Unchanged ==
  /\ sample.state = Project(state')
  /\ sample.generation = admissionGeneration'

\* Faulty variant: a sample is valid from its publication on.
ExpiryFromReceipt(received) == received + MaxEvidenceAge

\* A published sample expires as it did when it was taken.
Expiry(received) == sample.expires

\* The event made of the sample; the reason may have changed too.
Publication(received, sameReason) ==
  [sequence |-> sample.sequence, runtime |-> runtime, observed |-> sample.observed,
   received |-> received, expires |-> Expiry(received),
   state |-> IF Unchanged /\ sameReason THEN sample.state ELSE UNKNOWN,
   by |-> "producer"]

\* publish; when the journal refuses the event the sample stays.
Publish(received) ==
  /\ sample # NoSample
  /\ received >= sample.observed
  /\ Status(NoTime, received)
  /\ \E sameReason \in BOOLEAN :
       LET event == Publication(received, sameReason) IN
       \/ /\ Append1(event)
          /\ sample' = NoSample
          /\ lastCapture' = received
       \/ /\ ~Appendable(event)
          /\ UNCHANGED <<sample, lastCapture, journalVars>>
  /\ Remember
  /\ UNCHANGED <<clock, nextSequence, runtime>>

\* A new producer on the same journal, in this runtime or the next.
NewProducer(id) ==
  /\ id <= MaxRuntimes   \* bound
  /\ runtime' = id
  /\ sample' = NoSample
  /\ nextSequence' = LastSequence + 1
  /\ lastCapture' = IF events # <<>> /\ Last.runtime = id THEN Last.received ELSE NoTime
  /\ UNCHANGED <<supervisorVars, clock, journalVars, activeSince>>

SessionNext ==
  \/ Tick
  \/ Supervise
  \/ UserEvent
  \/ \E now \in 0 .. clock : Capture(now) \/ Publish(now)
  \/ \E id \in {runtime, runtime + 1} : NewProducer(id)

SessionSpec == SessionInit /\ [][SessionNext]_sessionVars

-----------------------------------------------------------------------------
(* What the user is shown *)

\* current, asked now from the present runtime: the state shown, and whether it
\* is marked as an expired pause.
Current ==
  CASE events = <<>> \/ Last.runtime # runtime \/ clock < Last.received ->
         [state |-> UNKNOWN, expired |-> FALSE]
    [] OTHER ->
         IF clock > Last.expires
           THEN [state |-> IF pauseLatched /\ Last.state = PAUSED THEN PAUSED ELSE UNKNOWN,
                 expired |-> TRUE]
           ELSE [state |-> Last.state, expired |-> FALSE]

-----------------------------------------------------------------------------
(* Properties *)

\* An event that reports a paused, degraded or recovering state speaks for the
\* whole time from its observation to its receipt: automation was allowed at no
\* moment in between, also not when it was allowed and withdrawn again before the
\* sample was published (the comparison of state and generation in publish).
PublishedHeldThroughout ==
  [][events' # events /\ events'[Len(events')].by = "producer"
       /\ events'[Len(events')].state # UNKNOWN
     => ~activeSince']_sessionVars

\* A state shown as current was observed at most max_evidence_age ago, however
\* late the sample was published (the expiry taken at capture, and current).
CurrentIsRecent ==
  Current.state # UNKNOWN /\ ~Current.expired
    => clock - Last.observed <= MaxEvidenceAge

=============================================================================
