# Formal verification of Audio Bodyguard Alpha

This directory holds TLA+ models of the control plane of Audio Bodyguard Alpha, the
configurations that model-check them with TLC, and proofs that TLAPS checks.
Paths are relative to the repository; `control/`, `device_fabric/`,
`edge/` and `interface/` stand for the directories of that name in `src/`.

The program's rule is *AI proposes, policy authorizes, Physical Commit verifies*.
What makes it hard to get right is not the policy but its upkeep over time: a permission
that threads grant and withdraw, physical effects whose outcome is lost, and a
process that may die between any two writes.

## 1. Inventory

Each component with its state (S), its operations (O), its interactions (I), what makes
it hard (H) and what makes it correct (C).

### Protection supervisor: `control/protection_supervisor.py`
- S: a protection state (ACTIVE, DEGRADED, PAUSED, RECOVERY_REQUIRED,
  UNKNOWN_PHYSICAL_STATE), the last interruption, the last observation and the
  reactivation boundary (each on the wall and the monotonic clock), the unresolved
  transactions, a permanent latch for unnamed ones, the admission generation.
- O: `interrupt`, `require_revalidation`, `resolve_physical_transaction`, `validate`,
  `status`, `require_automation`, each under one re-entrant lock.
- I: called by the evidence coordinator and dispatcher, the bridge, the recovery
  coordinator, the checkpoint restorer and the session producer.
- H: two clocks, one of which may be set back and one of which may be absent; calls
  from many threads whose readings arrive out of order.
- C: nothing unresolved is ever hidden; ACTIVE stands on evidence newer than the last
  interruption; a generation names one stretch of permission.

### Protection evidence: `control/protection_evidence.py`, `protection_evidence_source.py`, `protection_evidence_dispatcher.py`, `protection_platform_events.py`
- S: the source's current evidence under a lock; the calls in progress.
- O: `publish`, `transition_runtime_mode`, `snapshot`, the dispatcher's and the platform
  adapter's `apply`, the coordinator's `refresh`.
- I: callbacks and polling threads feed the supervisor. No lock spans two objects.
- H: a snapshot is judged after an interruption that overtook it; an announcement or a
  publication raises half-way.
- C: negative evidence keeps automation off in spite of snapshots taken before it;
  acceptable evidence turns it on in the end.

### Device fabric bridge: `control/device_fabric_bridge.py`
- S: none of its own; the position of each `authorize_and_commit` call.
- O: three admissions, validation, the commit gate, the transport, the post-state
  observation, `_record_indeterminate`; at construction `restore_pending`.
- I: supervisor, recovery store, intent firewall, leases, transport.
- H: automation withdrawn between an admission and the request; outcomes lost by timeout,
  cancellation or mismatch; the record and the interruption are two steps.
- C: no request leaves under a permission other than its own; a lost outcome is
  recorded and held.

### Physical recovery: `control/protection_physical_recovery.py`, `device_fabric/physical_recovery_store.py`, `device_fabric/physical_recovery_reconciler.py`
- S: one durable record per transaction: status, observation, archived finality, release.
- O: `record`, `reconcile_observation`, `confirm_finality`, `confirm_supervisor_release`,
  `resolve`, `restore_pending`.
- I: bridge, supervisor, the endpoint's finality source.
- H: a crash between any two steps; stale records; late requests; failing queries.
- C: a closed record is true and final; what is open is held; what is proven is released.

### Endpoint execution ledger: `device_fabric/endpoint_execution_ledger.py`, `endpoint_ledger_guarded_transport.py`
- S: the first decision (executed or not) per transaction, durable.
- O: `claim_execution`, `close_if_unstarted`.
- H: requests duplicated, delayed beyond a timeout, or racing the closing of a transaction.
- C: one execution at most; none after a closing.

### Supervisor checkpoint: `control/protection_supervisor_checkpoint.py`, `protection_storage_recovery.py`
- S: a signed checkpoint file with a sequence, and a freshness witness outside the device.
- O: `save` (witness by compare-and-advance, then the file), `load`, `restore` into a new
  supervisor.
- I: reads the supervisor's status, ends in its `require_revalidation`.
- H: nothing locks the two writes together; savers overlap, fail before or after the effect,
  retry, and the file may be lost or put back while the process is down.
- C: nothing older than what was saved is restored; one sequence names one checkpoint; an
  unknown physical state is inherited from run to run until one starts without a checkpoint.

### Controller lease: `control/active_controller_lease.py`, `remote_atomic_controller_authority.py`, `remote_controller_protocol.py`
- S: one active lease and the highest fencing token per resource, and the nonces of
  reauthorizations, in a file under a lock; for the remote form also what was committed,
  bound and answered under each request identifier.
- O: `acquire`, `handoff`, `reauthorize`, `validate`; remotely, and idempotently, `acquire`,
  `handoff`, `issue_grant`, `issue_protocol_result`, `issue_fence_directive`.
- H: times come from callers and may go backwards; a save may raise after the file was
  replaced; requests are repeated; the file may be lost with the installation.
- C: tokens only rise and name one lease; a lease that was replaced never returns; a repeated
  request has one effect and one answer.

### Controller authority gate: `control/controller_authority_gate.py`, `controller_command_proof.py`, `controller_lease_grant.py`, `controller_lease_evidence.py`, `controller_reauthorization.py`
- S: the last accepted (token, command sequence) per resource, in a file.
- O: `validate`, `validate_remote`: lock, load, ask the authority, check, save, answer.
- I: asks the lease authority, which has a lock of its own.
- H: several processes on one file; leases change between any two of the checks; crashes.
- C: commands are accepted in the order of tokens and sequences, none twice, none under a
  lease replaced before the call.

### Endpoint fencing and handoff: `device_fabric/controller_fence_store.py`, `monotonic_fence_anchor.py`, `fenced_transport.py`, `endpoint_handoff_barrier.py`, `endpoint_handoff_fence.py`
- S: fence per resource in a file, its copy, and a trusted monotonic anchor; barrier
  admissions, holds and handoffs in a database.
- O: `accept`, `snapshot`, `execute_intent`, `admit`, `install`, `is_ready`.
- H: three durable places are advanced in turn; claim, fence and barrier are checked one
  after the other while a handoff goes on.
- C: an old controller does not act once a new one is installed; a rollback is detected.

### Endpoint transaction finality: `device_fabric/endpoint_transaction_finality_*.py`
- S: a database of claims and of transactions recorded as not applied, with the policy it was
  created under (legacy, or verified by one authority); signed proofs.
- O: open, `claim_execution`, `record_not_applied`, `record_verified_not_applied`; pure codecs
  and commitments around them.
- H: objects of different modes open a file neither has found; the file is lost; a claim and a
  record race.
- C: a transaction is given to execution once at most and never after it was closed, through
  the loss of the file; in a verified store every closing is proven.

### Commit gate and transport: `device_fabric/physical_commit_gate.py`, `precondition_gate.py`, `transport.py`
- Preconditions on signed data, deadlines, a second question to the lease authority, and a
  call into the device with a timeout.

### Intents, leases and endpoint actions: `control/intent_*.py`, `capability_lease.py`, `controller_bound_intent*.py`, `action_*.py`, `device_fabric/endpoint_action_*.py`
- S: the nonces each firewall and the endpoint verifier have spent, in memory.
- O: issuing, `validate_intent`, `validate`, the gate's `evaluate` and `commit`, the endpoint's
  `admit`.
- H: the caller reads the clock once and waits; a lease changes under the call; two calls bring
  one nonce; a restart forgets the nonces.
- C: a nonce reaches the transport, and the endpoint's action, once; what is dispatched was
  within its terms, under a lease that stayed in force.

### Session evidence: `control/session_event_producer.py`, `session_evidence_view.py`, `authored_track_finder.py`
- S: the producer's pending sample and numbering; a bounded journal with a latch for pauses.
- O: `capture`, `publish`, `append`, `current`.
- H: a sample is published later than it was taken; another sample, a refusal or a new producer
  may come between.
- C: a published state held from its observation to its receipt; what is shown is recent.

### Media control: `control/media_control_*.py`
- S: the pending change, the undo candidate, the saved defaults, each bound to a state of the
  device; options, capabilities and requests are derived from a manifest.
- O: request, verify, propose an undo, save, restore and reset a default, build the menu.
- H: others change the device at any time; a default is a sequence of requests.
- C: an undo restores the state before; the menu offers what the gate allows; a restored default
  is what was saved.

### Adaptive directives: `edge/adaptive_directive_memory.py`, `media_segment_observation.py`
- S: a bounded memory of directives, each with a version, a status and a stage.
- O: `remember`, `feedback`, `replace_blocked`, `suspend_for_policy`, `advance_lifecycle`,
  `recall`, `propose`, `proposal_is_current`; the gate's `evaluate`.
- H: the gate asks three times without a lock; eviction forgets.
- C: what the user blocked stays blocked; a stale proposal is recognized; nothing suspended is
  automated.

### Model cache: `edge/model_cache.py`
- S: entries with their users, order of use, resident memory, budget.
- O: register, use, evict, set a budget, enforce it.
- H: the lock is free while a model is used or unloaded, and between choice and eviction.
- C: no model is unloaded in use; the budget holds when all is quiet.

### TV selection feedback: `edge/tv_selection_preferences.py`, `tv_selection_feedback_menu.py`, `interface/tv_selection_web.py`
- S: the outbox the pages of a browser share; receipts, rows and the preference in a database.
- O: choose, flush, submit, sync, save a preference.
- H: requests and answers are lost, repeated, overtaken; pages share the outbox without a lock.
- C: an event is stored once; the policy is what the stored choices say; the outbox loses nothing.

### Laboratories: `native/lab/owned_output` (C), `native/lab/pcm16_accounting` (Kotlin)
- A real-time output owner with callbacks, hold and retirement; a run owner with write
  accounting and callback families. H: callbacks that outlive their owner.

### Everything else
- Storage, path and resource assessment: pure functions of one observation. Native
  applications, voice, research, reinforcement and simulation packages, contracts, documents,
  configuration: prototypes, data or prose outside the protection path.

## 2. Modules

| module | models | extends or instantiates |
| --- | --- | --- |
| `AutomationPermit` | what the supervisor promises its callers | |
| `ProtectionSupervisor` | the supervisor, one action per method and outcome | refines `AutomationPermit` |
| `ProtectionEvidence` | source, coordinator, dispatcher, platform adapter | `ProtectionSupervisor` |
| `SupervisorCheckpoint` | witness, file, savers, restart | `ProtectionSupervisor` |
| `SessionJournal` | session producer and journal | `ProtectionSupervisor` |
| `PhysicalRecoveryStore` | the durable records | |
| `EndpointExecutionLedger` | the endpoint's durable decisions | |
| `PhysicalCommit` | bridge, recovery coordinator, endpoint, crash and restart | `ProtectionSupervisor`, the two stores |
| `ControllerLease` | the lease authority, one action per operation | |
| `RemoteAuthority` | its remote, idempotent form | `ControllerLease` |
| `CommandGate` | the gate and its watermarks, one action per step between two locks or writes | `ControllerLease` |
| `IntentAdmission` | issuing, firewalls, commit gate, dispatch, endpoint verifier | `ControllerLease` |
| `ControllerFence` | the fence store, one action per write | |
| `FencedExecution` | fenced transport, handoff barrier and installer, claims of the finality store | `ControllerFence` |
| `EndpointFinality` | the finality store, its opening and the loss of its file | |
| `MediaControl` | requests, verification, undo, defaults, menu | |
| `DirectiveMemory` | directives and the automation gate | |
| `TvFeedback` | pages, outbox, server, preference store | |
| `ModelCache` | the model cache, one action per locked section | |
| `ProtectionSupervisorProofs` | theorems about the supervisor | `ProtectionSupervisor`, `TLAPS` |
| `ProtectionEvidenceProofs` | the same under callback and polling threads | `ProtectionEvidence`, `ProtectionSupervisorProofs` |
| `PhysicalCommitProofs` | bridge, records, ledger and recovery | `PhysicalCommit`, `ProtectionSupervisorProofs` |
| `SupervisorCheckpointProofs` | the checkpoint | `SupervisorCheckpoint`, `TLAPS` |
| `ControllerAuthorityProofs` | leases, gates, intents, remote requests | `CommandGate`, `IntentAdmission`, `RemoteAuthority`, `TLAPS` |
| `FencedExecutionProofs` | fence, barrier, claims | `FencedExecution`, `TLAPS` |
| `DeliveryProofs` | finality store, model cache, TV feedback | `EndpointFinality`, `ModelCache`, `TvFeedback`, `TLAPS` |
| `PartsProofs` | media control, directives, session journal | `MediaControl`, `DirectiveMemory`, `SessionJournal`, `ProtectionSupervisorProofs` |
| `MC...` | the small instances; `MCParts` and `MCDelivery` hold parts that share no state | |

**Supervisor.** Every variable is the attribute its comment names. A method runs under the
lock and is one action; the outcomes of `validate` and `status` are actions of their own
(`ValidateRegressed`, `StatusAgedOut`, ...), in the order of the code's early returns.
`Serialized` is the decorator that advances the generation when a call leaves ACTIVE.
Evidence is reduced to the first prerequisite it fails (`Findings`) and its capture times.
Reason texts are left out.

**Evidence.** A thread's call is a small program (`job[t].pc`): every clock reading, every
call into the source and every call into the supervisor is one step, because only those
objects lock. `ThreadStep` is what a thread must finish; `Event` is what the outside may
start. Evidence carries both capture times of one instant; native times may be `Lead`
instants ahead.

**Commit.** `job[c]` is an `authorize_and_commit` call, `request[c]` its request at the
endpoint, `recovery[q]` a `resolve` call, `boot` the `restore_pending` of a start. The
supervisor and the store serialize their methods, so a call of one is a step. A clock is
read between a call's previous step and the call that uses the reading, so a reading is any
instant since then (`Readings`). `_record_indeterminate` is three steps: the wall clock is
read, the record is written, the supervisor is interrupted. When the mismatch was seen by
the post-state observation and that interruption raises, the handler of the observation
records again (`again`). A crash loses the supervisor and all calls; records, ledger and
requests under way survive. The monotonic clock goes on across a restart of the process (a
reboot of the machine is not modelled). Validation between the admissions may only refuse
and is `Abandon`.

Assumed of the configuration: the bridge has a supervisor and a recovery store, the endpoint
is guarded by the execution ledger, and the coordinator that runs `resolve` has endpoint
verifiers; the one in the bridge's constructor has none, as in the code.
`terminal_evidence` has no implementation in the repository and is modelled from the way
`resolve` uses it.

**Fence.** `fence`, `copy` and `trusted` are the file, the file beside it and the monotonic
anchor; a missing file and an empty one are the same. `accept` takes the file lock, reads,
and writes the places in turn, one action per write (`AdvanceAnchor`, `SaveAnchor`, `Save`);
`writing[p]` is what the holder of the lock still has to write. A write may fail before or
after it takes effect (`WriteFails` is possible at every step), and a crash releases the lock.
`Torn` is what `_load_state` refuses. A store that is torn by a failure or a crash stays
refused: only `accept` writes, and it reads first. That is the intention
(`tests/test_controller_fence_store.py:115` and `:215`), so liveness is not claimed. The
monotonic anchor is an interface; it appears as what the store makes of its answers. Files
in the formats of earlier versions are left out.

**Fenced execution.** `job[c]` is a call of `execute_intent`, `job[h]` one of the barrier's
`install`. Each method of the finality store is one database transaction and one step; so
is each look at the fence. `admit` reads the fence under the write lock of its own database
(`locked`), but the fence is written under another lock: its checks (`AdmitBegin`) and its
commit (`AdmitCommit`) are two steps, and the same goes for the hold of an installation.
Signatures and validity times may only refuse, and `Refuse` is possible wherever a call is
between two steps. The transport is given a finality store and a barrier; the factory in the bridge
(`control/device_fabric_bridge.py:599`) gives it no barrier, only the fence and the claim. Two facts of the
code are visible in the model: no operation removes a hold, and `is_ready` looks only for
admissions of the controller the directive names as previous, then answers False in any
case. `Drained` is the condition it evaluates before that answer.

**Checkpoint.** `jobs[s]` is a `save` in progress: the witness is advanced in one step and the
file replaced in the next, either may fail before or after its effect, and a caller may retry.
`Stop` ends the process, `Meddle` is what may become of the file meanwhile (lost, damaged, put
back to an earlier authentic one), and `RestoreAccepted` and `RestoreRefused` are the two ways
`restore` goes. `held` and `blind` remember which runs began with a checkpoint in UNKNOWN and which
with none. The digest covers the checkpoint, so the witness holds the checkpoint. The
monotonic clock starts anew with every life of the process (`booted`); no code in the repository
decides when to save, so any saver saves the present state under any sequence.

**Lease and remote authority.** Every method takes the file lock, loads, replaces the file and
answers, so it is one step. A save that raises after the replacement, or a crash there, leaves
the lease in the file and the caller without it. In `ControllerLease` that is the same step,
since no action depends on who was told of a lease (`issued`); in `RemoteAuthority` the caller may
then repeat the request (`Repeat`). Times are inputs, unrelated from call to call. Fingerprints hold the fields
the code hashes. `Reinstall` loses the file of leases.

**Command gate.** `job[g]` is a call of the gate `g` with what it has read: lock and load
(`GateCall`), the authority's verdict and the checks (`GateJudge`), the save, the answer. The
lease authority acts between any two. `GateEnds` is a failed check, a failed save and a crash.

**Intents.** `commits[p]` is a call with the time its caller read; `Judge`, `SpendNonce`, `Gate`
(or `GateDeprecated`), `RecheckAuthority` and `Dispatch` are the points where the code reads a
clock, a lease or the nonces. `arriving` is what may reach the endpoint, which judges it by its
own clock and nonces. `Restart` forgets nonces and calls of the control process. What the
comparisons of digests, scopes, devices and versions refuse is `RefuseCall`.

**Finality.** `object[s]` is a store object with its mode. Opening is two steps: the file is
looked for (`OpenBegin`), and is given its policy, or found to have another, when the transaction
commits (`OpenCommit`); one that fails in between may leave an empty file (`OpenFails`). The first object to succeed
commissions the store and later ones insist on an existing file, as the production bridge
does (`device_fabric_bridge.py:612`). The store itself does not insist by default: what is
shown of it after the loss of its file holds for deployments that commission it like the bridge. `LoseFile`
deletes the file; it is never put back to an older one. In `FencedExecution` the
same store appears as its claims and records only.

**Session.** `Capture` and `Publish` are two calls with anything between them. The supervisor
under them is the one of `ProtectionSupervisor`. A reason that changed while the state did not
is a free choice.

**Media.** `pending` is a change on its way: `Begin` (snapshot and translation), `Applied` (the
device takes it), `Verify` or `Fails` (the observation). `Disturb` is anybody else at the
device. A state digest is the state.

**Directives.** One action per method under the memory's lock, by what it finds (`RememberAgain`,
`RememberOther`, `RememberNew`). The persistence scope is no part of an entry: any call may bring the scope
the entry has or the other one, which alone makes it start anew. `AskCurrent`, `AskPinned` and `AskStage` are the three questions
of the gate, with `reading` between them.

**TV feedback.** `wire` holds requests on their way, `answers` answers; both may be lost, and a
request its page has given up may still be served. A flush is a reading of the outbox
(`BeginFlush`) and a writing of what is left (`EndFlush`). The server serves a request in one
transaction; `Unseen` is what it stores of a batch, `Outcome` what the choices make of the policy,
one after the other.

**Model cache.** `thread[t]` says where a thread is outside the lock: using, enforcing, evicting,
unloading. An unloading that raises leaves its entry as it is (`UnloadRaises`).

Each of these modules also states its types (`...TypeOK`). They hold on the instances below and
are not listed among the properties of the runs; most are proved. Where a proof only needs, or
only reaches, a part of them it states that part (`DirectivesTyped`, `FeedbackTyped`).

## 3. Runs

| run | instance | shows |
| --- | --- | --- |
| `evidence` | 2 threads, 2 events, 3 instants, lead of 1, fair | a negative event holds automation off, whatever snapshot is judged later; settled acceptable evidence turns it on for good |
| `evidence_malformed` | 2 threads, 3 events | counterexample: a malformed event can leave automation on |
| `commit` | 2 commits of 1 transaction, 2 recoveries (3 calls at most), 2 instants, 1 crash | admission, holding, finality and release; an archived report is never replaced |
| `recovery_live` | 1 commit, 1 recovery, 1 crash, fair | a proven record is eventually released |
| `commit_race` | 1 commit, 1 recovery, no crash | counterexample: a lost outcome can leave automation on |
| `fenced_execution` | 2 requests, 2 handoffs, 2 transactions, 1 resource, 3 tokens, any number of crashes | one delivery per transaction; admissions in token order; holds and drained handoffs keep the old controller out; the anchor leads |
| `command_gate` | 2 gates, 1 controller, 3 tokens, 2 sequences, 1 reinstallation | commands in order, none under a lease replaced before the call, no lease returns |
| `checkpoint` | 2 savers, 2 sequences, 2 restarts | the newest checkpoint or none is restored; one checkpoint per sequence; UNKNOWN is inherited from run to run |
| `restart_boundary` | 1 saver, 3 instants, 1 restart | counterexample: evidence from before the restart can activate automation |
| `parts` | supervisor, remote authority, media control, directives and session, side by side | refinement of `AutomationPermit`; one answer per request; undo, menu and defaults; blocked and suspended directives; published samples |
| `delivery` | intents, finality, TV feedback and model cache, side by side | nonces and terms; one execution or a closing; one row per event and the policy it makes; models in use |
| `outbox` | the same instance with two store objects | counterexample: a queued choice can be overwritten |

`parts` and `delivery` put parts that share no state next to each other: a behaviour belongs to
one part (`part`), and the others stay in an initial state. No step reads or writes a
variable of another part, so each part has exactly the behaviours it has alone. Their
constants, in `MCParts.cfg` and `MCDelivery.cfg`, belong to one part each, except those that two
parts share without harm: the set of calls of one is also the set of event identifiers of another.

**Bounds and why they are enough.**
- `Stamps` (supervisor in `parts`): three instants of one monotonic clock, with the wall clock set
  back between the second and the third, and a reading without monotonic time. The code only
  compares pairs of readings, so three instants give every order of evidence, interruption and
  call; the set-back makes the two clocks disagree, the absent reading takes the wall-clock
  branches.
- `MaxEvidenceAge` is small enough for evidence to age within the instants, except in the commit
  runs, where automation is withdrawn by interruptions instead.
- `MaxGeneration` stops reactivation. Two stretches of permission are needed for an admission to
  become out of date; in the evidence runs the bound is never reached.
- `MaxClock`, `MaxEvents`, `MaxCrashes`, `MaxRestarts`: two events let one overtake the other; one
  crash can fall between any two steps, and a second would meet the same durable states.
- `Lead`: one instant is enough for evidence from the future.
- Two commits of the same transaction are what the ledger has to serialize. A second recovery
  works on a record the first has changed; `ThreeCalls` lets two of either kind meet one of the
  other, not two of both.
- `MaxToken` = 3: a token can be overtaken by one that is itself overtaken; the second handoff of
  a resource can only be refused, since no hold is ever removed. One resource is enough, because
  claims, barrier, leases and watermarks treat resources apart; that the fences of several
  resources share one file is covered by the proofs.
- `command_gate`: one controller suffices, since a lease it takes from itself is replaced like
  any other; two gates and two sequences make every pair of commands race. `MaxReinstalls` = 1 with one
  nonce lets the tokens start again and be taken forward once.
- `checkpoint`: two savers overlap, and two sequences make the same sequence compete as
  well as a newer one. Two restarts make three runs: one whose supervisor gets into UNKNOWN by itself,
  one that is held there by the first's checkpoint, and one that the second's saves, or a file put
  back, could set free. Evidence is always eligible: old evidence alone leads to UNKNOWN, and the other findings
  are those of the run `restart_boundary`. The file put back is any one written before.
- Remote authority: three request identifiers let a request, a second one and a handoff meet, each
  repeated with the same or other arguments; a second key tries to bind again.
- `IntentAdmission`: two calls with one nonce, two lease changes (`MaxChanges`), three instants.
- `EndpointFinality`: three objects can be opening together, two authorities disagree; the proofs
  share an identifier, or a transaction, or neither, and one runs out.
- `DirectiveMemory`: three contexts for two entries, so that eviction happens and undoes itself.
- `SessionJournal`: two sequences make a gap, one new runtime, three instants.
- `MediaControl`: one whole and one fractional volume, one preset, one set of bands, one disturbance.
- `TvFeedback`: two pages of one browser, two choices, a native batch with one event twice and one
  with its identifier again, and at most one request nobody waits for.
- `ModelCache`: three threads, two models, budgets of nothing, of one model and without limit.
- Symmetry is over calls, requests, savers or gates, and only in runs without liveness.
- Deadlock checking is off: a system whose clock, events, crashes, tokens and generations are
  used up stops.

**Fairness.** `evidence`: threads finish the calls they begin and the application keeps
polling `refresh`; events, provider failures and time are under no obligation. The
repository has no scheduler: the polling is an assumption on the application that embeds
it, as `ProtectionEvidenceCoordinator` is written to be polled. `recovery_live`: the
application keeps calling `resolve` for a record that may be resolved, and the endpoint and
the database do not fail for ever (strong fairness on the steps that may fail, weak on the
others). Nothing is assumed of commits, crashes, the device or observations. No other run assumes fairness.

**Counterexamples.**
- `MalformedEventPauses`. The dispatcher dates the interruption for malformed evidence with
  the evidence's own capture time, outside any `try`. When that time precedes the last
  interruption, `interrupt` raises and automation stays on;
  `tests/test_protection_evidence_source.py:93` says that a malformed event pauses.
- `LostOutcomeIsNotActive`. `_record_indeterminate` reads the clock before it waits for the
  supervisor's lock. An interruption with a later reading may get in first; then the
  interruption for the lost outcome raises, the record exists and nothing is held. The next fresh
  evidence makes the supervisor ACTIVE until the next start.
  `docs/repository-bug-audit-2026-09-28.md:21` (A05) calls for the opposite.

- `ActiveIsNewerThanRestart`. `require_revalidation` sets the reactivation boundary at the
  restart. Denied evidence captured before it makes `validate` set the boundary to its own
  capture time (`control/protection_supervisor.py:231-257`), which may be earlier; eligible
  evidence from between the two, still before the restart, then activates automation.
  `tests/test_protection_supervisor_checkpoint.py:23` requires strictly newer evidence.
- `RemovesOnlyAcknowledged`. The page reads the outbox, awaits the answer to its POST, and
  writes back what is left of that reading (`interface/tv_selection_web.py:48`); a choice
  queued meanwhile is lost. `tests/test_tv_selection_web.py:78` says that only acknowledged
  events are removed.

`OwedIsHeld` therefore excuses a transaction whose own commit was refused the interruption.

## 4. Proofs

`ProtectionSupervisorProofs` proves, for every set of transactions and stamps, every maximal
age and every generation bound, from the three assumptions of `ProtectionSupervisor`
(`NoTime` is not an integer, stamps carry an integer wall time, the bounds are numbers):

- `TypeCorrect`: `Spec => []SupervisorTypeOK`
- `UnresolvedStaysUnknown`: `Spec => []UnresolvedIsUnknown`
- `ActiveIsNewerThanInterruption`: `Spec => []ActiveOutlivesInterruption`
- `KeepsThePermit`: `Spec => PermitSpec`

The inductive invariant is `SupervisorTypeOK /\ UnresolvedIsUnknown /\
ActiveOutlivesInterruption`. The last conjunct needs types, since it compares times only
when they are present; it is kept by a judgement because `Superseded` compares the evidence
with the interruption before ACTIVE is entered, by an interruption because it leaves ACTIVE,
and by `status` because it never enters ACTIVE. The refinement rests on the second conjunct: a
step from a state with a debt starts from UNKNOWN, so it cannot revoke or grant. Every step
of the supervisor maps to Grant, Revoke, Incur, Settle or a stutter, by cases on whether
the debts are the same, more, or fewer.

`ProtectionEvidenceProofs`, for any number of threads and any bounds, from the assumptions that
instants are numbers with a wall clock for each and that reports are findings, malformed or
contradictory: `EvidenceTypeCorrect`, `AnnouncedSourceStaysNegative`
(`[]NegativeSourceIsNeverActive`), `NegativeEventHolds` (`[]NegativeEventHoldsAutomation`) and
`EvidenceKeepsThePermit` (`EvidenceSpec => PermitSpec`). Neither invariant is inductive. Two
instants decide: what was announced is covered by the supervisor's last interruption, which never
recedes (`AnnouncedIsCovered`), and no evidence that was judged, or is about to be, is newer than
the source's (`SourceIsNewest`). ACTIVE stands on evidence newer than the interruption, so
on evidence newer than anything announced.

`PhysicalCommitProofs`, for any commits, recoveries, transactions, crashes and wall clock, from the
assumptions that there is a transaction and that `None` is no recovery: `CommitTypeCorrect`;
`OwedStaysHeld` (`[]OwedIsHeld`) and with it `OwedStaysUnknown`; `SupervisorStaysSafe`, what is
proved of the supervisor alone; `ClosedStaysFinal` (`[]ClosedIsFinal`); and of the steps
`SentUnderAdmission`, `ReleasedWhenClosed` and `ArchiveStaysFinal`. The parts of `CommitInv`:
- `Lineage`: a request leaves only after its last admission, and a record stems from a commit that
  lost its outcome;
- `Epochs`: a commit whose permission lapsed carries a generation below the supervisor's, so
  its last admission fails;
- `ClaimedOnce`, `Asked`, `Answered`, `Terminal`: a transaction is executed by the one request
  that claimed it, a recovery that is about to close a record has what the endpoint attested, and
  a closed record says what is attested. An attestation stands because the first decision of the
  ledger does;
- `Restoring`, `OwedAndHeld`: what is owed is held, or its commit has not finished recording
  it, or the process is starting and the restore still has it to do.

`FencedExecutionProofs` first proves `ControllerFence`, for every set of resources, controllers and
clients, with or without an anchor, from the assumptions that tokens are bounded by a number and
`Anchored` is a Boolean:

- `FenceTypeCorrect`: `FenceSpec => []FenceTypeOK`
- `FenceAnchorLeads`: `FenceSpec => []AnchorLeads`
- `FenceMonotone`: `FenceSpec => FenceNeverFalls`

Neither property is inductive: a writer with arbitrary records could lower a fence. The
inductive invariant `FenceInv` adds `OneWriter` (the lock) and `WritesInTurn`: the records
of the writer change one fence to a newer token (`Renewal`), and the places hold the new
records up to the one being written and the old ones after it (`Progress`). A crash or a
failure leaves no writer, and the places as they are.

It then proves of `FencedExecution`, for every set of requests, handoffs and transactions:

- `ExecTypeCorrect`: `ExecSpec => []ExecTypeOK`
- `ExecImplementsFence`: `ExecSpec => FenceSpec`, so that `ExecFenceMonotone` follows
- `SentOnce`: `ExecSpec => []SentOnceUnlessClosed`
- `AdmissionsInOrder`: `ExecSpec => AdmittedInTokenOrder`
- `HoldIsRespected`: `ExecSpec => HoldStopsAdmissions`
- `DrainedIsFinal`: `ExecSpec => DrainedExcludesPredecessor`

It assumes that requests and handoffs are the only clients of the fence, and that there is at
least one resource, controller, transaction and token. `ClaimInv` says that a call past its claim
is the only one of its transaction, and that claims and not-applied records are disjoint:
this gives `SentOnce`. `BarrierInv` says that whoever is between its checks and its commit
holds the barrier's lock (`LockInv`); that what was checked then stays true although the fence
may move, since it only rises (`CheckedInv`, `BehindFence`); and that a request on its way
to the device is in the journal (`AdmittedInv`). The last three theorems follow from it by
looking at the one step that adds an admission, or delivers.

`ControllerAuthorityProofs` has four parts, for any resources, controllers, times, gates, callers,
requests and bounds.
- Leases: `LeaseTypeCorrect`, `LeaseTokensUnique` (`LeaseSpec => []TokenNamesLease`),
  `LeaseNeverReturns` (`LeaseSpec => ReplacedStaysReplaced`), with any number of reinstallations. The
  invariant adds `TokensOrdered`: no committed lease is above `highest`, and the one in force is a
  committed one at `highest`. A new lease is above all of them, whatever time it was asked for.
- Gates: `GateTypeCorrect`, `FileHasOneWriter`, `AcceptedStayInOrder` (`AcceptedInOrder`),
  `FencedThroughout` (`[]FencedFromTheStart`). Whoever is between its judgement and its answer
  holds the lock (`Locked`); what it loaded is in the file until it saves, and the watermark covers
  all that was accepted (`FileOrders`); a call that was let through is not below the token
  that was highest when it began (`Floors`). `GatesKeepTheLeases` is the refinement `GateSpec =>
  LeaseSpec`, which carries `LeaseNeverReturns` over.
- Intents: `NonceAdmittedOnce` (`[]AdmittedOncePerNonce`), `DispatchWithinTerms`
  (`[]DispatchedWithinItsTerms`). A call that got its nonce past the firewall is the only one that
  holds it until it is sent or refused (`NoncesHeld`), the endpoint spends what it admits
  (`NoncesAdmitted`), and a lease that was replaced is not in force, so one that the
  authority confirms at the gate was not replaced in between (`CallsSound`).
- Remote requests: `RemoteTypeCorrect`, `RepeatedRequestsAgree` (`[]OneAnswerPerRequest`), and the
  refinement `RequestsKeepTheLeases` (`RemoteSpec => LeaseSpec`). What is on record for a
  request was answered with the lease it was given and with no other request's (`CommitsSound`, by
  `TokensOrdered`), leases have a term (`TermsOrdered`), and answers, grants, results and directives are
  copies of the record (`RecordsSound`). So a saved file passes every check of `_load_state`.

`SupervisorCheckpointProofs`, for any savers and bounds: `CheckpointTypeCorrect`,
`NewestIsRestored` (`[]RestoredIsNewest`), `SequenceNamesCheckpoint`
(`[]OneCheckpointPerSequence`), `UnknownIsRemembered` (`[]UnknownOutlivesRestarts`). The
first three speak of the `Admitted` checkpoints, those that passed the witness and are in some file, returned, or still
with a saver: the witness is at the newest (`WitnessLeads`), they differ in their sequences
(`SequencesDiffer`), and savers carry only checkpoints of this life (`JobsOfThisLife`). A file
that equals the witness is then as new as everything that was returned. The last
needs `LineageInv`: a checkpoint that is not in UNKNOWN was saved by a run that descends from one
without a checkpoint (`SavesRemember`), the witness never leads back behind a run that was held
(`WitnessHolds`), and the supervisor's latch stands for what was held and is not forgotten
(`LatchStands`).

`DeliveryProofs` has three parts.
- Finality, for any transactions, proofs, authorities, objects and losses: `FinalityTypeCorrect`,
  `AtMostOneExecution` (`[]ExecutedOnceOrClosed`), `ProofForEveryRecord` (`[]FinalityIsProven`).
  Before the first object is open nothing has happened (`NothingYet`); a file lost after that is
  not created again (`GoneForGood`); while it is there, every execution and every closing is in
  it (`Remembered`).
- Model cache, for any finite set of threads: `ModelsInUseStay` (`[]UsedIsLoaded`), from
  `UsersAreCounted` (an entry counts exactly the threads that use it, by the cardinality of that set)
  and `EntriesAreHeld` (what is used or unloaded is in the cache, and unloaded by one thread);
  `BudgetHoldsAtRest` (`[]WithinBudgetAtRest`), from `BudgetIsAwaited`: a budget that is
  exceeded while something could be evicted is the concern of a thread that uses a model, enforces
  the budget or is evicting for it.
- TV feedback, for any pages, events and batches of any length: `EventsAreStoredOnce`
  (`[]StoredOnce`), from `FlushesAreTrue`: a page that awaits an answer remembers what it sent, and an
  answer under way says that all of that is stored; and `PolicyIsWhatWasChosen`
  (`[]PolicyFollowsChoices`), from `PolicyInv`: the policy agrees with the last choice among the rows
  since the settings were saved (`Followed`). That `Outcome` keeps it so is an
  induction on the batch, carried out without the library's induction rule: were there places where it
  fails, one of them would be the first (`FirstPlace`, itself a consequence of the pigeonhole
  principle by way of `Ranks`), and the one before it contradicts that. The same argument shows that the
  recursive function of `Outcome` exists (`OutcomeInSteps`).

`PartsProofs` has three parts, for any constants that keep "none" apart from values.
- Media control: `MediaTypeCorrect`, `UndoReturns` (`[]UndoRestoresPrior`), `OfferedIsGranted`
  (`[]MenuKeepsItsWord`), `DefaultComesBack` (`[]DefaultRestores`). A change under way leads from a state
  that was captured to its target (`PendingLeadsOn`), and the candidate's change leads from the
  state it expects back to the one before (`CandidateLeadsBack`): `Translate` of a reversal undoes
  `Translate` of the change. A default is at most three requests, of which none undoes what another
  has set, because presets and bands exclude each other in a captured state.
- Directives: `CurrentRestsOnItsEntry` (`[]CurrentIsUntouched`), `BanHolds` (`[]NeverAutomateHolds`),
  `NothingSuspendedIsAllowed` (`GateRespectsSuspension`). Versions are drawn from one counter that is
  never behind an entry (`EntriesAgree`), so an entry that was touched since the proposal, also
  by an eviction and a new start, is newer than it (`ProposalIsDated`); what is banned is pinned, and
  nothing pinned is evicted (`BannedIsPinned`); what is suspended or blocked has left the stage
  AUTOMATE.
- Session: `SessionTypeCorrect`, `ShownIsRecent` (`[]CurrentIsRecent`), `PublishedStatesHeld`
  (`PublishedHeldThroughout`). The counts of the journal add up (`JournalAddsUp`), events expire a
  fixed time after their observation (`EventsAreDated`), and a sample whose generation is still the
  supervisor's was not overtaken by a stretch of permission (`SampleIsDated`).

Every inductive invariant was model-checked on the instances of section 3 before it was proved.
Every property is proved for all values of the constants, the bounds included; the symmetry and the
other restrictions of the runs play no part.

Constants are assumed to be numbers, finite or disjoint as the named `ASSUME`s of the modules say
(a value that stands for "none" is not one of the others); TLC evaluates all of them on
every run whose module extends the module that states them.

Only model-checked:
- liveness, `AcceptableEvidenceActivates` and `ProvenIsReleased`, with their fairness: ENABLED
  is out of the prover's reach;
- the counterexamples, which no proof can replace.

All other properties of the passing runs are theorems. Not proved, and not among the runs' properties,
are the types of the order of use in `DirectiveMemory` and `ModelCache` (a `SelectSeq`, which the prover
does not see through) and those of the counters in `TvFeedback`; no theorem needs them.

## 5. What is not modelled

- Cryptography and the encoding of signed data: a verification is a verdict.
- The fields of records and requests that are compared only for equality.
- A bridge without a supervisor or a recovery store, and the production builder; the bridge's
  deprecated `authorize_and_execute` appears in `IntentAdmission` only.
- Files in the formats of earlier versions, and their migration.
- A crash after the request has left and before its loss is recorded: the model contains it,
  and it leaves no record. No record exists before an outcome is lost, so no property of the
  code covers that window.
- Floating point: a duration below the resolution of a time makes a lease that ends when it begins.
- Pure components: assessments, the recap of a closed session, the track finder, the codecs of
  finality proofs, labels and payloads of media control.
- The two laboratories (section 6), the native user interfaces, voice, research and simulation.

## 6. Plan

In this order:

1. One abstract object whose first decision wins, which the execution ledger, the finality store
   and the claims of `FencedExecution` implement, each with a refinement mapping and a proof of it.
2. Composition: that `PhysicalCommit`, `SupervisorCheckpoint` and `SessionJournal` use the supervisor only
   as its specification allows is proved for the first in the form of its invariants; as a refinement
   of `PermitSpec` it holds within one life of the process.
3. The owned-output laboratory: owner, callbacks, hold and retirement, one action per atomic
   operation; then the run owner of the pcm16 laboratory.
4. The types of the order of use in `DirectiveMemory` and `ModelCache`, by picking places, as `Unseen`
   in `TvFeedback` does.
