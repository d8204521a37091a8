---------------------------- MODULE DirectiveMemory ----------------------------
(***************************************************************************)
(* AdaptiveDirectiveMemory, what the device has learnt to do in a context, *)
(* with the gate that admits a media proposal to automation.               *)
(*                                                                         *)
(* Every method of the memory holds its lock and is one step.  The gate    *)
(* asks the memory three times, whether the proposal is current, whether   *)
(* the directive is pinned and its stage, and the memory may change in     *)
(* between.  Entries are kept in order of use and the memory is bounded.   *)
(*                                                                         *)
(* Left out: the reason counts, which only order a menu; and the ledger, a *)
(* log no decision reads.  The persistence scope is no part of an entry:   *)
(* remember may always be called with the scope the entry has or with the  *)
(* other one, and only whether they differ matters.  Confidences are       *)
(* numbers of 25ths, as the thresholds are.                                *)
(***************************************************************************)
EXTENDS Naturals, Sequences

CONSTANTS
  ContextKeys,   \* context keys
  Behaviours,    \* actions a directive may name; one of them is "skip"
  Confidences,   \* confidence and context match of proposals, in 25ths
  MaxEntries,    \* capacity of the memory
  Absent,        \* no entry, no proposal
  MaxVersion     \* bound: the highest version

VARIABLES
  order,         \* the keys of the entries, least recently used first
  entries,       \* the directive of each key, or Absent
  nextVersion,   \* _next_version
  proposal,      \* a proposal somebody holds, and whether its entry changed since
  reading,       \* the gate's next question about it
  banned         \* history: keys under NEVER_AUTOMATE that were not replaced since

directiveVars == <<order, entries, nextVersion, proposal, reading, banned>>

\* AdaptiveDirective and its version
Directives ==
  [action : Behaviours, status : {"CANDIDATE", "ACTIVE", "SUSPENDED", "BLOCKED"},
   strength : 1 .. 25, pinned : BOOLEAN,
   stage : {"OBSERVE", "SUGGEST", "SHADOW", "AUTOMATE", "SUSPEND"},
   version : 1 .. MaxVersion]

\* MediaSegmentProposal: a DirectiveProposal for an observation.
Proposals ==
  [key : ContextKeys, action : Behaviours, strength : 1 .. 25, version : 1 .. MaxVersion,
   touched : BOOLEAN]

ASSUME DirectiveAssumption ==
  /\ MaxVersion \in Nat
  /\ Absent \notin Directives \cup Proposals

Present(k) == entries[k] # Absent

DirectiveTypeOK ==
  /\ entries \in [ContextKeys -> Directives \cup {Absent}]
  /\ Len(order) <= MaxEntries
  /\ \A k \in ContextKeys :
       Present(k) <=> \E i \in DOMAIN order : order[i] = k /\ \A j \in DOMAIN order : order[j] = k => j = i
  /\ nextVersion \in 0 .. MaxVersion
  /\ proposal \in Proposals \cup {Absent}
  /\ reading \in {"none", "pinned", "stage", "allowed"}
  /\ banned \subseteq ContextKeys

DirectiveInit ==
  /\ order = <<>>
  /\ entries = [k \in ContextKeys |-> Absent]
  /\ nextVersion = 0
  /\ proposal = Absent
  /\ reading = "none"
  /\ banned = {}

-----------------------------------------------------------------------------
(* The memory *)

\* The keys of an order without k, and with k as the last one used.
Without(o, k) == SelectSeq(o, LAMBDA key : key # k)
LastUsed(o, k) == Append(Without(o, k), k)

Touch(keys) ==
  proposal' = IF proposal # Absent /\ proposal.key \in keys
                THEN [proposal EXCEPT !.touched = TRUE] ELSE proposal

\* Faulty variant: the versions of a key start again with its entry.
VersionOfEntry(k) == IF Present(k) THEN entries[k].version + 1 ELSE 1

\* The version of a changed entry.
VersionFor(k) == nextVersion + 1

NewVersion ==
  /\ nextVersion < MaxVersion   \* bound
  /\ nextVersion' = nextVersion + 1

\* The entry of k becomes d, with a new version; the key of an evicted entry is gone.
Change(k, d, gone) ==
  /\ NewVersion
  /\ entries' = [key \in ContextKeys |->
       CASE key = k -> [d EXCEPT !.version = VersionFor(k)]
         [] key # k /\ key \in gone -> Absent
         [] OTHER -> entries[key]]
  /\ Touch({k} \cup gone)
  /\ UNCHANGED reading

NewDirective(action, pinned) ==
  [action |-> action, status |-> IF pinned THEN "ACTIVE" ELSE "CANDIDATE",
   strength |-> 13, pinned |-> pinned, stage |-> "OBSERVE", version |-> 1]

\* The places of the entries that may make room: unpinned candidates, else any unpinned.
Evictable ==
  LET unpinned == {i \in DOMAIN order : ~entries[order[i]].pinned}
      candidates == {i \in unpinned : entries[order[i]].status = "CANDIDATE"}
  IN IF candidates # {} THEN candidates ELSE unpinned

\* remember, of an entry that is there as it is, with its persistence scope.
RememberAgain(k, action, pinned) ==
  /\ Present(k) /\ entries[k].status # "BLOCKED"
  /\ entries[k].action = action /\ entries[k].pinned = pinned
  /\ order' = LastUsed(order, k)
  /\ UNCHANGED <<entries, nextVersion, proposal, reading, banned>>

\* remember, of an entry that differs in its action, in being pinned, or only in its
\* persistence scope: it starts anew.
RememberOther(k, action, pinned) ==
  /\ Present(k) /\ entries[k].status # "BLOCKED"
  /\ Change(k, NewDirective(action, pinned), {})
  /\ order' = LastUsed(order, k)
  /\ UNCHANGED banned

\* remember, of a new entry; the least recently used one that may makes room.
RememberNew(k, action, pinned) ==
  /\ ~Present(k)
  /\ \/ /\ Len(order) < MaxEntries
        /\ Change(k, NewDirective(action, pinned), {})
        /\ order' = LastUsed(order, k)
     \/ /\ Len(order) >= MaxEntries
        /\ \E i \in Evictable :
             /\ \A j \in Evictable : i <= j
             /\ Change(k, NewDirective(action, pinned), {order[i]})
             /\ order' = LastUsed(Without(order, order[i]), k)
  /\ UNCHANGED banned

\* Faulty variant: the entry is blocked and not pinned.
BlockedUnpinned(d) ==
  [d EXCEPT !.status = "BLOCKED", !.strength = 1, !.stage = "SUSPEND"]

Blocked(d) ==
  [d EXCEPT !.status = "BLOCKED", !.strength = 1, !.pinned = TRUE, !.stage = "SUSPEND"]

Approved(d) ==
  [d EXCEPT !.status = "ACTIVE", !.stage = "SUGGEST",
            !.strength = IF @ < 25 THEN @ + 1 ELSE 25]

\* Faulty variant: the stage outlives a rejection.
RejectedInItsStage(d) ==
  [d EXCEPT !.status = "SUSPENDED", !.strength = IF @ > 3 THEN @ - 2 ELSE 1]

Rejected(d) ==
  [d EXCEPT !.status = "SUSPENDED", !.stage = "SUSPEND",
            !.strength = IF @ > 3 THEN @ - 2 ELSE 1]

\* feedback, feedback_from_voice and accept_voice_candidate: approval or a reason against.
Feedback(k, approved) ==
  /\ Present(k) /\ entries[k].status # "BLOCKED"
  /\ Change(k, IF approved THEN Approved(entries[k]) ELSE Rejected(entries[k]), {})
  /\ UNCHANGED <<order, banned>>

\* feedback with NEVER_AUTOMATE, which voice may not give.
NeverAutomate(k) ==
  /\ Present(k) /\ entries[k].status # "BLOCKED"
  /\ Change(k, Blocked(entries[k]), {})
  /\ banned' = banned \cup {k}
  /\ UNCHANGED order

ReplaceBlocked(k, action) ==
  /\ Present(k) /\ entries[k].status = "BLOCKED"
  /\ Change(k, NewDirective(action, TRUE), {})
  /\ order' = LastUsed(order, k)
  /\ banned' = banned \ {k}

Advanceable(k) ==
  /\ Present(k)
  /\ entries[k].status \notin {"SUSPENDED", "BLOCKED"} /\ entries[k].stage # "SUSPEND"

SuspendForPolicy(k) ==
  /\ Advanceable(k)
  /\ Change(k, [entries[k] EXCEPT !.status = "SUSPENDED", !.stage = "SUSPEND"], {})
  /\ UNCHANGED <<order, banned>>

NextStage == [OBSERVE |-> "SUGGEST", SUGGEST |-> "SHADOW", SHADOW |-> "AUTOMATE"]

AdvanceLifecycle(k) ==
  /\ Advanceable(k) /\ entries[k].stage \in DOMAIN NextStage
  /\ Change(k, [entries[k] EXCEPT !.stage = NextStage[@]], {})
  /\ UNCHANGED <<order, banned>>

\* recall only changes the order.
Recall(k) ==
  /\ Present(k) /\ entries[k].status = "ACTIVE"
  /\ order' = LastUsed(order, k)
  /\ UNCHANGED <<entries, nextVersion, proposal, reading, banned>>

-----------------------------------------------------------------------------
(* Proposals and the gate *)

\* propose: an active directive, at least as confident and as good a match as its
\* strength demands.
Propose(k, confidence, match) ==
  /\ Present(k) /\ entries[k].status = "ACTIVE"
  /\ confidence >= 26 - entries[k].strength /\ match >= 26 - entries[k].strength
  /\ proposal' =
       [key |-> k, action |-> entries[k].action, strength |-> entries[k].strength,
        version |-> entries[k].version, touched |-> FALSE]
  /\ reading' = "none"
  /\ UNCHANGED <<order, entries, nextVersion, banned>>

\* proposal_is_current; the confidences of a proposal are those it was made with.
IsCurrent(p) ==
  /\ Present(p.key)
  /\ entries[p.key].status = "ACTIVE"
  /\ entries[p.key].version = p.version
  /\ entries[p.key].action = p.action /\ entries[p.key].strength = p.strength

\* MediaAutomationEligibilityGate.evaluate, of a proposal for this observation, in time.
Question(asked, holds, next) ==
  /\ reading = asked /\ proposal # Absent /\ proposal.action = "skip"
  /\ reading' = IF holds THEN next ELSE "none"
  /\ UNCHANGED <<order, entries, nextVersion, proposal, banned>>

AskCurrent == Question("none", IsCurrent(proposal), "pinned")

AskPinned ==
  Question("pinned", Present(proposal.key) /\ entries[proposal.key].pinned, "stage")

AskStage ==
  Question("stage", Present(proposal.key) /\ entries[proposal.key].stage = "AUTOMATE", "allowed")

\* MediaAutomationCandidateAdmission: the candidate is admitted if the gate allows it now.
Eligible == reading = "allowed"

DirectiveNext ==
  \/ \E k \in ContextKeys :
       \/ \E action \in Behaviours, pinned \in BOOLEAN :
            \/ RememberAgain(k, action, pinned)
            \/ RememberOther(k, action, pinned)
            \/ RememberNew(k, action, pinned)
       \/ \E approved \in BOOLEAN : Feedback(k, approved)
       \/ NeverAutomate(k)
       \/ \E action \in Behaviours : ReplaceBlocked(k, action)
       \/ SuspendForPolicy(k) \/ AdvanceLifecycle(k) \/ Recall(k)
       \/ \E confidence, match \in Confidences : Propose(k, confidence, match)
  \/ AskCurrent \/ AskPinned \/ AskStage

DirectiveSpec == DirectiveInit /\ [][DirectiveNext]_directiveVars

-----------------------------------------------------------------------------
(* Properties *)

\* A proposal that counts as current rests on the very entry it was made from: any
\* feedback, suspension, stage, replacement or eviction since then made it stale, also
\* when the entry was remembered again and looks the same (proposal_is_current).
CurrentIsUntouched ==
  proposal # Absent /\ IsCurrent(proposal) => ~proposal.touched

\* NEVER_AUTOMATE holds until the directive is explicitly replaced: neither eviction nor
\* feedback, policy or remembering the context again ends it (feedback, remember,
\* suspend_for_policy, replace_blocked).
NeverAutomateHolds ==
  \A k \in banned : Present(k) /\ entries[k].status = "BLOCKED"

\* The gate allows nothing that has been rejected, suspended or blocked by the time it
\* reads the stage, although it saw the directive active some steps before (evaluate).
GateRespectsSuspension ==
  [][~Eligible /\ Eligible' =>
       entries[proposal.key].status \notin {"SUSPENDED", "BLOCKED"}]_directiveVars

=============================================================================
