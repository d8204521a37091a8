--------------------- MODULE ControllerAuthorityProofs ----------------------
(***************************************************************************)
(* Theorems about the authority of controllers: the leases of              *)
(* ControllerLease, the commands of CommandGate, the intents of            *)
(* IntentAdmission and the requests of RemoteAuthority, for any resources, *)
(* controllers, times, gates, callers, requests and bounds.                *)
(*                                                                         *)
(* The tokens are what orders the leases of a resource: no lease that was  *)
(* ever committed has a token above highest, and the lease in force is one *)
(* of those committed and has that token.  A new lease is above all of     *)
(* them, so it takes nobody's token, and one that is no longer in force is *)
(* below the token of every lease to come.                                 *)
(*                                                                         *)
(* The file of a gate orders the accepted commands: none is above its      *)
(* watermark.  A call that holds the file lock has loaded what is in the   *)
(* file, so the command that it judged not to be spent is above all        *)
(* accepted ones when its watermark is saved, and still is when it is      *)
(* answered.                                                               *)
(*                                                                         *)
(* A nonce that a caller of the firewall got past is its own until it has  *)
(* been sent or refused.  As no replaced lease returns, a lease that the   *)
(* authority allows at the gate was in force since the firewall saw it.    *)
(*                                                                         *)
(* A request that goes on record takes a lease that was never committed    *)
(* before, so no two requests have one lease; everything that is answered, *)
(* granted or signed later is read from the record of the request.         *)
(***************************************************************************)
EXTENDS CommandGate, IntentAdmission, RemoteAuthority, TLAPS

-----------------------------------------------------------------------------
(* Leases *)

\* No committed lease is above highest, and the lease in force is at it.
TokensOrdered ==
  /\ \A l \in issued : l.token <= highest[l.on]
  /\ \A r \in Resources : active[r] # NoLease =>
       active[r] \in issued /\ active[r].on = r /\ active[r].token = highest[r]

LeaseInv == LeaseTypeOK /\ TokensOrdered /\ TokenNamesLease

\* The token of every new lease is above those committed before.
LEMMA PutPreserves ==
  ASSUME LeaseInv, NEW lease \in Leases, lease.token > highest[lease.on], Put(lease)
  PROVE  /\ active' \in [Resources -> Leases \cup {NoLease}]
         /\ highest' \in [Resources -> Nat]
         /\ issued' \subseteq Leases
         /\ reinstalls' \in Nat
         /\ TokensOrdered'
         /\ TokenNamesLease'
<1> USE DEF LeaseInv, LeaseTypeOK
<1>0. lease.on \in Resources /\ lease.token \in Nat
  BY DEF Leases
<1>1. active' \in [Resources -> Leases \cup {NoLease}]
  BY <1>0 DEF Put
<1>2. highest' \in [Resources -> Nat]
  BY <1>0 DEF Put
<1>3. issued' \subseteq Leases /\ reinstalls' \in Nat
  BY DEF Put
<1>4. \A r \in Resources : highest'[r] >= highest[r]
  BY <1>0 DEF Put
<1>5. \A l \in issued' : l.token <= highest'[l.on]
  <2>1. SUFFICES ASSUME NEW l \in issued' PROVE l.token <= highest'[l.on]
    OBVIOUS
  <2>2. CASE l = lease
    BY <2>2, <1>0 DEF Put
  <2>3. CASE l # lease
    <3>1. l \in issued /\ l.on \in Resources /\ l.token \in Nat
      BY <2>1, <2>3 DEF Put, Leases
    <3>2. l.token <= highest[l.on]
      BY <3>1 DEF TokensOrdered
    <3>3. highest[l.on] \in Nat /\ highest'[l.on] \in Nat
      BY <3>1, <1>2
    <3> QED BY <3>1, <3>2, <3>3, <1>4
  <2> QED BY <2>2, <2>3
<1>6. \A r \in Resources : active'[r] # NoLease =>
        active'[r] \in issued' /\ active'[r].on = r /\ active'[r].token = highest'[r]
  BY <1>0 DEF Put, TokensOrdered
<1>7. TokenNamesLease'
  <2>1. SUFFICES ASSUME NEW a \in issued', NEW b \in issued', a.on = b.on, a.token = b.token
                 PROVE a = b
    BY DEF TokenNamesLease
  <2>2. \A l \in issued : l.on = lease.on => l.token < lease.token
    BY <1>0 DEF TokensOrdered, Leases
  <2> QED BY <2>1, <2>2 DEF Put, TokenNamesLease, Leases
<1> QED BY <1>1, <1>2, <1>3, <1>5, <1>6, <1>7 DEF TokensOrdered

\* Every lease of acquire, handoff and reauthorize is well-formed and above highest.
LEMMA StepPuts ==
  ASSUME LeaseInv, LeaseStep
  PROVE  /\ \E lease \in Leases : lease.token > highest[lease.on] /\ Put(lease)
         /\ usedNonces' \subseteq Nonces
<1> USE DEF LeaseInv, LeaseTypeOK
<1>1. PICK now \in LeaseTimes, ttl \in Ttls :
        \/ \E r \in Resources, c \in Controllers : Acquire(r, c, now, ttl)
        \/ \E lease \in issued, c \in Controllers : Handoff(lease, c, now, ttl)
        \/ \E grant \in Reauthorizations : Reauthorize(grant, now, ttl)
  BY DEF LeaseStep
<1>2. \A r \in Resources, c \in Controllers, token \in Nat \ {0} :
        NewLease(r, c, token, now, ttl) \in Leases
  BY LeaseTimesAssumption DEF NewLease, Leases
<1>3. CASE \E r \in Resources, c \in Controllers : Acquire(r, c, now, ttl)
  <2>1. PICK r \in Resources, c \in Controllers : Acquire(r, c, now, ttl)
    BY <1>3
  <2>2. highest[r] \in Nat
    OBVIOUS
  <2>3. NewLease(r, c, NextToken(r, c), now, ttl) \in Leases
    BY <1>2, <2>2 DEF NextToken
  <2> QED BY <2>1, <2>2, <2>3 DEF Acquire, NewLease, NextToken
<1>4. CASE \E lease \in issued, c \in Controllers : Handoff(lease, c, now, ttl)
  <2>1. PICK lease \in issued, c \in Controllers : Handoff(lease, c, now, ttl)
    BY <1>4
  <2>2. lease.on \in Resources /\ highest[lease.on] \in Nat
    BY DEF Leases
  <2>3. NewLease(lease.on, c, NextToken(lease.on, c), now, ttl) \in Leases
    BY <1>2, <2>2 DEF NextToken
  <2> QED BY <2>1, <2>2, <2>3 DEF Handoff, NewLease, NextToken
<1>5. CASE \E grant \in Reauthorizations : Reauthorize(grant, now, ttl)
  <2>1. PICK grant \in Reauthorizations : Reauthorize(grant, now, ttl)
    BY <1>5
  <2>2. grant.on \in Resources /\ grant.holder \in Controllers /\ grant.previous \in Nat
          /\ grant.nonce \in Nonces /\ highest[grant.on] \in Nat
    BY LeaseTimesAssumption DEF Reauthorizations
  <2>3. NewLease(grant.on, grant.holder, grant.previous + 1, now, ttl) \in Leases
    BY <1>2, <2>2
  <2> QED BY <2>1, <2>2, <2>3 DEF Reauthorize, NewLease
<1> QED BY <1>1, <1>3, <1>4, <1>5

LEMMA LeaseInvInit == LeaseInit => LeaseInv
BY NoLeaseAssumption DEF LeaseInit, LeaseInv, LeaseTypeOK, TokensOrdered, TokenNamesLease

LEMMA LeaseInvNext == LeaseInv /\ [LeaseNext]_leaseVars => LeaseInv'
<1> SUFFICES ASSUME LeaseInv, [LeaseNext]_leaseVars PROVE LeaseInv'
  OBVIOUS
<1>1. CASE LeaseStep
  <2>1. PICK lease \in Leases : lease.token > highest[lease.on] /\ Put(lease)
    BY <1>1, StepPuts
  <2> QED BY <1>1, <2>1, PutPreserves, StepPuts DEF LeaseInv, LeaseTypeOK
<1>2. CASE Reinstall
  BY <1>2 DEF Reinstall, LeaseInv, LeaseTypeOK, TokensOrdered, TokenNamesLease
<1>3. CASE UNCHANGED leaseVars
  BY <1>3 DEF leaseVars, LeaseInv, LeaseTypeOK, TokensOrdered, TokenNamesLease
<1> QED BY <1>1, <1>2, <1>3 DEF LeaseNext

\* A step that leaves the invariant in place brings no replaced lease back.
LEMMA NoLeaseReturns ==
  ASSUME LeaseInv, [LeaseNext]_leaseVars, NEW l \in issued \cap issued', active[l.on] # l
  PROVE  active'[l.on] # l
<1> USE DEF LeaseInv, LeaseTypeOK
<1>1. CASE LeaseStep
  <2>1. PICK lease \in Leases : lease.token > highest[lease.on] /\ Put(lease)
    BY <1>1, StepPuts
  <2>2. l.on \in Resources /\ l.token \in Nat /\ highest[l.on] \in Nat /\ lease.token \in Nat
    BY DEF Leases
  <2>3. l.token <= highest[l.on]
    BY DEF TokensOrdered
  <2>4. lease # l
    BY <2>1, <2>2, <2>3
  <2> QED BY <2>1, <2>2, <2>4 DEF Put
<1>2. CASE Reinstall
  BY <1>2 DEF Reinstall
<1>3. CASE UNCHANGED leaseVars
  BY <1>3 DEF leaseVars
<1> QED BY <1>1, <1>2, <1>3 DEF LeaseNext

\* The file, the tokens and the history keep their types through every acquisition,
\* handoff, reauthorization and reinstallation.
THEOREM LeaseTypeCorrect == LeaseSpec => []LeaseTypeOK
<1>1. LeaseSpec => []LeaseInv
  BY LeaseInvInit, LeaseInvNext, PTL DEF LeaseSpec
<1>2. LeaseInv => LeaseTypeOK
  BY DEF LeaseInv
<1> QED BY <1>1, <1>2, PTL

\* No two leases of a resource share a token, at whatever times and in whatever order
\* acquire, handoff and reauthorize are called.
THEOREM LeaseTokensUnique == LeaseSpec => []TokenNamesLease
<1>1. LeaseSpec => []LeaseInv
  BY LeaseInvInit, LeaseInvNext, PTL DEF LeaseSpec
<1>2. LeaseInv => TokenNamesLease
  BY DEF LeaseInv
<1> QED BY <1>1, <1>2, PTL

\* A lease that was replaced never comes into force again while its file lives.
THEOREM LeaseNeverReturns == LeaseSpec => ReplacedStaysReplaced
<1>. DEFINE NoneReturns ==
       \A lease \in issued \cap issued' :
         active[lease.on] # lease => active'[lease.on] # lease
<1>1. LeaseSpec => []LeaseInv
  BY LeaseInvInit, LeaseInvNext, PTL DEF LeaseSpec
<1>2. LeaseInv /\ [LeaseNext]_leaseVars => [NoneReturns]_leaseVars
  BY NoLeaseReturns
<1> QED BY <1>1, <1>2, PTL DEF LeaseSpec, ReplacedStaysReplaced

-----------------------------------------------------------------------------
(* The gate of signed commands *)

\* The lock is held by the one call that is under way.
Locked ==
  /\ \A g \in Gates : g \in owner <=> job[g].pc \in {"judge", "save", "answer"}
  /\ \A g, h \in owner : g = h

\* The watermark is at least the command.
Covers(mark, c) == c.token < mark.token \/ (c.token = mark.token /\ c.sequence <= mark.sequence)

\* The file covers what was accepted, and a call holds what is in the file until it
\* replaces it by a command that was accepted after all others.
FileOrders ==
  /\ \A c \in accepted : Covers(marks[c.on], c)
  /\ \A g \in Gates :
       /\ job[g].pc \in {"judge", "save"} => job[g].seen = marks
       /\ At(g, "save") => NotSpent(marks[job[g].lease.on], job[g].lease, job[g].sequence)
       /\ At(g, "answer") =>
            /\ Covers(marks[job[g].lease.on], Command(g))
            /\ \A c \in accepted : c.on = job[g].lease.on => Before(c, Command(g))

\* A call that was let through is not below the token it found, one that was not yet
\* judged found no token above the highest.
Floors ==
  \A g \in Gates :
    /\ At(g, "judge") => job[g].floor <= highest[job[g].lease.on]
    /\ job[g].pc \in {"save", "answer"} => job[g].lease.token >= job[g].floor

GateInv == GateTypeOK /\ LeaseInv /\ Locked /\ FileOrders /\ Floors

-----------------------------------------------------------------------------
(* Lemmas about the operators *)

\* ALLOW is for the lease in force.
LEMMA AllowedIsActive ==
  ASSUME NEW lease, NEW now, Verdict(lease, now) = "ALLOW"
  PROVE  active[lease.on] = lease
BY DEF Verdict

\* The gate's steps leave the leases to their own steps.
LEMMA LeasesMove ==
  ASSUME GateNext
  PROVE  [LeaseNext]_leaseVars
BY DEF GateNext, LeaseChanges, IssueGrant, GateStep, GateCall, GateJudge, GateSave, GateAnswer, GateEnds,
       ReinstallAuthority, LeaseNext

\* Tokens only grow while the file of leases lives.
LEMMA HighestGrows ==
  ASSUME LeaseInv, LeaseStep, NEW r \in Resources
  PROVE  highest'[r] >= highest[r]
<1>1. PICK lease \in Leases : lease.token > highest[lease.on] /\ Put(lease)
  BY StepPuts
<1>2. highest[r] \in Nat /\ lease.token \in Nat
  BY DEF LeaseInv, LeaseTypeOK, Leases
<1>. QED BY <1>1, <1>2 DEF Put, LeaseInv, LeaseTypeOK

\* What is above the watermark was not accepted before.
LEMMA NotSpentIsAfter ==
  ASSUME NEW mark \in Marks, NEW lease \in Leases, NEW sequence \in 1 .. MaxSequence,
         NotSpent(mark, lease, sequence), NEW c \in Commands, Covers(mark, c)
  PROVE  Before(c, [on |-> lease.on, token |-> lease.token, sequence |-> sequence])
BY SequenceAssumption DEF Marks, Leases, Commands, NotSpent, Covers, Before

-----------------------------------------------------------------------------
(* The invariant *)

LEMMA GateInitInv == ASSUME GateInit PROVE GateInv
<1>1. LeaseInv
  BY LeaseInvInit DEF GateInit
<1>2. GateTypeOK
  BY <1>1, SequenceAssumption DEF GateInit, GateTypeOK, LeaseInv, Marks, NoMark
<1>. QED BY <1>1, <1>2 DEF GateInit, GateInv, Locked, FileOrders, Floors, Idle, At

\* A call under way is a record of a call.
LEMMA CallType ==
  ASSUME GateTypeOK, NEW g \in Gates
  PROVE  /\ job[g].pc \in {"judge", "save", "answer"} =>
              /\ job[g] \in Calls
              /\ job[g].lease \in Leases /\ job[g].lease.on \in Resources
              /\ job[g].sequence \in 1 .. MaxSequence
              /\ job[g].seen \in [Resources -> Marks] /\ job[g].floor \in Nat
         /\ job[g] \notin {Idle, Allowed} => job[g].pc \in {"judge", "save", "answer"}
BY DEF GateTypeOK, Calls, Idle, Allowed, Leases

\* The lease in force may change under a call, its floor stays below the highest token.
LEMMA LeaseChangesKeep ==
  ASSUME GateInv, LeaseChanges
  PROVE  GateInv'
<1>1. LeaseInv'
  BY LeaseInvNext DEF LeaseChanges, LeaseNext, GateInv
<1>2. GateTypeOK'
  BY <1>1 DEF GateInv, GateTypeOK, LeaseInv, LeaseChanges
<1>3. Floors'
  <2>1. ASSUME NEW g \in Gates, At(g, "judge") PROVE job[g].floor <= highest'[job[g].lease.on]
    <3>1. job[g].lease.on \in Resources /\ job[g].floor \in Nat
      BY <2>1, CallType DEF GateInv, At
    <3>2. highest'[job[g].lease.on] >= highest[job[g].lease.on]
      BY <3>1, HighestGrows DEF GateInv, LeaseChanges
    <3>3. highest[job[g].lease.on] \in Nat /\ highest'[job[g].lease.on] \in Nat
      BY <1>1, <3>1 DEF GateInv, LeaseInv, LeaseTypeOK
    <3>. QED BY <2>1, <3>1, <3>2, <3>3 DEF GateInv, Floors
  <2>. QED BY <2>1 DEF GateInv, Floors, LeaseChanges, At
<1>4. Locked' /\ FileOrders'
  BY DEF GateInv, Locked, FileOrders, LeaseChanges, At, Command
<1>. QED BY <1>1, <1>2, <1>3, <1>4 DEF GateInv

LEMMA GateStepKeeps ==
  ASSUME GateInv, NEW g \in Gates, GateStep(g)
  PROVE  GateInv'
<1>. USE DEF At
<1>0. /\ job \in [Gates -> Calls \cup {Idle, Allowed}] /\ owner \subseteq Gates
      /\ marks \in [Resources -> Marks] /\ accepted \subseteq Commands
      /\ credentials \subseteq Credentials
  BY DEF GateInv, GateTypeOK
<1>1. UNCHANGED leaseVars /\ UNCHANGED credentials
  BY DEF GateStep, GateCall, GateJudge, GateSave, GateAnswer, GateEnds
<1>2. LeaseInv'
  BY <1>1, LeaseInvNext DEF GateInv
<1>3. LeaseTypeOK'
  BY <1>2 DEF LeaseInv
<1>4. ASSUME NEW lease \in Leases, NEW n \in 1 .. MaxSequence, GateCall(g, lease, n) PROVE GateInv'
  <2>. DEFINE call == [pc |-> "judge", lease |-> lease, sequence |-> n, seen |-> marks,
                       floor |-> highest[lease.on]]
  <2>1. lease.on \in Resources /\ highest[lease.on] \in Nat
    BY DEF Leases, GateInv, LeaseInv, LeaseTypeOK
  <2>2. call \in Calls /\ call.pc = "judge" /\ call.lease = lease /\ call.seen = marks
        /\ call.floor = highest[lease.on]
    BY <1>0, <2>1 DEF Calls
  <2>3. /\ owner = {} /\ owner' = {g} /\ job' = [job EXCEPT ![g] = call]
        /\ UNCHANGED <<marks, accepted, highest>>
    BY <1>4 DEF GateCall, LockFree, leaseVars
  <2>. HIDE DEF call
  <2>4. GateTypeOK'
    BY <1>0, <1>1, <1>3, <2>2, <2>3 DEF GateTypeOK
  <2>5. Locked'
    BY <1>0, <2>2, <2>3 DEF GateInv, Locked
  <2>6. \A h \in Gates : job[h].pc \notin {"judge", "save", "answer"}
    BY <2>3 DEF GateInv, Locked
  <2>7. \A h \in Gates : h # g => job'[h].pc \notin {"judge", "save", "answer"}
    BY <1>0, <2>3, <2>6
  <2>8. FileOrders'
    BY <1>0, <2>2, <2>3, <2>7 DEF GateInv, FileOrders
  <2>9. Floors'
    BY <1>0, <2>1, <2>2, <2>3, <2>7 DEF Floors
  <2>. QED BY <1>2, <2>4, <2>5, <2>8, <2>9 DEF GateInv
\* All other steps are of the call that holds the lock.
<1>. DEFINE Alone == \A h \in Gates : h # g => job[h].pc \notin {"judge", "save", "answer"}
<1>5. ASSUME job[g].pc \in {"judge", "save", "answer"} PROVE g \in owner /\ Alone
  BY <1>5 DEF GateInv, Locked
<1>6. ASSUME NEW c \in credentials, NEW n \in 1 .. MaxSequence, NEW k \in Keys, NEW now \in LeaseTimes,
             GateJudge(g, c, [about |-> c, sequence |-> n, key |-> k], now)
      PROVE  GateInv'
  <2>1. /\ job[g].pc = "judge" /\ c.lease = job[g].lease /\ n = job[g].sequence
        /\ NotSpent(job[g].seen[c.lease.on], c.lease, n)
        /\ job' = [job EXCEPT ![g].pc = "save"]
        /\ UNCHANGED <<marks, owner, accepted, highest>>
        /\ Verdict(c.lease, now) = "ALLOW"
    BY <1>6 DEF GateJudge, Goto, leaseVars
  <2>2. /\ job[g] \in Calls /\ job[g].seen = marks /\ job[g].lease \in Leases /\ job[g].floor \in Nat
        /\ job[g].lease.on \in Resources /\ Alone /\ g \in owner
    BY <1>5, <2>1, CallType DEF GateInv, FileOrders
  <2>3. /\ job' \in [Gates -> Calls \cup {Idle, Allowed}]
        /\ job'[g] \in Calls /\ job'[g].pc = "save"
        /\ job'[g].lease = job[g].lease /\ job'[g].sequence = job[g].sequence
        /\ job'[g].seen = marks /\ job'[g].floor = job[g].floor
        /\ \A h \in Gates : h # g => job'[h] = job[h]
    BY <1>0, <2>1, <2>2 DEF Calls
  <2>4. GateTypeOK'
    BY <1>1, <1>3, <2>1, <2>3 DEF GateInv, GateTypeOK
  <2>5. Locked'
    BY <2>1, <2>2, <2>3 DEF GateInv, Locked
  <2>6. FileOrders'
    BY <2>1, <2>2, <2>3 DEF GateInv, FileOrders
  <2>7. job[g].lease.token = highest[job[g].lease.on]
    BY <2>1, <2>2, AllowedIsActive, NoLeaseAssumption DEF GateInv, LeaseInv, TokensOrdered
  <2>8. Floors'
    BY <2>1, <2>2, <2>3, <2>7 DEF GateInv, Floors, Leases
  <2>. QED BY <1>2, <2>4, <2>5, <2>6, <2>8 DEF GateInv
<1>7. CASE GateSave(g)
  <2>. DEFINE r == job[g].lease.on
              mark == [token |-> job[g].lease.token, sequence |-> job[g].sequence]
  <2>1. /\ job[g].pc = "save" /\ marks' = [job[g].seen EXCEPT ![r] = mark]
        /\ job' = [job EXCEPT ![g].pc = "answer"]
        /\ UNCHANGED <<owner, accepted, highest>>
    BY <1>7 DEF GateSave, Goto, leaseVars
  <2>2. /\ job[g] \in Calls /\ job[g].seen = marks /\ job[g].lease \in Leases /\ job[g].floor \in Nat
        /\ r \in Resources /\ Alone /\ g \in owner /\ job[g].sequence \in 1 .. MaxSequence
        /\ NotSpent(marks[r], job[g].lease, job[g].sequence)
    BY <1>5, <2>1, CallType DEF GateInv, FileOrders
  <2>3. /\ job' \in [Gates -> Calls \cup {Idle, Allowed}]
        /\ job'[g] \in Calls /\ job'[g].pc = "answer"
        /\ job'[g].lease = job[g].lease /\ job'[g].sequence = job[g].sequence
        /\ job'[g].floor = job[g].floor
        /\ \A h \in Gates : h # g => job'[h] = job[h]
    BY <1>0, <2>1, <2>2 DEF Calls
  <2>4. mark \in Marks
    BY <2>2, SequenceAssumption DEF Marks, Leases
  <2>5. /\ marks' \in [Resources -> Marks] /\ marks'[r] = mark
        /\ \A s \in Resources : s # r => marks'[s] = marks[s]
    BY <1>0, <2>1, <2>2, <2>4
  <2>6. Command(g)' = [on |-> r, token |-> job[g].lease.token, sequence |-> job[g].sequence]
    BY <2>3 DEF Command
  <2>7. ASSUME NEW c \in accepted, c.on = r
        PROVE  Before(c, [on |-> r, token |-> job[g].lease.token, sequence |-> job[g].sequence])
    <3>1. Covers(marks[r], c) /\ c \in Commands
      BY <1>0, <2>7 DEF GateInv, FileOrders
    <3>. QED BY <1>0, <2>2, <3>1, NotSpentIsAfter
  <2>8. ASSUME NEW c \in accepted PROVE Covers(marks'[c.on], c)
    <3>1. CASE c.on = r
      BY <2>5, <2>7, <3>1, <1>0, <2>2, SequenceAssumption DEF Before, Covers, Commands, Leases
    <3>2. CASE c.on # r
      BY <1>0, <2>5, <3>2 DEF GateInv, FileOrders, Commands
    <3>. QED BY <3>1, <3>2
  <2>9. Covers(marks'[r], Command(g)')
    BY <2>2, <2>5, <2>6, SequenceAssumption DEF Covers, Leases
  <2>. HIDE DEF r, mark
  <2>10. GateTypeOK'
    BY <1>1, <1>3, <2>1, <2>3, <2>5 DEF GateInv, GateTypeOK
  <2>11. Locked'
    BY <2>1, <2>2, <2>3 DEF GateInv, Locked
  <2>12. \A h \in Gates : h # g => job'[h].pc \notin {"judge", "save", "answer"}
    BY <2>2, <2>3
  <2>13. \A c \in accepted : c.on = r => Before(c, Command(g)')
    BY <2>6, <2>7
  <2>14. FileOrders'
    BY <2>1, <2>3, <2>8, <2>9, <2>12, <2>13 DEF FileOrders, r
  <2>15. Floors'
    BY <2>1, <2>2, <2>3 DEF GateInv, Floors
  <2>. QED BY <1>2, <2>10, <2>11, <2>14, <2>15 DEF GateInv
<1>8. CASE GateAnswer(g)
  <2>1. /\ job[g].pc = "answer" /\ accepted' = accepted \cup {Command(g)} /\ owner' = owner \ {g}
        /\ job' = [job EXCEPT ![g] = Allowed]
        /\ UNCHANGED <<marks, highest>>
    BY <1>8 DEF GateAnswer, leaseVars
  <2>2. /\ job[g].lease \in Leases /\ job[g].sequence \in 1 .. MaxSequence /\ Alone /\ g \in owner
        /\ Covers(marks[job[g].lease.on], Command(g))
    BY <1>5, <2>1, CallType DEF GateInv, FileOrders
  <2>3. Command(g) \in Commands /\ Command(g).on = job[g].lease.on
    BY <2>2 DEF Command, Commands, Leases
  <2>4. job'[g] = Allowed /\ \A h \in Gates : h # g => job'[h] = job[h]
    BY <1>0, <2>1
  <2>5. \A h \in Gates : job'[h].pc \notin {"judge", "save", "answer"}
    BY <2>2, <2>4 DEF Allowed
  <2>6. GateTypeOK'
    BY <1>0, <1>1, <1>3, <2>1, <2>3 DEF GateInv, GateTypeOK
  <2>7. Locked'
    BY <2>1, <2>5 DEF GateInv, Locked
  <2>8. \A c \in accepted' : Covers(marks[c.on], c)
    BY <2>1, <2>2, <2>3 DEF GateInv, FileOrders
  <2>. QED BY <1>2, <2>1, <2>5, <2>6, <2>7, <2>8 DEF GateInv, FileOrders, Floors
<1>9. CASE GateEnds(g)
  <2>1. /\ job[g].pc \in {"judge", "save", "answer"} /\ owner' = owner \ {g}
        /\ job' = [job EXCEPT ![g] = Idle]
        /\ UNCHANGED <<marks, accepted, highest>>
    BY <1>9, CallType DEF GateInv, GateEnds, leaseVars
  <2>2. Alone /\ g \in owner
    BY <1>5, <2>1
  <2>3. job'[g] = Idle /\ \A h \in Gates : h # g => job'[h] = job[h]
    BY <1>0, <2>1
  <2>4. \A h \in Gates : job'[h].pc \notin {"judge", "save", "answer"}
    BY <2>2, <2>3 DEF Idle
  <2>5. GateTypeOK'
    BY <1>0, <1>1, <1>3, <2>1 DEF GateInv, GateTypeOK
  <2>6. Locked'
    BY <2>1, <2>4 DEF GateInv, Locked
  <2>. QED BY <1>2, <2>1, <2>4, <2>5, <2>6 DEF GateInv, FileOrders, Floors
<1>10. \A c \in credentials : c.lease \in Leases
  BY <1>0 DEF Credentials
<1>. QED BY <1>4, <1>6, <1>7, <1>8, <1>9, <1>10 DEF GateStep

LEMMA GateNextInv == ASSUME GateInv, [GateNext]_gateVars PROVE GateInv'
<1>1. ASSUME NEW lease \in issued, NEW key \in Keys, NEW now \in LeaseTimes, IssueGrant(lease, key, now)
      PROVE  GateInv'
  <2>1. LeaseInv'
    BY <1>1, LeaseInvNext DEF GateInv, IssueGrant
  <2>2. GateTypeOK'
    BY <1>1, <2>1 DEF GateInv, GateTypeOK, LeaseInv, LeaseTypeOK, IssueGrant, Credentials
  <2>. QED BY <1>1, <2>1, <2>2
       DEF GateInv, IssueGrant, Locked, FileOrders, Floors, At, Command, leaseVars
<1>2. CASE ReinstallAuthority
  <2>1. LeaseInv'
    BY <1>2, LeaseInvNext DEF GateInv, ReinstallAuthority, LeaseNext
  <2>2. GateTypeOK'
    BY <1>2, <2>1 DEF GateInv, GateTypeOK, LeaseInv, ReinstallAuthority
  <2>3. \A g \in Gates : job'[g].pc = "idle"
    BY <1>2 DEF ReinstallAuthority, Idle
  <2>. QED BY <1>2, <2>1, <2>2, <2>3
       DEF GateInv, ReinstallAuthority, Locked, FileOrders, Floors, At
<1>3. CASE UNCHANGED gateVars
  <2>1. UNCHANGED leaseVars /\ UNCHANGED <<credentials, marks, owner, job, accepted>>
    BY <1>3 DEF gateVars
  <2>2. LeaseInv'
    BY <2>1, LeaseInvNext DEF GateInv
  <2>3. UNCHANGED highest
    BY <2>1 DEF leaseVars
  <2>. QED BY <2>1, <2>2, <2>3
       DEF GateInv, GateTypeOK, LeaseInv, Locked, FileOrders, Floors, At, Command
<1>. QED BY <1>1, <1>2, <1>3, LeaseChangesKeep, GateStepKeeps DEF GateNext

LEMMA GateInvIsInvariant == GateSpec => []GateInv
BY GateInitInv, GateNextInv, PTL DEF GateSpec

-----------------------------------------------------------------------------
(* The theorems *)

\* The file, the calls and the history keep their types.
THEOREM GateTypeCorrect == GateSpec => []GateTypeOK
BY GateInvIsInvariant, PTL DEF GateInv

\* Only one gate works on the file at a time, and what it loaded is what is in the file
\* until it replaces it.
THEOREM FileHasOneWriter == GateSpec => [](Locked /\ FileOrders)
BY GateInvIsInvariant, PTL DEF GateInv

\* Whichever gates they come to, and whatever crashes and reinstallations lie between,
\* the commands accepted for a resource are in the order of their tokens and sequences.
THEOREM AcceptedStayInOrder == GateSpec => AcceptedInOrder
<1>. DEFINE InOrder ==
       \A g \in Gates :
         At(g, "answer") /\ job'[g] = Allowed =>
           \A c \in accepted : c.on = job[g].lease.on => Before(c, Command(g))
<1>1. GateInv => InOrder
  BY DEF GateInv, FileOrders
<1>2. GateInv /\ [GateNext]_gateVars => [InOrder]_gateVars
  BY <1>1
<1>. QED BY <1>2, GateInvIsInvariant, PTL DEF GateSpec, AcceptedInOrder

\* No gate lets a lease through that was replaced before the call.
THEOREM FencedThroughout == GateSpec => []FencedFromTheStart
<1>1. GateInv => FencedFromTheStart
  BY DEF GateInv, Floors, FencedFromTheStart, At
<1>. QED BY <1>1, GateInvIsInvariant, PTL

\* The gates, and the grants they go by, leave the lease authority as it is: what they
\* do to it is what it does by itself.
THEOREM GatesKeepTheLeases == GateSpec => LeaseSpec
<1>1. GateInit => LeaseInit
  BY DEF GateInit
<1>2. [GateNext]_gateVars => [LeaseNext]_leaseVars
  BY LeasesMove DEF gateVars
<1>. QED BY <1>1, <1>2, PTL DEF GateSpec, LeaseSpec

\* With the gates at work too, a replaced lease never comes into force again.
THEOREM LeaseNeverReturnsAtGates == GateSpec => ReplacedStaysReplaced
BY GatesKeepTheLeases, LeaseNeverReturns

-----------------------------------------------------------------------------
(* The admission of intents *)

\* The steps of a call whose nonce is spent and that has not sent its request.
Holding == {"gate", "recheck", "dispatch"}

\* A nonce that was sent is spent, and one that a call holds is spent, was not sent and
\* is held by that call alone.
NoncesHeld ==
  /\ \A k \in NonceKeys : sent[k] <= 1 /\ (sent[k] # 0 => k \in seen)
  /\ \A p \in Callers : commits[p].step \in Holding =>
       NonceKey(commits[p].intent) \in seen /\ sent[NonceKey(commits[p].intent)] = 0
  /\ \A p, q \in Callers :
       /\ commits[p].step \in Holding /\ commits[q].step \in Holding
       /\ NonceKey(commits[p].intent) = NonceKey(commits[q].intent)
       => p = q

NoncesAdmitted == \A n \in IntentNonces : admitted[n] <= 1 /\ (admitted[n] # 0 => n \in spent)

\* What is known of a call's terms: its lease was granted and is out of force if it was
\* replaced, its deadline was ahead when the gate looked at the clock, and a call the
\* authority passed twice had its lease throughout.
SoundCall(call) ==
  /\ Issuable(call.intent)
  /\ Bound(call.intent) =>
       /\ call.intent.lease \in issued
       /\ call.replaced => active[call.intent.lease.on] # call.intent.lease
       /\ call.step = "dispatch" => ~call.replaced
  /\ call.step \in {"recheck", "dispatch"} => call.gateNow < call.intent.window.until

CallsSound == \A p \in Callers : ~CallAt(p, "idle") => SoundCall(commits[p])

IntentInv == LeaseInv /\ IntentTypeOK /\ NoncesHeld /\ NoncesAdmitted /\ CallsSound

-----------------------------------------------------------------------------
(* The calls *)

LEMMA CallerType ==
  ASSUME IntentTypeOK, NEW p \in Callers, ~CallAt(p, "idle")
  PROVE  /\ commits[p] \in CallsUnderWay
         /\ commits[p].intent \in Intents
         /\ NonceKey(commits[p].intent) \in NonceKeys
<1>1. commits[p] \in CallsUnderWay
  BY DEF IntentTypeOK, CallAt, NotStarted
<1>2. commits[p].intent \in Intents
  BY <1>1 DEF CallsUnderWay
<1> QED BY <1>1, <1>2 DEF NonceKey, NonceKeys, Bound, Intents

\* A call that is not under way is at no step of one.
LEMMA IdleHolds ==
  ASSUME NEW p \in Callers, commits'[p] = NotStarted
  PROVE  commits'[p].step \notin Holding /\ CallAt(p, "idle")'
BY DEF NotStarted, Holding, CallAt

\* A step of a call that changes neither nonces nor leases, and takes hold of no nonce.
LEMMA CallStepKeeps ==
  ASSUME IntentInv, NEW p \in Callers, NEW call \in CallsUnderWay \cup {NotStarted},
         commits' = [commits EXCEPT ![p] = call],
         call.step \in Holding =>
           commits[p].step \in Holding /\ NonceKey(call.intent) = NonceKey(commits[p].intent),
         call # NotStarted => SoundCall(call),
         UNCHANGED <<leaseVars, endpointVars, wall, seen, sent>>
  PROVE  IntentInv'
<1> USE DEF IntentInv
<1>. UNCHANGED <<active, highest, usedNonces, issued, reinstalls, arriving, spent, admitted,
                 wall, seen, sent>>
  BY DEF leaseVars, endpointVars
<1>0. \A q \in Callers : commits[q] \in CallsUnderWay \cup {NotStarted}
  BY DEF IntentTypeOK
<1>1. LeaseInv'
  BY DEF LeaseInv, LeaseTypeOK, TokensOrdered, TokenNamesLease
<1>2. IntentTypeOK'
  BY <1>0, <1>1 DEF IntentTypeOK, LeaseInv
<1>3. NoncesHeld'
  BY DEF NoncesHeld, IntentTypeOK
<1>4. NoncesAdmitted'
  BY DEF NoncesAdmitted
<1>5. CallsSound'
  BY DEF CallsSound, SoundCall, CallAt, NotStarted, IntentTypeOK
<1> QED BY <1>1, <1>2, <1>3, <1>4, <1>5

-----------------------------------------------------------------------------
(* The steps *)

LEMMA IntentInvInit == IntentInit => IntentInv
<1> SUFFICES ASSUME IntentInit PROVE IntentInv
  OBVIOUS
<1>1. LeaseInv
  BY LeaseInvInit DEF IntentInit
<1>2. IntentTypeOK
  BY <1>1, WallAssumption DEF IntentInit, IntentTypeOK, LeaseInv
<1>3. NoncesHeld /\ NoncesAdmitted /\ CallsSound
  BY DEF IntentInit, NoncesHeld, NoncesAdmitted, CallsSound, NotStarted, Holding, CallAt
<1> QED BY <1>1, <1>2, <1>3 DEF IntentInv

LEMMA BeginCallKeeps ==
  ASSUME IntentInv, NEW p \in Callers, BeginCall(p)
  PROVE  IntentInv'
<1>1. PICK i \in Issued :
        /\ Issuable(i)
        /\ commits' = [commits EXCEPT ![p] =
             [step |-> "judge", intent |-> i, now |-> wall, gateNow |-> 0, replaced |-> FALSE]]
  BY DEF BeginCall
<1>. DEFINE call ==
       [step |-> "judge", intent |-> i, now |-> wall, gateNow |-> 0, replaced |-> FALSE]
<1>2. i \in Intents /\ (Bound(i) => i.lease \in issued)
  BY DEF Issued, Intents, Bound, IntentInv, LeaseInv, LeaseTypeOK
<1>3. call \in CallsUnderWay
  BY <1>2, WallAssumption DEF CallsUnderWay, IntentInv, IntentTypeOK
<1>4. SoundCall(call)
  BY <1>1, <1>2 DEF SoundCall
<1>5. call.step \notin Holding
  BY DEF Holding
<1>6. commits' = [commits EXCEPT ![p] = call]
  BY <1>1
<1>7. UNCHANGED <<leaseVars, endpointVars, wall, seen, sent>>
  BY DEF BeginCall
<1> HIDE DEF call
<1> QED BY <1>3, <1>4, <1>5, <1>6, <1>7, CallStepKeeps

\* A call that goes on to another step of the same intent.
LEMMA OnwardType ==
  ASSUME IntentTypeOK, NEW p \in Callers, ~CallAt(p, "idle"),
         NEW step \in {"judge", "nonce", "gate", "recheck", "dispatch"}
  PROVE  /\ [commits[p] EXCEPT !.step = step] \in CallsUnderWay
         /\ [commits[p] EXCEPT !.step = step].intent = commits[p].intent
         /\ [commits[p] EXCEPT !.step = step].step = step
         /\ [commits[p] EXCEPT !.step = step].replaced = commits[p].replaced
         /\ [commits[p] EXCEPT !.step = step].gateNow = commits[p].gateNow
         /\ [commits[p] EXCEPT !.step = step] # NotStarted
BY CallerType DEF CallsUnderWay, NotStarted

LEMMA ProceedIs ==
  ASSUME IntentTypeOK, NEW p \in Callers, NEW step, Proceed(p, step)
  PROVE  commits' = [commits EXCEPT ![p] = [commits[p] EXCEPT !.step = step]]
BY DEF Proceed, IntentTypeOK

LEMMA JudgeKeeps ==
  ASSUME IntentInv, NEW p \in Callers, Judge(p)
  PROVE  IntentInv'
<1>. DEFINE call == [commits[p] EXCEPT !.step = "nonce"]
<1>1. CallAt(p, "judge") /\ ~CallAt(p, "idle")
  BY DEF Judge, CallAt
<1>2. call \in CallsUnderWay /\ call.intent = commits[p].intent /\ call.step = "nonce"
        /\ call.replaced = commits[p].replaced /\ call # NotStarted
  BY <1>1, OnwardType DEF IntentInv
<1>3. commits' = [commits EXCEPT ![p] = call]
  BY ProceedIs DEF Judge, IntentInv
<1>4. SoundCall(call)
  BY <1>1, <1>2 DEF SoundCall, IntentInv, CallsSound
<1>5. UNCHANGED <<leaseVars, endpointVars, wall, seen, sent>>
  BY DEF Judge
<1> HIDE DEF call
<1> QED BY <1>2, <1>3, <1>4, <1>5, CallStepKeeps DEF Holding

LEMMA SpendNonceKeeps ==
  ASSUME IntentInv, NEW p \in Callers, SpendNonce(p)
  PROVE  IntentInv'
<1> USE DEF IntentInv
<1>. DEFINE call == [commits[p] EXCEPT !.step = "gate"]
            k == NonceKey(commits[p].intent)
<1>1. CallAt(p, "nonce") /\ ~CallAt(p, "idle") /\ k \notin seen /\ seen' = seen \cup {k}
  BY DEF SpendNonce, CallAt
<1>2. call \in CallsUnderWay /\ call.intent = commits[p].intent /\ call.step = "gate"
        /\ call.replaced = commits[p].replaced /\ call # NotStarted
  BY <1>1, OnwardType
<1>3. commits' = [commits EXCEPT ![p] = call]
  BY ProceedIs DEF SpendNonce
<1>4. SoundCall(call)
  BY <1>1, <1>2 DEF SoundCall, CallsSound
<1>5. /\ UNCHANGED <<active, highest, usedNonces, issued, reinstalls>>
      /\ UNCHANGED <<arriving, spent, admitted, wall, sent>>
  BY DEF SpendNonce, leaseVars, endpointVars
<1>6. k \in NonceKeys /\ sent[k] = 0
  BY <1>1, CallerType DEF NoncesHeld, IntentTypeOK
<1> HIDE DEF call, k
<1>7. LeaseInv'
  BY <1>5 DEF LeaseInv, LeaseTypeOK, TokensOrdered, TokenNamesLease
<1>8. IntentTypeOK'
  BY <1>1, <1>2, <1>3, <1>5, <1>6, <1>7 DEF IntentTypeOK, LeaseInv
<1>9. NoncesHeld'
  <2>1. \A q \in Callers : commits'[q] = IF q = p THEN call ELSE commits[q]
    BY <1>3 DEF IntentTypeOK
  <2>2. NonceKey(call.intent) = k
    BY <1>2 DEF k
  <2>3. \A key \in NonceKeys : sent'[key] <= 1 /\ (sent'[key] # 0 => key \in seen')
    BY <1>1, <1>5 DEF NoncesHeld
  <2>4. \A q \in Callers : commits'[q].step \in Holding =>
          NonceKey(commits'[q].intent) \in seen' /\ sent'[NonceKey(commits'[q].intent)] = 0
    BY <2>1, <2>2, <1>1, <1>5, <1>6 DEF NoncesHeld
  <2>5. \A q, r \in Callers :
          /\ commits'[q].step \in Holding /\ commits'[r].step \in Holding
          /\ NonceKey(commits'[q].intent) = NonceKey(commits'[r].intent)
          => q = r
    BY <2>1, <2>2, <1>1 DEF NoncesHeld
  <2> QED BY <2>3, <2>4, <2>5 DEF NoncesHeld
<1>10. NoncesAdmitted'
  BY <1>5 DEF NoncesAdmitted
<1>11. CallsSound'
  BY <1>3, <1>4, <1>5 DEF CallsSound, SoundCall, CallAt, IntentTypeOK
<1> QED BY <1>7, <1>8, <1>9, <1>10, <1>11

\* What the gate read is the time it compared with the deadline.
LEMMA GatedKeeps ==
  ASSUME IntentInv, NEW p \in Callers, CallAt(p, "gate"), NEW step \in {"recheck", "dispatch"},
         step = "dispatch" => ~Bound(commits[p].intent),
         wall < commits[p].intent.window.until,
         commits' = [commits EXCEPT ![p].step = step, ![p].gateNow = wall],
         UNCHANGED <<leaseVars, endpointVars, wall, seen, sent>>
  PROVE  IntentInv'
<1>. DEFINE call == [commits[p] EXCEPT !.step = step, !.gateNow = wall]
<1>1. ~CallAt(p, "idle")
  BY DEF CallAt
<1>2. commits[p] \in CallsUnderWay /\ wall \in 0 .. MaxWall
  BY <1>1, CallerType DEF IntentInv, IntentTypeOK
<1>3. call \in CallsUnderWay /\ call.intent = commits[p].intent /\ call.step = step
        /\ call.replaced = commits[p].replaced /\ call # NotStarted /\ call.gateNow = wall
  BY <1>2 DEF CallsUnderWay, NotStarted
<1>4. commits' = [commits EXCEPT ![p] = call]
  BY DEF IntentInv, IntentTypeOK
<1>5. SoundCall(call)
  BY <1>1, <1>3 DEF SoundCall, IntentInv, CallsSound
<1>6. commits[p].step \in Holding
  BY DEF CallAt, Holding
<1> HIDE DEF call
<1> QED BY <1>3, <1>4, <1>5, <1>6, CallStepKeeps

LEMMA GateKeeps == ASSUME IntentInv, NEW p \in Callers, Gate(p) PROVE IntentInv'
BY GatedKeeps DEF Gate, InTime

LEMMA GateDeprecatedKeeps ==
  ASSUME IntentInv, NEW p \in Callers, GateDeprecated(p) PROVE IntentInv'
BY GatedKeeps DEF GateDeprecated

\* The authority allows only the lease in force, and a replaced one never is again.
LEMMA RecheckKeeps ==
  ASSUME IntentInv, NEW p \in Callers, RecheckAuthority(p)
  PROVE  IntentInv'
<1>. DEFINE call == [commits[p] EXCEPT !.step = "dispatch"]
            i == commits[p].intent
<1>1. CallAt(p, "recheck") /\ ~CallAt(p, "idle")
  BY DEF RecheckAuthority, CallAt
<1>2. call \in CallsUnderWay /\ call.intent = i /\ call.step = "dispatch"
        /\ call.replaced = commits[p].replaced /\ call # NotStarted
        /\ call.gateNow = commits[p].gateNow
  BY <1>1, OnwardType DEF IntentInv
<1>3. commits' = [commits EXCEPT ![p] = call]
  BY ProceedIs DEF RecheckAuthority, IntentInv
<1>4. Bound(i) => active[i.lease.on] = i.lease
  <2>1. Bound(i) => Verdict(i.lease, commits[p].now) = "ALLOW"
    BY DEF RecheckAuthority, StillCurrent
  <2> QED BY <2>1 DEF Verdict
<1>5. SoundCall(commits[p])
  BY <1>1 DEF IntentInv, CallsSound
<1>6. Bound(i) => ~call.replaced
  BY <1>2, <1>4, <1>5 DEF SoundCall
<1>7. SoundCall(call)
  BY <1>1, <1>2, <1>5, <1>6 DEF SoundCall, CallAt
<1>8. UNCHANGED <<leaseVars, endpointVars, wall, seen, sent>>
  BY DEF RecheckAuthority
<1>9. commits[p].step \in Holding
  BY <1>1 DEF Holding, CallAt
<1> HIDE DEF call
<1> QED BY <1>2, <1>3, <1>7, <1>8, <1>9, CallStepKeeps

LEMMA RefuseCallKeeps == ASSUME IntentInv, NEW p \in Callers, RefuseCall(p) PROVE IntentInv'
<1>1. NotStarted.step \notin Holding
  BY DEF NotStarted, Holding
<1> QED BY <1>1, CallStepKeeps DEF RefuseCall

LEMMA DispatchKeeps ==
  ASSUME IntentInv, NEW p \in Callers, Dispatch(p)
  PROVE  IntentInv'
<1> USE DEF IntentInv
<1>. DEFINE k == NonceKey(commits[p].intent)
<1>1. CallAt(p, "dispatch") /\ ~CallAt(p, "idle") /\ commits[p].step \in Holding
  BY DEF Dispatch, CallAt, Holding
<1>2. commits[p].intent \in Intents /\ k \in NonceKeys
  BY <1>1, CallerType
<1>3. /\ UNCHANGED <<active, highest, usedNonces, issued, reinstalls>>
      /\ UNCHANGED <<wall, seen, spent, admitted>>
      /\ sent' = [sent EXCEPT ![k] = @ + 1]
      /\ commits' = [commits EXCEPT ![p] = NotStarted]
      /\ arriving' \in {arriving, commits[p].intent}
  BY DEF Dispatch, leaseVars
<1>4. sent[k] = 0 /\ k \in seen
  BY <1>1 DEF NoncesHeld
<1> HIDE DEF k
<1>5. LeaseInv'
  BY <1>3 DEF LeaseInv, LeaseTypeOK, TokensOrdered, TokenNamesLease
<1>6. IntentTypeOK'
  BY <1>2, <1>3, <1>5 DEF IntentTypeOK, LeaseInv
<1>7. NoncesHeld'
  <2>1. /\ \A q \in Callers : commits'[q] = IF q = p THEN NotStarted ELSE commits[q]
        /\ \A key \in NonceKeys : sent'[key] = IF key = k THEN 1 ELSE sent[key]
    BY <1>2, <1>3, <1>4 DEF IntentTypeOK
  <2>2. \A q \in Callers : commits'[q].step \in Holding =>
          /\ q # p /\ commits'[q] = commits[q] /\ NonceKey(commits[q].intent) \in NonceKeys
          /\ NonceKey(commits[q].intent) # k
    <3>1. \A q \in Callers : commits[q].step \in Holding => NonceKey(commits[q].intent) \in NonceKeys
      BY CallerType DEF CallAt, Holding
    <3>2. NotStarted.step \notin Holding
      BY DEF NotStarted, Holding
    <3> QED BY <2>1, <3>1, <3>2, <1>1 DEF NoncesHeld, k
  <2>3. \A key \in NonceKeys : sent'[key] <= 1 /\ (sent'[key] # 0 => key \in seen')
    BY <2>1, <1>3, <1>4 DEF NoncesHeld
  <2>4. \A q \in Callers : commits'[q].step \in Holding =>
          NonceKey(commits'[q].intent) \in seen' /\ sent'[NonceKey(commits'[q].intent)] = 0
    BY <2>1, <2>2, <1>3 DEF NoncesHeld
  <2>5. \A q, r \in Callers :
          /\ commits'[q].step \in Holding /\ commits'[r].step \in Holding
          /\ NonceKey(commits'[q].intent) = NonceKey(commits'[r].intent)
          => q = r
    BY <2>2 DEF NoncesHeld
  <2> QED BY <2>3, <2>4, <2>5 DEF NoncesHeld
<1>8. NoncesAdmitted'
  BY <1>3 DEF NoncesAdmitted
<1>9. CallsSound'
  BY <1>3 DEF CallsSound, SoundCall, CallAt, NotStarted, IntentTypeOK
<1> QED BY <1>5, <1>6, <1>7, <1>8, <1>9

LEMMA EndpointAdmitKeeps ==
  ASSUME IntentInv, arriving # NoLease, EndpointAdmit(arriving)
  PROVE  IntentInv'
<1> USE DEF IntentInv
<1>1. arriving.nonce \in IntentNonces
  BY DEF IntentTypeOK, Intents
<1>2. /\ UNCHANGED <<active, highest, usedNonces, issued, reinstalls>>
      /\ UNCHANGED <<wall, seen, commits, sent, arriving>>
      /\ arriving.nonce \notin spent /\ spent' = spent \cup {arriving.nonce}
      /\ admitted' = [admitted EXCEPT ![arriving.nonce] = @ + 1]
  BY DEF EndpointAdmit, leaseVars, controlVars
<1>3. LeaseInv'
  BY <1>2 DEF LeaseInv, LeaseTypeOK, TokensOrdered, TokenNamesLease
<1>4. IntentTypeOK'
  BY <1>1, <1>2, <1>3 DEF IntentTypeOK, LeaseInv
<1>5. NoncesHeld' /\ CallsSound'
  BY <1>2 DEF NoncesHeld, CallsSound, SoundCall, CallAt
<1>6. NoncesAdmitted'
  BY <1>1, <1>2 DEF NoncesAdmitted, IntentTypeOK
<1> QED BY <1>3, <1>4, <1>5, <1>6

\* The lease changes as the authority's methods change it, and the file lives on.
LEMMA LeaseReplacedIsStep ==
  ASSUME IntentInv, LeaseReplaced
  PROVE  LeaseStep /\ issued \subseteq issued'
<1>1. PICK ttl \in Ttls, r \in Resources, c \in Controllers :
        \/ Acquire(r, c, wall, ttl)
        \/ active[r] # NoLease /\ Handoff(active[r], c, wall, ttl)
  BY DEF LeaseReplaced
<1>2. active[r] # NoLease => active[r] \in issued
  BY DEF IntentInv, LeaseInv, TokensOrdered
<1>3. wall \in LeaseTimes
  BY DEF LeaseReplaced
<1>4. LeaseStep
  BY <1>1, <1>2, <1>3 DEF LeaseStep
<1>5. issued \subseteq issued'
  BY <1>1 DEF Acquire, Handoff, Put
<1> QED BY <1>4, <1>5

LEMMA LeaseReplacedKeeps == ASSUME IntentInv, LeaseReplaced PROVE IntentInv'
<1> USE DEF IntentInv
<1>1. LeaseStep /\ issued \subseteq issued'
  BY LeaseReplacedIsStep
<1>2. LeaseInv'
  BY <1>1, LeaseInvNext DEF LeaseNext
<1>3. UNCHANGED <<arriving, spent, admitted, wall, seen, sent>>
  BY DEF LeaseReplaced, endpointVars
<1>. DEFINE Marked(p) ==
       ~CallAt(p, "idle") /\ ~CallAt(p, "dispatch") /\ Bound(commits[p].intent)
            After(p) ==
       [commits[p] EXCEPT !.replaced =
          @ \/ active'[commits[p].intent.lease.on] # commits[p].intent.lease]
<1>4. commits' = [p \in Callers |-> IF Marked(p) THEN After(p) ELSE commits[p]]
  BY DEF LeaseReplaced
<1>5. \A p \in Callers : Marked(p) =>
        /\ After(p) \in CallsUnderWay
        /\ After(p).step = commits[p].step /\ After(p).intent = commits[p].intent
        /\ After(p).gateNow = commits[p].gateNow
        /\ After(p).replaced =
             (commits[p].replaced \/ active'[commits[p].intent.lease.on] # commits[p].intent.lease)
  BY CallerType DEF CallsUnderWay
<1>6. \A p \in Callers :
        commits'[p].step = commits[p].step /\ commits'[p].intent = commits[p].intent
  BY <1>4, <1>5
<1> HIDE DEF Marked, After
<1>7. IntentTypeOK'
  <2>1. commits' \in [Callers -> CallsUnderWay \cup {NotStarted}]
    BY <1>4, <1>5 DEF IntentTypeOK
  <2> QED BY <2>1, <1>2, <1>3 DEF IntentTypeOK, LeaseInv
<1>8. NoncesHeld'
  BY <1>3, <1>6 DEF NoncesHeld
<1>9. NoncesAdmitted'
  BY <1>3 DEF NoncesAdmitted
<1>10. CallsSound'
  <2>1. SUFFICES ASSUME NEW p \in Callers, ~CallAt(p, "idle")' PROVE SoundCall(commits[p])'
    BY DEF CallsSound
  <2>2. ~CallAt(p, "idle") /\ SoundCall(commits[p])
    BY <2>1, <1>6 DEF CallAt, CallsSound
  <2>. DEFINE l == commits[p].intent.lease
  <2>3. Bound(commits[p].intent) => l \in issued /\ l \in issued'
    BY <2>2, <1>1 DEF SoundCall
  <2>4. Bound(commits[p].intent) /\ active[l.on] # l => active'[l.on] # l
    BY <2>3, <1>1, NoLeaseReturns DEF LeaseNext
  <2>5. CASE Marked(p)
    <3>1. commits'[p] = After(p)
      BY <1>4, <2>5
    <3>2. commits[p].step # "dispatch"
      BY <2>5 DEF Marked, CallAt
    <3>3. commits'[p].replaced => commits[p].replaced \/ active'[l.on] # l
      BY <3>1, <1>5, <2>5
    <3>4. commits'[p].gateNow = commits[p].gateNow
      BY <3>1, <1>5, <2>5
    <3> QED BY <3>2, <3>3, <3>4, <2>2, <2>3, <2>4, <1>6 DEF SoundCall
  <2>6. CASE ~Marked(p)
    <3>1. commits'[p] = commits[p]
      BY <1>4, <2>6
    <3> QED BY <3>1, <2>2, <2>3, <2>4, <1>6 DEF SoundCall
  <2> QED BY <2>5, <2>6
<1> QED BY <1>2, <1>7, <1>8, <1>9, <1>10

LEMMA ElapseKeeps == ASSUME IntentInv, Elapse PROVE IntentInv'
<1> USE DEF IntentInv
<1>1. /\ UNCHANGED <<active, highest, usedNonces, issued, reinstalls>>
      /\ UNCHANGED <<arriving, spent, admitted, seen, commits, sent>>
      /\ wall < MaxWall /\ wall' = wall + 1
  BY DEF Elapse, leaseVars, endpointVars
<1>2. LeaseInv'
  BY <1>1 DEF LeaseInv, LeaseTypeOK, TokensOrdered, TokenNamesLease
<1>3. wall' \in 0 .. MaxWall
  BY <1>1, WallAssumption DEF IntentTypeOK
<1>4. IntentTypeOK'
  BY <1>1, <1>2, <1>3 DEF IntentTypeOK, LeaseInv
<1>5. NoncesHeld' /\ NoncesAdmitted' /\ CallsSound'
  BY <1>1 DEF NoncesHeld, NoncesAdmitted, CallsSound, SoundCall, CallAt
<1> QED BY <1>2, <1>4, <1>5

LEMMA RestartKeeps == ASSUME IntentInv, Restart PROVE IntentInv'
<1> USE DEF IntentInv
<1>1. /\ UNCHANGED <<active, highest, usedNonces, issued, reinstalls>>
      /\ UNCHANGED <<arriving, spent, admitted, wall>>
      /\ seen' = {} /\ commits' = [p \in Callers |-> NotStarted]
      /\ sent' = [k \in NonceKeys |-> 0]
  BY DEF Restart, leaseVars, endpointVars
<1>2. LeaseInv'
  BY <1>1 DEF LeaseInv, LeaseTypeOK, TokensOrdered, TokenNamesLease
<1>3. IntentTypeOK'
  BY <1>1, <1>2 DEF IntentTypeOK, LeaseInv
<1>4. NoncesHeld' /\ NoncesAdmitted' /\ CallsSound'
  BY <1>1 DEF NoncesHeld, NoncesAdmitted, CallsSound, CallAt, NotStarted, Holding
<1> QED BY <1>2, <1>3, <1>4

LEMMA IntentInvNext == IntentInv /\ [IntentNext]_intentVars => IntentInv'
<1> SUFFICES ASSUME IntentInv, [IntentNext]_intentVars PROVE IntentInv'
  OBVIOUS
<1>1. ASSUME NEW p \in Callers, BeginCall(p) \/ Judge(p) \/ SpendNonce(p) PROVE IntentInv'
  BY <1>1, BeginCallKeeps, JudgeKeeps, SpendNonceKeeps
<1>2. ASSUME NEW p \in Callers, Gate(p) \/ GateDeprecated(p) \/ RecheckAuthority(p)
      PROVE  IntentInv'
  BY <1>2, GateKeeps, GateDeprecatedKeeps, RecheckKeeps
<1>3. ASSUME NEW p \in Callers, Dispatch(p) \/ RefuseCall(p) PROVE IntentInv'
  BY <1>3, DispatchKeeps, RefuseCallKeeps
<1>4. CASE arriving # NoLease /\ EndpointAdmit(arriving)
  BY <1>4, EndpointAdmitKeeps
<1>5. CASE LeaseReplaced \/ Elapse \/ Restart
  BY <1>5, LeaseReplacedKeeps, ElapseKeeps, RestartKeeps
<1>6. CASE UNCHANGED intentVars
  BY <1>6 DEF intentVars, leaseVars, controlVars, endpointVars, IntentInv, LeaseInv, LeaseTypeOK,
    TokensOrdered, TokenNamesLease, IntentTypeOK, NoncesHeld, NoncesAdmitted, CallsSound,
    SoundCall, CallAt
<1> QED BY <1>1, <1>2, <1>3, <1>4, <1>5, <1>6 DEF IntentNext

LEMMA IntentInvariant == IntentSpec => []IntentInv
BY IntentInvInit, IntentInvNext, PTL DEF IntentSpec

\* Every intent in flight, nonce and counter keeps its type while leases change and
\* control processes restart.
THEOREM IntentTypeCorrect == IntentSpec => []IntentTypeOK
<1>1. IntentInv => IntentTypeOK
  BY DEF IntentInv
<1> QED BY <1>1, IntentInvariant, PTL

\* Whichever calls present a nonce at the same time, one reaches the transport in the
\* life of a control process, and one is admitted in the life of the endpoint.
THEOREM NonceAdmittedOnce == IntentSpec => []AdmittedOncePerNonce
<1>1. IntentInv => AdmittedOncePerNonce
  BY DEF IntentInv, NoncesHeld, NoncesAdmitted, AdmittedOncePerNonce
<1> QED BY <1>1, IntentInvariant, PTL

\* A request about to leave is within its intent's, its capability's and its lease's
\* terms as the gate saw the clock, and its lease was not replaced while it was judged.
THEOREM DispatchWithinTerms == IntentSpec => []DispatchedWithinItsTerms
<1>1. IntentInv => DispatchedWithinItsTerms
  <2> SUFFICES ASSUME IntentInv, NEW p \in Callers, CallAt(p, "dispatch")
               PROVE  LET i == commits[p].intent IN
                        /\ commits[p].gateNow < i.capability.until
                        /\ Bound(i) => commits[p].gateNow < i.lease.until /\ ~commits[p].replaced
    BY DEF DispatchedWithinItsTerms
  <2>. DEFINE i == commits[p].intent
  <2>1. ~CallAt(p, "idle")
    BY DEF CallAt
  <2>2. SoundCall(commits[p])
    BY <2>1 DEF IntentInv, CallsSound
  <2>3. i \in Intents /\ commits[p].gateNow \in Int
    BY <2>1, CallerType DEF IntentInv, CallsUnderWay
  <2>4. /\ i.window.until \in Int /\ i.capability.until \in Int
        /\ Bound(i) => i.lease.until \in Int
    BY <2>3, CapabilitiesAssumption DEF Intents, Windows, Leases, Bound
  <2>5. commits[p].gateNow < i.window.until
    BY <2>2 DEF SoundCall, CallAt
  <2>6. i.window.until <= i.capability.until /\ (Bound(i) => i.window.until <= i.lease.until)
    BY <2>2 DEF SoundCall, Issuable, Within, Bound
  <2>7. Bound(i) => ~commits[p].replaced
    BY <2>2 DEF SoundCall, CallAt
  <2> QED BY <2>3, <2>4, <2>5, <2>6, <2>7
<1> QED BY <1>1, IntentInvariant, PTL

-----------------------------------------------------------------------------
(* Requests that are repeated *)

\* A lease begins before it ends.
TermsOrdered == \A l \in issued : l.from < l.until

\* A committed request and the lease it was answered with tell the same, and no other
\* request has that lease.
CommitsSound ==
  /\ \A q \in Requests : committed[q] # NoRecord =>
       LET print == committed[q].print
           lease == committed[q].lease
       IN /\ lease \in issued
          /\ print.on = lease.on /\ print.holder = lease.holder /\ print.now = lease.from
          /\ lease.until = lease.from + print.ttl
          /\ print.op = "handoff" => print.prior \in issued
  /\ \A p, q \in Requests :
       committed[p] # NoRecord /\ committed[q] # NoRecord /\ committed[p].lease = committed[q].lease
         => p = q

\* What was derived from a committed request names it, its lease and its one key.
RecordsSound ==
  /\ \A a \in answered : committed[a.id] # NoRecord /\ a.lease = committed[a.id].lease
  /\ \A g \in grants : keyOf[g.id] = g.key
  /\ \A q \in Requests : keyOf[q] # NoRecord => committed[q] # NoRecord
  /\ \A q \in Requests : results[q] # NoRecord =>
       /\ committed[q] # NoRecord
       /\ results[q].lease = committed[q].lease
       /\ results[q].request.id = q
       /\ results[q].request.key = results[q].key
       /\ results[q].key = keyOf[q]
       /\ Matches(results[q].request, committed[q])
  /\ \A q \in directives : committed[q] # NoRecord /\ Successor(committed[q])

RemoteInv == LeaseInv /\ RemoteTypeOK /\ TermsOrdered /\ CommitsSound /\ RecordsSound

LEMMA RequestType ==
  ASSUME RemoteTypeOK, NEW q \in Requests
  PROVE  /\ committed[q] # NoRecord => committed[q] \in Commits
         /\ results[q] # NoRecord => results[q] \in Results
         /\ keyOf[q] # NoRecord => keyOf[q] \in ControllerKeys
BY DEF RemoteTypeOK

\* Every lease that is committed is new, and acquire or handoff puts it in force.
LEMMA LeaseIsNew ==
  ASSUME LeaseInv, NEW r \in Resources, NEW c \in Controllers, NEW now \in LeaseTimes, NEW ttl \in Ttls,
         Put(NewLease(r, c, NextToken(r, c), now, ttl))
  PROVE  LET lease == NewLease(r, c, NextToken(r, c), now, ttl) IN
         /\ lease \in Leases /\ lease \notin issued
         /\ active'[r] = lease /\ issued' = issued \cup {lease}
         /\ lease.on = r /\ lease.holder = c /\ lease.from = now /\ lease.until = now + ttl
         /\ lease.from < lease.until
         /\ lease.token = highest[r] + 1
<1> DEFINE lease == NewLease(r, c, NextToken(r, c), now, ttl)
<1>1. highest[r] \in Nat /\ now \in Int /\ ttl \in Nat \ {0}
  BY LeaseTimesAssumption DEF LeaseInv, LeaseTypeOK
<1>2. /\ lease.on = r /\ lease.holder = c /\ lease.from = now /\ lease.until = now + ttl
      /\ lease.token = highest[r] + 1
  BY DEF NewLease, NextToken
<1>3. lease \in Leases
  BY <1>1 DEF NewLease, NextToken, Leases
<1>4. lease \notin issued
  BY <1>1, <1>2 DEF LeaseInv, TokensOrdered
<1>5. active' = [active EXCEPT ![r] = lease] /\ issued' = issued \cup {lease}
  BY <1>2 DEF Put
<1>6. active'[r] = lease
  BY <1>5 DEF LeaseInv, LeaseTypeOK
<1>7. lease.from < lease.until
  BY <1>1, <1>2
<1> QED BY <1>2, <1>3, <1>4, <1>5, <1>6, <1>7

\* The leases move by steps of their own.
LEMMA RemoteLeases == ASSUME RemoteNext PROVE [LeaseNext]_leaseVars
<1>1. ASSUME NEW q \in Requests, NEW now \in LeaseTimes, NEW ttl \in Ttls,
             NEW r \in Resources, NEW c \in Controllers, RemoteAcquire(q, r, c, now, ttl)
      PROVE  LeaseNext
  BY <1>1 DEF RemoteAcquire, LeaseNext, LeaseStep
<1>2. ASSUME NEW q \in Requests, NEW now \in LeaseTimes, NEW ttl \in Ttls,
             NEW lease \in issued, NEW c \in Controllers, RemoteHandoff(q, lease, c, now, ttl)
      PROVE  LeaseNext
  BY <1>2 DEF RemoteHandoff, LeaseNext, LeaseStep
<1> QED BY <1>1, <1>2 DEF RemoteNext, Repeat, IssueRemoteGrant, IssueResult, IssueDirective

\* A request and its new lease go on record.
LEMMA CommitKeeps ==
  ASSUME RemoteInv, LeaseInv', NEW q \in Requests, New(q),
         NEW print \in Fingerprints, NEW lease \in Leases,
         lease \notin issued, issued' = issued \cup {lease}, lease.from < lease.until,
         print.on = lease.on, print.holder = lease.holder, print.now = lease.from,
         lease.until = lease.from + print.ttl,
         print.op = "handoff" => print.prior \in issued,
         Commit(q, print, lease)
  PROVE  RemoteInv'
<1> DEFINE commit == [print |-> print, lease |-> lease]
<1>1. commit \in Commits /\ commit # NoRecord /\ commit.print = print /\ commit.lease = lease
  BY NoRecordAssumption DEF Commits
<1>2. /\ committed \in [Requests -> Commits \cup {NoRecord}]
      /\ committed' = [committed EXCEPT ![q] = commit]
      /\ committed[q] = NoRecord
      /\ UNCHANGED <<keyOf, results, directives, grants>>
  BY DEF Commit, New, RemoteInv, RemoteTypeOK
<1>3. \A p \in Requests : committed'[p] = IF p = q THEN commit ELSE committed[p]
  BY <1>2
<1>4. \A a \in answered' : a \in answered \/ (a.id = q /\ a.lease = lease)
  BY DEF Commit, Answer
<1> HIDE DEF commit
<1>5. RemoteTypeOK'
  <2>1. committed' \in [Requests -> Commits \cup {NoRecord}]
    BY <1>1, <1>2
  <2>2. answered' \subseteq [id : Requests, lease : Leases]
    BY DEF Commit, Answer, RemoteInv, RemoteTypeOK
  <2> QED BY <1>2, <2>1, <2>2 DEF RemoteInv, RemoteTypeOK, LeaseInv
<1>6. TermsOrdered'
  BY DEF RemoteInv, TermsOrdered
<1>7. CommitsSound'
  <2>1. ASSUME NEW p \in Requests, committed'[p] # NoRecord
        PROVE  /\ committed'[p].lease \in issued'
               /\ committed'[p].print.on = committed'[p].lease.on
               /\ committed'[p].print.holder = committed'[p].lease.holder
               /\ committed'[p].print.now = committed'[p].lease.from
               /\ committed'[p].lease.until = committed'[p].lease.from + committed'[p].print.ttl
               /\ committed'[p].print.op = "handoff" => committed'[p].print.prior \in issued'
    <3>1. CASE p = q
      BY <1>1, <1>3, <3>1
    <3>2. CASE p # q
      BY <1>3, <2>1, <3>2 DEF RemoteInv, CommitsSound
    <3> QED BY <3>1, <3>2
  <2>2. ASSUME NEW p \in Requests, NEW o \in Requests, committed'[p] # NoRecord,
               committed'[o] # NoRecord, committed'[p].lease = committed'[o].lease
        PROVE  p = o
    <3>1. \A u \in Requests : committed[u] # NoRecord => committed[u].lease # lease
      BY DEF RemoteInv, CommitsSound
    <3>2. CASE p = q \/ o = q
      BY <1>1, <1>3, <2>2, <3>1, <3>2
    <3>3. CASE p # q /\ o # q
      BY <1>3, <2>2, <3>3 DEF RemoteInv, CommitsSound
    <3> QED BY <3>2, <3>3
  <2> QED BY <2>1, <2>2 DEF CommitsSound
<1>8. \A p \in Requests : committed[p] # NoRecord => committed'[p] = committed[p] /\ committed'[p] # NoRecord
  BY <1>2, <1>3
<1>9. RecordsSound'
  <2>1. \A a \in answered' : committed'[a.id] # NoRecord /\ a.lease = committed'[a.id].lease
    <3>1. ASSUME NEW a \in answered PROVE committed'[a.id] # NoRecord /\ a.lease = committed'[a.id].lease
      BY <1>8, <3>1 DEF RemoteInv, RemoteTypeOK, RecordsSound
    <3> QED BY <1>1, <1>3, <1>4, <3>1
  <2>2. \A p \in Requests : keyOf'[p] # NoRecord => committed'[p] # NoRecord
    BY <1>2, <1>8 DEF RemoteInv, RecordsSound
  <2>3. \A p \in Requests : results'[p] # NoRecord =>
          /\ committed'[p] # NoRecord
          /\ results'[p].lease = committed'[p].lease
          /\ results'[p].request.id = p
          /\ results'[p].request.key = results'[p].key
          /\ results'[p].key = keyOf'[p]
          /\ Matches(results'[p].request, committed'[p])
    BY <1>2, <1>8 DEF RemoteInv, RecordsSound
  <2>4. \A p \in directives' : committed'[p] # NoRecord /\ Successor(committed'[p])
    BY <1>2, <1>8 DEF RemoteInv, RemoteTypeOK, RecordsSound
  <2>5. \A g \in grants' : keyOf'[g.id] = g.key
    BY <1>2 DEF RemoteInv, RecordsSound
  <2> QED BY <2>1, <2>2, <2>3, <2>4, <2>5 DEF RecordsSound, Matches, Successor
<1> QED BY <1>5, <1>6, <1>7, <1>9 DEF RemoteInv

LEMMA RemoteAcquireKeeps ==
  ASSUME RemoteInv, LeaseInv', NEW q \in Requests, NEW r \in Resources, NEW c \in Controllers,
         NEW now \in LeaseTimes, NEW ttl \in Ttls, RemoteAcquire(q, r, c, now, ttl)
  PROVE  RemoteInv'
<1> DEFINE lease == NewLease(r, c, NextToken(r, c), now, ttl)
           print == Fingerprint("acquire", NoLease, r, c, now, ttl)
<1>1. New(q) /\ Put(lease) /\ Commit(q, print, active'[r])
  BY DEF RemoteAcquire, Acquire
<1>2. /\ lease \in Leases /\ lease \notin issued
      /\ active'[r] = lease /\ issued' = issued \cup {lease}
      /\ lease.on = r /\ lease.holder = c /\ lease.from = now /\ lease.until = now + ttl
      /\ lease.from < lease.until
  BY <1>1, LeaseIsNew DEF RemoteInv
<1>3. /\ print \in Fingerprints /\ print.on = r /\ print.holder = c /\ print.now = now
      /\ print.ttl = ttl /\ print.op # "handoff"
  BY DEF Fingerprint, Fingerprints
<1> HIDE DEF lease, print
<1> QED BY <1>1, <1>2, <1>3, CommitKeeps

LEMMA RemoteHandoffKeeps ==
  ASSUME RemoteInv, LeaseInv', NEW q \in Requests, NEW old \in issued, NEW c \in Controllers,
         NEW now \in LeaseTimes, NEW ttl \in Ttls, RemoteHandoff(q, old, c, now, ttl)
  PROVE  RemoteInv'
<1> DEFINE r == old.on
           lease == NewLease(r, c, NextToken(r, c), now, ttl)
           print == Fingerprint("handoff", old, r, c, now, ttl)
<1>1. New(q) /\ Put(lease) /\ Commit(q, print, active'[r])
  BY DEF RemoteHandoff, Handoff
<1>2. r \in Resources /\ old \in Leases
  BY DEF RemoteInv, LeaseInv, LeaseTypeOK, Leases
<1>3. /\ lease \in Leases /\ lease \notin issued
      /\ active'[r] = lease /\ issued' = issued \cup {lease}
      /\ lease.on = r /\ lease.holder = c /\ lease.from = now /\ lease.until = now + ttl
      /\ lease.from < lease.until
  BY <1>1, <1>2, LeaseIsNew DEF RemoteInv
<1>4. /\ print \in Fingerprints /\ print.on = r /\ print.holder = c /\ print.now = now
      /\ print.ttl = ttl /\ print.prior = old
  BY <1>2 DEF Fingerprint, Fingerprints
<1> HIDE DEF lease, print, r
<1> QED BY <1>1, <1>3, <1>4, CommitKeeps

\* What leaves the leases and the committed requests alone keeps what they tell.
LEMMA CommitsRest ==
  ASSUME RemoteInv, UNCHANGED <<leaseVars, committed>>
  PROVE  LeaseInv' /\ LeaseTypeOK' /\ TermsOrdered' /\ CommitsSound'
         /\ committed' \in [Requests -> Commits \cup {NoRecord}]
<1>1. LeaseInv'
  BY DEF RemoteInv, LeaseInv, LeaseTypeOK, TokensOrdered, TokenNamesLease, leaseVars
<1>2. TermsOrdered' /\ CommitsSound'
  BY DEF RemoteInv, TermsOrdered, CommitsSound, leaseVars
<1> QED BY <1>1, <1>2 DEF RemoteInv, RemoteTypeOK, LeaseInv

LEMMA RepeatKeeps ==
  ASSUME RemoteInv, NEW q \in Requests, Repeat(q, committed[q].print)
  PROVE  RemoteInv'
<1>1. /\ committed[q] # NoRecord /\ committed[q] \in Commits
      /\ answered' = answered \cup {[id |-> q, lease |-> committed[q].lease]}
      /\ UNCHANGED <<leaseVars, fileVars, grants>>
  BY RequestType DEF Repeat, New, Answer, RemoteInv
<1>2. UNCHANGED <<leaseVars, committed, keyOf, results, directives, grants>>
  BY <1>1 DEF fileVars
<1>3. RemoteTypeOK'
  BY <1>1, <1>2, CommitsRest DEF RemoteInv, RemoteTypeOK, Commits
<1>4. RecordsSound'
  BY <1>1, <1>2 DEF RemoteInv, RecordsSound, Matches, Successor
<1> QED BY <1>2, <1>3, <1>4, CommitsRest DEF RemoteInv

\* A request whose key is bound keeps what the key was bound to before.
LEMMA BindKeeps ==
  ASSUME RemoteInv, NEW q \in Requests, NEW key \in ControllerKeys, Bindable(q, key), Bind(q, key)
  PROVE  /\ keyOf' \in [Requests -> ControllerKeys \cup {NoRecord}]
         /\ keyOf'[q] = key
         /\ \A p \in Requests : p # q => keyOf'[p] = keyOf[p]
         /\ \A p \in Requests : keyOf[p] # NoRecord => keyOf'[p] = keyOf[p]
BY DEF Bindable, Bind, RemoteInv, RemoteTypeOK

LEMMA GrantKeeps ==
  ASSUME RemoteInv, NEW q \in Requests, NEW key \in ControllerKeys, NEW now \in LeaseTimes,
         IssueRemoteGrant(q, key, now)
  PROVE  RemoteInv'
<1>1. /\ committed[q] # NoRecord /\ committed[q] \in Commits
      /\ Bindable(q, key) /\ Bind(q, key)
      /\ UNCHANGED <<leaseVars, committed, results, directives, answered>>
  BY RequestType DEF IssueRemoteGrant, New, Bind, RemoteInv
<1>2. /\ keyOf' \in [Requests -> ControllerKeys \cup {NoRecord}]
      /\ keyOf'[q] = key
      /\ \A p \in Requests : p # q => keyOf'[p] = keyOf[p]
      /\ \A p \in Requests : keyOf[p] # NoRecord => keyOf'[p] = keyOf[p]
  BY <1>1, BindKeeps
<1>3. \/ grants' = grants \cup {[id |-> q, key |-> key, lease |-> committed[q].lease]}
      \/ grants' = grants
  BY DEF IssueRemoteGrant
<1>4. RemoteTypeOK'
  BY <1>1, <1>2, <1>3, CommitsRest DEF RemoteInv, RemoteTypeOK, Commits
<1>5. RecordsSound'
  <2>1. \A g \in grants' : keyOf'[g.id] = g.key
    <3>1. ASSUME NEW g \in grants PROVE keyOf'[g.id] = g.key
      <4>1. g.id \in Requests /\ g.key \in ControllerKeys /\ keyOf[g.id] = g.key
        BY <3>1 DEF RemoteInv, RemoteTypeOK, RecordsSound
      <4> QED BY <1>2, <4>1, NoRecordAssumption
    <3> QED BY <1>2, <1>3, <3>1
  <2>2. \A p \in Requests : keyOf'[p] # NoRecord => committed'[p] # NoRecord
    BY <1>1, <1>2 DEF RemoteInv, RecordsSound
  <2>3. ASSUME NEW p \in Requests, results[p] # NoRecord
        PROVE  keyOf'[p] = keyOf[p]
    <3>1. results[p] \in Results /\ results[p].key = keyOf[p]
      BY <2>3, RequestType DEF RemoteInv, RecordsSound
    <3>2. keyOf[p] # NoRecord
      BY <3>1, NoRecordAssumption DEF Results
    <3> QED BY <1>2, <3>2
  <2>4. \A p \in Requests : results'[p] # NoRecord =>
          /\ committed'[p] # NoRecord
          /\ results'[p].lease = committed'[p].lease
          /\ results'[p].request.id = p
          /\ results'[p].request.key = results'[p].key
          /\ results'[p].key = keyOf'[p]
          /\ Matches(results'[p].request, committed'[p])
    BY <1>1, <2>3 DEF RemoteInv, RecordsSound
  <2>5. /\ \A a \in answered' : committed'[a.id] # NoRecord /\ a.lease = committed'[a.id].lease
        /\ \A p \in directives' : committed'[p] # NoRecord /\ Successor(committed'[p])
    BY <1>1 DEF RemoteInv, RecordsSound
  <2> QED BY <2>1, <2>2, <2>4, <2>5 DEF RecordsSound, Matches, Successor
<1> QED BY <1>1, <1>4, <1>5, CommitsRest DEF RemoteInv

LEMMA ResultKeeps ==
  ASSUME RemoteInv, NEW request \in ProtocolRequests, IssueResult(request.id, request)
  PROVE  RemoteInv'
<1> DEFINE q == request.id
           result == [request |-> request, key |-> request.key, lease |-> committed[q].lease]
<1>1. q \in Requests /\ request.key \in ControllerKeys
  BY DEF ProtocolRequests
<1>2. /\ committed[q] # NoRecord /\ committed[q] \in Commits
      /\ Matches(request, committed[q])
      /\ results[q] = NoRecord
      /\ Bindable(q, request.key) /\ Bind(q, request.key)
      /\ results' = [results EXCEPT ![q] = result]
      /\ UNCHANGED <<leaseVars, committed, directives, answered, grants>>
  BY <1>1, RequestType DEF IssueResult, New, RemoteInv
<1>3. /\ result \in Results /\ result.request = request /\ result.key = request.key
      /\ result.lease = committed[q].lease
  BY <1>1, <1>2 DEF Results, Commits
<1>4. q = request.id
  OBVIOUS
<1> HIDE DEF q, result
<1>5. /\ keyOf' \in [Requests -> ControllerKeys \cup {NoRecord}]
      /\ keyOf'[q] = request.key
      /\ \A p \in Requests : p # q => keyOf'[p] = keyOf[p]
      /\ \A p \in Requests : keyOf[p] # NoRecord => keyOf'[p] = keyOf[p]
  BY <1>1, <1>2, BindKeeps
<1>6. /\ results' \in [Requests -> Results \cup {NoRecord}]
      /\ \A p \in Requests : results'[p] = IF p = q THEN result ELSE results[p]
  BY <1>1, <1>2, <1>3 DEF RemoteInv, RemoteTypeOK
<1>7. RemoteTypeOK'
  BY <1>2, <1>5, <1>6, CommitsRest DEF RemoteInv, RemoteTypeOK
<1>8. RecordsSound'
  <2>1. ASSUME NEW g \in grants' PROVE keyOf'[g.id] = g.key
    <3>1. g.id \in Requests /\ g.key \in ControllerKeys /\ keyOf[g.id] = g.key
      BY <1>2, <2>1 DEF RemoteInv, RemoteTypeOK, RecordsSound
    <3> QED BY <1>5, <3>1, NoRecordAssumption
  <2>2. \A p \in Requests : keyOf'[p] # NoRecord => committed'[p] # NoRecord
    BY <1>2, <1>5 DEF RemoteInv, RecordsSound
  <2>3. ASSUME NEW p \in Requests, results'[p] # NoRecord
        PROVE  /\ committed'[p] # NoRecord
               /\ results'[p].lease = committed'[p].lease
               /\ results'[p].request.id = p
               /\ results'[p].request.key = results'[p].key
               /\ results'[p].key = keyOf'[p]
               /\ Matches(results'[p].request, committed'[p])
    <3>1. CASE p = q
      BY <1>2, <1>3, <1>4, <1>5, <1>6, <3>1
    <3>2. CASE p # q
      BY <1>2, <1>5, <1>6, <2>3, <3>2 DEF RemoteInv, RecordsSound
    <3> QED BY <3>1, <3>2
  <2>4. /\ \A a \in answered' : committed'[a.id] # NoRecord /\ a.lease = committed'[a.id].lease
        /\ \A p \in directives' : committed'[p] # NoRecord /\ Successor(committed'[p])
    BY <1>2 DEF RemoteInv, RecordsSound
  <2> QED BY <2>1, <2>2, <2>3, <2>4 DEF RecordsSound, Matches, Successor
<1> QED BY <1>2, <1>7, <1>8, CommitsRest DEF RemoteInv

LEMMA DirectiveKeeps ==
  ASSUME RemoteInv, NEW q \in Requests, NEW now \in LeaseTimes, IssueDirective(q, now)
  PROVE  RemoteInv'
<1>1. /\ committed[q] # NoRecord /\ Successor(committed[q])
      /\ directives' = directives \cup {q}
      /\ UNCHANGED <<leaseVars, committed, keyOf, results, answered, grants>>
  BY DEF IssueDirective, New
<1>2. RemoteTypeOK'
  BY <1>1, CommitsRest DEF RemoteInv, RemoteTypeOK
<1>3. RecordsSound'
  BY <1>1 DEF RemoteInv, RecordsSound, Matches, Successor
<1> QED BY <1>1, <1>2, <1>3, CommitsRest DEF RemoteInv

LEMMA RemoteInvInit == RemoteInit => RemoteInv
<1> SUFFICES ASSUME RemoteInit PROVE RemoteInv
  OBVIOUS
<1>1. LeaseInv
  BY LeaseInvInit DEF RemoteInit
<1>2. RemoteTypeOK
  BY <1>1 DEF RemoteInit, RemoteTypeOK, LeaseInv
<1>3. issued = {}
  BY DEF RemoteInit, LeaseInit
<1> QED BY <1>1, <1>2, <1>3 DEF RemoteInit, RemoteInv, TermsOrdered, CommitsSound, RecordsSound

LEMMA RemoteInvNext == RemoteInv /\ [RemoteNext]_remoteVars => RemoteInv'
<1> SUFFICES ASSUME RemoteInv, [RemoteNext]_remoteVars PROVE RemoteInv'
  OBVIOUS
<1>1. CASE RemoteNext
  <2>1. LeaseInv'
    BY <1>1, RemoteLeases, LeaseInvNext DEF RemoteInv
  <2> QED BY <1>1, <2>1, RemoteAcquireKeeps, RemoteHandoffKeeps, RepeatKeeps, GrantKeeps,
             ResultKeeps, DirectiveKeeps
          DEF RemoteNext
<1>2. CASE UNCHANGED remoteVars
  <2>1. UNCHANGED <<leaseVars, committed, keyOf, results, directives, answered, grants>>
    BY <1>2 DEF remoteVars, fileVars
  <2>2. RemoteTypeOK'
    BY <2>1, CommitsRest DEF RemoteInv, RemoteTypeOK
  <2>3. RecordsSound'
    BY <2>1 DEF RemoteInv, RecordsSound, Matches, Successor
  <2> QED BY <2>1, <2>2, <2>3, CommitsRest DEF RemoteInv
<1> QED BY <1>1, <1>2

LEMMA RemoteInvHolds == RemoteSpec => []RemoteInv
BY RemoteInvInit, RemoteInvNext, PTL DEF RemoteSpec

\* The file of the requests and the histories of answers keep their types.
THEOREM RemoteTypeCorrect == RemoteSpec => []RemoteTypeOK
BY RemoteInvHolds, PTL DEF RemoteInv

\* A request that is repeated, on any instance and after any failure, has one lease, one
\* key and one result that verifies for it alone during the lease's term, and the next
\* start loads everything that was saved.
THEOREM RepeatedRequestsAgree == RemoteSpec => []OneAnswerPerRequest
<1>1. RemoteInv => OneAnswerPerRequest
  <2> SUFFICES ASSUME RemoteInv PROVE OneAnswerPerRequest
    OBVIOUS
  <2>1. OneLeasePerRequest
    <3> SUFFICES ASSUME NEW a \in answered, NEW b \in answered PROVE a.id = b.id <=> a.lease = b.lease
      BY DEF OneLeasePerRequest
    <3>1. /\ a.id \in Requests /\ committed[a.id] # NoRecord /\ a.lease = committed[a.id].lease
          /\ b.id \in Requests /\ committed[b.id] # NoRecord /\ b.lease = committed[b.id].lease
      BY DEF RemoteInv, RemoteTypeOK, RecordsSound
    <3> QED BY <3>1 DEF RemoteInv, CommitsSound
  <2>2. OneKeyPerRequest
    BY DEF OneKeyPerRequest, RemoteInv, RemoteTypeOK, RecordsSound
  <2>3. ResultVerifies
    <3> SUFFICES ASSUME NEW q \in Requests, results[q] # NoRecord, NEW now \in LeaseTimes
                 PROVE  /\ ResultVerdict(results[q], results[q].request, now) = "ALLOW"
                             <=> results[q].lease.from <= now /\ now < results[q].lease.until
                        /\ \A p \in Requests \ {q} : results[p] # NoRecord =>
                             ResultVerdict(results[q], results[p].request, now) # "ALLOW"
      BY DEF ResultVerifies
    <3>1. /\ results[q] \in Results /\ committed[q] \in Commits /\ committed[q] # NoRecord
          /\ results[q].lease = committed[q].lease
          /\ results[q].request.key = results[q].key
          /\ Matches(results[q].request, committed[q])
      BY RequestType DEF RemoteInv, RecordsSound
    <3>2. /\ committed[q].print.on = committed[q].lease.on
          /\ committed[q].print.holder = committed[q].lease.holder
          /\ committed[q].lease.until = committed[q].lease.from + committed[q].print.ttl
      BY <3>1 DEF RemoteInv, CommitsSound
    <3>3. /\ committed[q].lease.token \in Nat \ {0} /\ committed[q].lease.from \in Int
          /\ committed[q].lease.until \in Int /\ now \in Int /\ committed[q].print.ttl \in Nat
      BY <3>1, LeaseTimesAssumption DEF Commits, Leases, Fingerprints
    <3> DEFINE result == results[q]
               request == results[q].request
    <3>4. /\ request.op = "acquire" /\ request.current = 0
          /\ result.lease.on = request.on /\ result.lease.holder = request.holder
          /\ result.key = request.key
          /\ ~(result.lease.token <= request.current)
          /\ ~(result.lease.until > result.lease.from + request.ttl)
      BY <3>1, <3>2, <3>3 DEF Matches
    <3>5. ResultVerdict(result, request, now) =
            IF now < result.lease.from THEN "NOT_YET_VALID"
            ELSE IF now >= result.lease.until THEN "EXPIRED" ELSE "ALLOW"
      BY <3>4 DEF ResultVerdict
    <3>6. ResultVerdict(result, request, now) = "ALLOW"
            <=> result.lease.from <= now /\ now < result.lease.until
      BY <3>1, <3>3, <3>5
    <3>7. ASSUME NEW p \in Requests \ {q}, results[p] # NoRecord
          PROVE  ResultVerdict(results[q], results[p].request, now) # "ALLOW"
      <4>1. results[p].request # results[q].request
        BY <3>7 DEF RemoteInv, RecordsSound
      <4> QED BY <4>1 DEF ResultVerdict
    <3> QED BY <3>6, <3>7
  <2>4. SavedFileLoads
    <3>1. ASSUME NEW r \in Resources PROVE LeaseLoads(r)
      BY <3>1 DEF LeaseLoads, RemoteInv, LeaseInv, LeaseTypeOK, TokensOrdered, TermsOrdered
    <3>2. ASSUME NEW q \in Requests PROVE RequestLoads(q)
      <4> SUFFICES ASSUME committed[q] # NoRecord PROVE RequestLoads(q)
        BY DEF RequestLoads
      <4>1. committed[q] \in Commits
        BY <3>2, RequestType DEF RemoteInv
      <4>2. /\ committed[q].lease \in issued
            /\ committed[q].print.op = "handoff" => committed[q].print.prior \in issued
        BY <3>2 DEF RemoteInv, CommitsSound
      <4>3. \A l \in issued : l.token > 0 /\ l.from < l.until /\ l.token <= highest[l.on]
        BY DEF RemoteInv, LeaseInv, LeaseTypeOK, TokensOrdered, TermsOrdered, Leases
      <4>4. committed[q].print.ttl > 0
        <5>1. committed[q].print.ttl \in Ttls
          BY <4>1 DEF Commits, Fingerprints
        <5>2. \A ttl \in Ttls : ttl > 0
          BY LeaseTimesAssumption
        <5> QED BY <5>1, <5>2
      <4> QED BY <3>2, <4>2, <4>3, <4>4 DEF RequestLoads, RemoteInv, CommitsSound
    <3>3. ASSUME NEW q \in Requests
          PROVE  /\ keyOf[q] # NoRecord => committed[q] # NoRecord
                 /\ ResultLoads(q)
                 /\ q \in directives => committed[q] # NoRecord /\ Successor(committed[q])
      BY <3>3 DEF ResultLoads, RemoteInv, RecordsSound
    <3> QED BY <3>1, <3>2, <3>3 DEF SavedFileLoads, Loads
  <2> QED BY <2>1, <2>2, <2>3, <2>4 DEF OneAnswerPerRequest
<1> QED BY <1>1, RemoteInvHolds, PTL

\* The requests change nothing about the leases: what is proved of the leases holds
\* behind the requests too.
THEOREM RequestsKeepTheLeases == RemoteSpec => LeaseSpec
<1>1. RemoteInit => LeaseInit
  BY DEF RemoteInit
<1>2. [RemoteNext]_remoteVars => [LeaseNext]_leaseVars
  BY RemoteLeases DEF remoteVars
<1> QED BY <1>1, <1>2, PTL DEF RemoteSpec, LeaseSpec

=============================================================================
