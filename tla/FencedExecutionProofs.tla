----------------------- MODULE FencedExecutionProofs ------------------------
(***************************************************************************)
(* Proofs about ControllerFence and FencedExecution, for every number of   *)
(* requests, handoffs, resources, controllers, clients and transactions,   *)
(* with or without a trusted anchor.                                       *)
(*                                                                         *)
(* The three places of the fence can only be written in turn because one   *)
(* client writes at a time, and because it starts from places that agree.  *)
(* WritesInTurn says how far the writer has come; with the types it is     *)
(* inductive, and it implies both properties of the fence.                 *)
(*                                                                         *)
(* The endpoint uses the fence as ControllerFence describes, so what is    *)
(* proved there holds here.  That a transaction is sent once rests on the  *)
(* claim: from its claim on, a call is the only one of its transaction,    *)
(* and the two tables of the finality store have nothing in common.        *)
(***************************************************************************)
EXTENDS FencedExecution, TLAPS

-----------------------------------------------------------------------------
(* The fence *)

\* The records w carries change one resource of the file, and to a newer token.
Renewal(w, file) ==
  /\ \A on \in Resources \ {w.on} : w.records[on] = file[on]
  /\ w.records[w.on].token > file[w.on].token

\* How far the writer of w has come, with these contents of the three places.
Progress(w, file, beside, anchor) ==
  /\ w.step = "anchor" => Anchored /\ beside = file /\ anchor = file
  /\ w.step = "copy" => beside = file /\ (Anchored => anchor = w.records)
  /\ w.step = "primary" => beside = w.records /\ (Anchored => anchor = w.records)

OneWriter ==
  \A p, q \in Clients : writing[p] # Nothing /\ writing[q] # Nothing => p = q

WritesInTurn ==
  \A p \in Clients : writing[p] # Nothing =>
    Renewal(writing[p], fence) /\ Progress(writing[p], fence, copy, trusted)

FenceInv == FenceTypeOK /\ AnchorLeads /\ OneWriter /\ WritesInTurn

\* In all three places the step only raises tokens.
Raises == NeverFalls(fence, fence') /\ NeverFalls(copy, copy') /\ NeverFalls(trusted, trusted')

-----------------------------------------------------------------------------
(* The types of what is compared *)

\* Every recorded token is a number.
LEMMA TokenType ==
  ASSUME NEW f \in Fences \cup {NoFence} PROVE f.token \in Nat
BY TokenAssumption DEF Fences, NoFence

\* Every token in a file is a number.
LEMMA FileTokenType ==
  ASSUME NEW file \in Files, NEW on \in Resources PROVE file[on].token \in Nat
BY TokenType DEF Files

\* A write in progress is not Nothing.
LEMMA WriteIsSomething ==
  ASSUME NEW w \in Writes PROVE w # Nothing
<1>1. w.step # "none" BY DEF Writes
<1>2. Nothing.step = "none" BY DEF Nothing
<1>. QED BY <1>1, <1>2

\* What is known of the one client that holds the lock.
LEMMA WriterFacts ==
  ASSUME FenceInv, NEW p \in Clients, writing[p] # Nothing
  PROVE  /\ writing[p] \in Writes
         /\ Renewal(writing[p], fence)
         /\ Progress(writing[p], fence, copy, trusted)
         /\ \A q \in Clients \ {p} : writing[q] = Nothing
BY DEF FenceInv, FenceTypeOK, OneWriter, WritesInTurn

-----------------------------------------------------------------------------
(* Places that only rise *)

\* A place that stays as it is does not fall.
LEMMA SameNeverFalls ==
  ASSUME NEW place PROVE NeverFalls(place, place)
BY DEF NeverFalls

\* The records of a writer never fall below the file they were read from.
LEMMA RenewalNeverFalls ==
  ASSUME NEW w, NEW file, Renewal(w, file) PROVE NeverFalls(file, w.records)
BY DEF Renewal, NeverFalls

\* A place that never falls has tokens at least as high.
LEMMA NeverFallsRises ==
  ASSUME NEW file \in Files, NEW file1 \in Files, NeverFalls(file, file1), NEW on \in Resources
  PROVE  file[on].token <= file1[on].token
<1>1. file[on].token \in Nat /\ file1[on].token \in Nat
  BY FileTokenType
<1>2. file1[on] = file[on] \/ file1[on].token > file[on].token
  BY DEF NeverFalls
<1>3. file1[on].token = file[on].token \/ file1[on].token > file[on].token
  BY <1>2
<1>. QED BY <1>1, <1>3

-----------------------------------------------------------------------------
(* Writers after a step *)

\* After a step in which p carries w on, or begins to, the writers are in order.
LEMMA OneGoesOn ==
  ASSUME NEW p \in Clients, NEW w, writing'[p] = w,
         \A q \in Clients \ {p} : writing'[q] = Nothing,
         Renewal(w, fence'), Progress(w, fence', copy', trusted')
  PROVE  OneWriter' /\ WritesInTurn'
<1>1. OneWriter'
  BY DEF OneWriter
<1>2. WritesInTurn'
  <2>. SUFFICES ASSUME NEW q \in Clients, writing'[q] # Nothing
                PROVE  /\ Renewal(writing'[q], fence')
                       /\ Progress(writing'[q], fence', copy', trusted')
    BY DEF WritesInTurn
  <2>1. writing'[q] = w
    OBVIOUS
  <2>. QED BY <2>1
<1>. QED BY <1>1, <1>2

\* After a step that leaves no writer, too.
LEMMA NoneGoesOn ==
  ASSUME \A q \in Clients : writing'[q] = Nothing
  PROVE  OneWriter' /\ WritesInTurn'
BY DEF OneWriter, WritesInTurn

-----------------------------------------------------------------------------
(* One lemma per step of accept: it keeps the invariant and raises tokens only *)

LEMMA InitInv == FenceInit => FenceInv
<1>. SUFFICES ASSUME FenceInit PROVE FenceInv
  OBVIOUS
<1>1. FenceTypeOK
  BY DEF FenceInit, FenceTypeOK, Files
<1>2. AnchorLeads
  <2>. SUFFICES ASSUME NEW on \in Resources
                PROVE  /\ fence[on].token <= copy[on].token
                       /\ copy[on].token <= trusted[on].token
    BY DEF AnchorLeads
  <2>1. copy[on].token = fence[on].token /\ trusted[on].token = fence[on].token
    BY DEF FenceInit
  <2>2. fence[on].token \in Nat
    BY <1>1, FileTokenType DEF FenceTypeOK
  <2>. QED BY <2>1, <2>2
<1>3. OneWriter /\ WritesInTurn
  BY DEF FenceInit, OneWriter, WritesInTurn
<1>. QED BY <1>1, <1>2, <1>3 DEF FenceInv

LEMMA BeginKeepsInv ==
  ASSUME FenceInv, NEW p \in Clients, NEW on \in Resources, NEW to \in Fences,
         AcceptBegin(p, on, to)
  PROVE  FenceInv' /\ Raises
<1>. DEFINE records == [fence EXCEPT ![on] = to]
            w == [step |-> IF Anchored THEN "anchor" ELSE "copy", records |-> records, on |-> on]
<1>1. /\ writing' = [writing EXCEPT ![p] = w]
      /\ fence' = fence /\ copy' = copy /\ trusted' = trusted
      /\ Advances(on, to)
      /\ Free /\ ~Torn
  BY DEF AcceptBegin, Readable
<1>2. /\ FenceTypeOK
      /\ \A q \in Clients : writing[q] = Nothing
  BY <1>1 DEF Free, FenceInv
<1>3. records \in Files /\ w \in Writes
  BY <1>2, TokenAssumption DEF FenceTypeOK, Files, Writes
<1>4. FenceTypeOK'
  BY <1>1, <1>2, <1>3 DEF FenceTypeOK
<1>5. AnchorLeads'
  BY <1>1 DEF FenceInv, AnchorLeads
<1>6. /\ writing'[p] = w
      /\ \A q \in Clients \ {p} : writing'[q] = Nothing
  BY <1>1, <1>2 DEF FenceTypeOK
<1>7. Renewal(w, fence')
  <2>1. \A o \in Resources \ {on} : records[o] = fence[o]
    BY <1>2 DEF FenceTypeOK, Files
  <2>2. records[on].token > fence[on].token
    BY <1>1, <1>2 DEF FenceTypeOK, Files, Advances
  <2>. QED BY <1>1, <2>1, <2>2 DEF Renewal
<1>8. Progress(w, fence', copy', trusted')
  <2>1. copy = fence /\ (Anchored => trusted = fence)
    BY <1>1 DEF Torn
  <2>. QED BY <1>1, <2>1, TokenAssumption DEF Progress
<1>9. OneWriter' /\ WritesInTurn'
  BY <1>6, <1>7, <1>8, OneGoesOn
<1>10. Raises
  BY <1>1, SameNeverFalls DEF Raises
<1>. QED BY <1>4, <1>5, <1>9, <1>10 DEF FenceInv

LEMMA AdvanceAnchorKeepsInv ==
  ASSUME FenceInv, NEW p \in Clients, AdvanceAnchor(p)
  PROVE  FenceInv' /\ Raises
<1>. DEFINE w == writing[p]
            w1 == [w EXCEPT !.step = "copy"]
<1>1. /\ w # Nothing /\ w.step = "anchor"
      /\ trusted' = [trusted EXCEPT ![w.on] = w.records[w.on]]
      /\ writing' = [writing EXCEPT ![p].step = "copy"]
      /\ fence' = fence /\ copy' = copy
  BY DEF AdvanceAnchor, Writing, Continue
<1>2. FenceTypeOK /\ AnchorLeads
  BY DEF FenceInv
<1>3. /\ w \in Writes
      /\ Renewal(w, fence) /\ Progress(w, fence, copy, trusted)
      /\ \A q \in Clients \ {p} : writing[q] = Nothing
  BY <1>1, WriterFacts
<1>4. Anchored /\ copy = fence /\ trusted = fence
  BY <1>1, <1>3 DEF Progress
<1>5. w.records \in Files /\ w.on \in Resources
  BY <1>3 DEF Writes
<1>6. trusted' = w.records
  BY <1>1, <1>2, <1>3, <1>4, <1>5 DEF FenceTypeOK, Files, Renewal
<1>7. w1 \in Writes /\ w1.step = "copy" /\ w1.records = w.records /\ w1.on = w.on
  BY <1>3 DEF Writes
<1>8. /\ writing'[p] = w1
      /\ \A q \in Clients \ {p} : writing'[q] = Nothing
  BY <1>1, <1>2, <1>3 DEF FenceTypeOK
<1>9. FenceTypeOK'
  BY <1>1, <1>2, <1>5, <1>6, <1>7 DEF FenceTypeOK
<1>10. NeverFalls(fence, w.records)
  BY <1>3, RenewalNeverFalls
<1>11. AnchorLeads'
  BY <1>1, <1>2, <1>4, <1>5, <1>6, <1>10, NeverFallsRises DEF AnchorLeads, FenceTypeOK
<1>12. OneWriter' /\ WritesInTurn'
  <2>1. Renewal(w1, fence')
    BY <1>1, <1>3, <1>7 DEF Renewal
  <2>2. Progress(w1, fence', copy', trusted')
    BY <1>1, <1>4, <1>6, <1>7 DEF Progress
  <2>. QED BY <1>8, <2>1, <2>2, OneGoesOn
<1>13. Raises
  BY <1>1, <1>4, <1>6, <1>10, SameNeverFalls DEF Raises
<1>. QED BY <1>9, <1>11, <1>12, <1>13 DEF FenceInv

LEMMA SaveAnchorKeepsInv ==
  ASSUME FenceInv, NEW p \in Clients, SaveAnchor(p)
  PROVE  FenceInv' /\ Raises
<1>. DEFINE w == writing[p]
            w1 == [w EXCEPT !.step = "primary"]
<1>1. /\ w # Nothing /\ w.step = "copy"
      /\ copy' = w.records
      /\ writing' = [writing EXCEPT ![p].step = "primary"]
      /\ fence' = fence /\ trusted' = trusted
  BY DEF SaveAnchor, Writing, Continue
<1>2. FenceTypeOK /\ AnchorLeads
  BY DEF FenceInv
<1>3. /\ w \in Writes
      /\ Renewal(w, fence) /\ Progress(w, fence, copy, trusted)
      /\ \A q \in Clients \ {p} : writing[q] = Nothing
  BY <1>1, WriterFacts
<1>4. copy = fence /\ (Anchored => trusted = w.records)
  BY <1>1, <1>3 DEF Progress
<1>5. w.records \in Files
  BY <1>3 DEF Writes
<1>6. w1 \in Writes /\ w1.step = "primary" /\ w1.records = w.records /\ w1.on = w.on
  BY <1>3 DEF Writes
<1>7. /\ writing'[p] = w1
      /\ \A q \in Clients \ {p} : writing'[q] = Nothing
  BY <1>1, <1>2, <1>3 DEF FenceTypeOK
<1>8. FenceTypeOK'
  BY <1>1, <1>2, <1>5, <1>6 DEF FenceTypeOK
<1>9. NeverFalls(fence, w.records)
  BY <1>3, RenewalNeverFalls
<1>10. AnchorLeads'
  <2>. SUFFICES ASSUME NEW on \in Resources
                PROVE  /\ fence[on].token <= w.records[on].token
                       /\ Anchored => w.records[on].token <= trusted[on].token
    BY <1>1 DEF AnchorLeads
  <2>1. fence[on].token <= w.records[on].token
    BY <1>2, <1>5, <1>9, NeverFallsRises DEF FenceTypeOK
  <2>2. w.records[on].token \in Nat
    BY <1>5, FileTokenType
  <2>. QED BY <1>4, <2>1, <2>2
<1>11. OneWriter' /\ WritesInTurn'
  <2>1. Renewal(w1, fence')
    BY <1>1, <1>3, <1>6 DEF Renewal
  <2>2. Progress(w1, fence', copy', trusted')
    BY <1>1, <1>4, <1>6 DEF Progress
  <2>. QED BY <1>7, <2>1, <2>2, OneGoesOn
<1>12. Raises
  BY <1>1, <1>4, <1>9, SameNeverFalls DEF Raises
<1>. QED BY <1>8, <1>10, <1>11, <1>12 DEF FenceInv

LEMMA SaveKeepsInv ==
  ASSUME FenceInv, NEW p \in Clients, Save(p)
  PROVE  FenceInv' /\ Raises
<1>. DEFINE w == writing[p]
<1>1. /\ w # Nothing /\ w.step = "primary"
      /\ fence' = w.records
      /\ writing' = [writing EXCEPT ![p] = Nothing]
      /\ copy' = copy /\ trusted' = trusted
  BY DEF Save, Writing, Unlock
<1>2. FenceTypeOK /\ AnchorLeads
  BY DEF FenceInv
<1>3. /\ w \in Writes
      /\ Renewal(w, fence) /\ Progress(w, fence, copy, trusted)
      /\ \A q \in Clients \ {p} : writing[q] = Nothing
  BY <1>1, WriterFacts
<1>4. copy = w.records
  BY <1>1, <1>3 DEF Progress
<1>5. w.records \in Files
  BY <1>3 DEF Writes
<1>6. FenceTypeOK'
  BY <1>1, <1>2, <1>5 DEF FenceTypeOK
<1>7. AnchorLeads'
  <2>. SUFFICES ASSUME NEW on \in Resources
                PROVE  /\ w.records[on].token <= copy[on].token
                       /\ Anchored => copy[on].token <= trusted[on].token
    BY <1>1 DEF AnchorLeads
  <2>1. w.records[on].token \in Nat
    BY <1>5, FileTokenType
  <2>. QED BY <1>2, <1>4, <2>1 DEF AnchorLeads
<1>8. OneWriter' /\ WritesInTurn'
  <2>1. \A q \in Clients : writing'[q] = Nothing
    BY <1>1, <1>2, <1>3 DEF FenceTypeOK
  <2>. QED BY <2>1, NoneGoesOn
<1>9. Raises
  BY <1>1, <1>3, RenewalNeverFalls, SameNeverFalls DEF Raises
<1>. QED BY <1>6, <1>7, <1>8, <1>9 DEF FenceInv

\* Giving up the lock, by a failure or by a crash, changes no place.
LEMMA GivingUpKeepsInv ==
  ASSUME FenceInv, UNCHANGED <<fence, copy, trusted>>,
         writing' \in [Clients -> Writes \cup {Nothing}],
         \A q \in Clients : writing'[q] = Nothing
  PROVE  FenceInv' /\ Raises
<1>1. fence' = fence /\ copy' = copy /\ trusted' = trusted
  OBVIOUS
<1>2. FenceTypeOK' /\ AnchorLeads'
  BY <1>1 DEF FenceInv, FenceTypeOK, AnchorLeads
<1>3. OneWriter' /\ WritesInTurn'
  BY NoneGoesOn
<1>4. Raises
  BY <1>1, SameNeverFalls DEF Raises
<1>. QED BY <1>2, <1>3, <1>4 DEF FenceInv

LEMMA StutterKeepsInv ==
  ASSUME FenceInv, UNCHANGED fenceVars
  PROVE  FenceInv' /\ Raises
<1>1. fence' = fence /\ copy' = copy /\ trusted' = trusted /\ writing' = writing
  BY DEF fenceVars
<1>2. FenceTypeOK' /\ AnchorLeads'
  BY <1>1 DEF FenceInv, FenceTypeOK, AnchorLeads
<1>3. OneWriter' /\ WritesInTurn'
  BY <1>1 DEF FenceInv, OneWriter, WritesInTurn
<1>4. Raises
  BY <1>1, SameNeverFalls DEF Raises
<1>. QED BY <1>2, <1>3, <1>4 DEF FenceInv

\* Every step keeps the invariant and raises tokens only.
LEMMA StepKeepsInv ==
  ASSUME FenceInv, [FenceNext]_fenceVars
  PROVE  FenceInv' /\ Raises
<1>1. ASSUME NEW p \in Clients, NEW on \in Resources, NEW to \in Fences, AcceptBegin(p, on, to)
      PROVE  FenceInv' /\ Raises
  BY <1>1, BeginKeepsInv
<1>2. ASSUME NEW on \in Resources, NEW to \in Fences, AcceptCurrent(on, to)
      PROVE  FenceInv' /\ Raises
  BY <1>2, StutterKeepsInv DEF AcceptCurrent
<1>3. ASSUME NEW p \in Clients, AdvanceAnchor(p) PROVE FenceInv' /\ Raises
  BY <1>3, AdvanceAnchorKeepsInv
<1>4. ASSUME NEW p \in Clients, SaveAnchor(p) PROVE FenceInv' /\ Raises
  BY <1>4, SaveAnchorKeepsInv
<1>5. ASSUME NEW p \in Clients, Save(p) PROVE FenceInv' /\ Raises
  BY <1>5, SaveKeepsInv
<1>6. ASSUME NEW p \in Clients, WriteFails(p) PROVE FenceInv' /\ Raises
  <2>1. /\ writing[p] # Nothing
        /\ writing' = [writing EXCEPT ![p] = Nothing]
        /\ UNCHANGED <<fence, copy, trusted>>
    BY <1>6 DEF WriteFails, Unlock
  <2>2. /\ writing' \in [Clients -> Writes \cup {Nothing}]
        /\ \A q \in Clients : writing'[q] = Nothing
    BY <2>1, WriterFacts DEF FenceInv, FenceTypeOK
  <2>. QED BY <2>1, <2>2, GivingUpKeepsInv
<1>7. CASE FenceCrash
  BY <1>7, GivingUpKeepsInv DEF FenceCrash
<1>8. CASE UNCHANGED fenceVars
  BY <1>8, StutterKeepsInv
<1>. QED BY <1>1, <1>2, <1>3, <1>4, <1>5, <1>6, <1>7, <1>8 DEF FenceNext

-----------------------------------------------------------------------------

\* One client writes at a time, the places in turn, and the three places keep
\* their types and their order, in every state of every store.
THEOREM FenceInvariant == FenceSpec => []FenceInv
<1>1. FenceInv /\ [FenceNext]_fenceVars => FenceInv'
  BY StepKeepsInv
<1>. QED BY InitInv, <1>1, PTL DEF FenceSpec

\* The state keeps its type: a file always holds all records, whichever step is
\* the last one that was reached.
THEOREM FenceTypeCorrect == FenceSpec => []FenceTypeOK
<1>1. FenceInv => FenceTypeOK
  BY DEF FenceInv
<1>. QED BY FenceInvariant, <1>1, PTL

\* The copy is never behind the file, nor the trusted anchor behind the copy,
\* through every failure and crash of accept.
THEOREM FenceAnchorLeads == FenceSpec => []AnchorLeads
<1>1. FenceInv => AnchorLeads
  BY DEF FenceInv
<1>. QED BY FenceInvariant, <1>1, PTL

\* No fence ever goes back to a lower token or to another controller at the same
\* token, with any number of concurrent callers of accept.
THEOREM FenceMonotone == FenceSpec => FenceNeverFalls
<1>1. FenceInv /\ [FenceNext]_fenceVars =>
        [NeverFalls(fence, fence') /\ NeverFalls(copy, copy') /\ NeverFalls(trusted, trusted')]_fenceVars
  BY StepKeepsInv DEF Raises
<1>. QED BY FenceInvariant, <1>1, PTL DEF FenceSpec, FenceNeverFalls

-----------------------------------------------------------------------------
(* The endpoint behind the fence *)

\* Where a call is that has claimed its transaction.
Claimed == {"refence", "admit", "insert", "ready", "sent"}

ClaimInv ==
  /\ claims \cap notApplied = {}
  /\ \A c \in Calls : job[c].pc \in Claimed => job[c].of \in claims
  /\ \A c, d \in Calls :
       job[c].pc \in Claimed /\ job[d].pc \in Claimed /\ job[c].of = job[d].of => c = d

-----------------------------------------------------------------------------
(* Types *)

\* There is a value for every placeholder.
LEMMA PlaceholderType ==
  /\ AnyOf(Resources) \in Resources
  /\ AnyOf(Fences) \in Fences
  /\ AnyOf(Transactions) \in Transactions
<1>1. \A S : S # {} => AnyOf(S) \in S
  BY DEF AnyOf
<1>2. PICK holder \in Controllers : TRUE
  BY ExistAssumption
<1>3. [token |-> 1, holder |-> holder] \in Fences
  BY ExistAssumption, TokenAssumption DEF Fences
<1>4. Fences # {}
  BY <1>3
<1>. QED BY <1>1, <1>4, ExistAssumption

\* What changes when a call goes on.
LEMMA GotoFacts ==
  ASSUME job \in [Clients -> Jobs], NEW p \in Clients, NEW pc \in Pcs, Goto(p, pc)
  PROVE  /\ job' \in [Clients -> Jobs]
         /\ job'[p].pc = pc /\ job'[p].of = job[p].of
         /\ job'[p].on = job[p].on /\ job'[p].to = job[p].to
         /\ \A q \in Clients \ {p} : job'[q] = job[q]
<1>. DEFINE j == [job[p] EXCEPT !.pc = pc]
<1>1. job' = [job EXCEPT ![p] = j]
  BY DEF Goto
<1>2. j \in Jobs /\ j.pc = pc /\ j.of = job[p].of /\ j.on = job[p].on /\ j.to = job[p].to
  BY DEF Jobs
<1>. QED BY <1>1, <1>2

-----------------------------------------------------------------------------
(* The claims *)

\* A step keeps the claims in order if no call gets past its claim by it.
LEMMA KeepsClaims ==
  ASSUME ClaimInv, claims' = claims, notApplied' = notApplied,
         \A c \in Calls : job'[c].pc \in Claimed =>
           job[c].pc \in Claimed /\ job'[c].of = job[c].of
  PROVE  ClaimInv'
BY DEF ClaimInv

\* So does every step that moves one client on, other than over its claim.
LEMMA GotoKeepsClaims ==
  ASSUME ClaimInv, job \in [Clients -> Jobs], NEW p \in Clients, NEW pc \in Pcs, Goto(p, pc),
         claims' = claims, notApplied' = notApplied,
         pc \in Claimed => job[p].pc \in Claimed
  PROVE  job' \in [Clients -> Jobs] /\ ClaimInv'
<1>1. /\ job' \in [Clients -> Jobs]
      /\ job'[p].pc = pc /\ job'[p].of = job[p].of
      /\ \A q \in Clients \ {p} : job'[q] = job[q]
  BY GotoFacts
<1>2. \A c \in Calls : job'[c].pc \in Claimed => job[c].pc \in Claimed /\ job'[c].of = job[c].of
  BY <1>1, ClientsAssumption
<1>. QED BY <1>1, <1>2, KeepsClaims

-----------------------------------------------------------------------------
(* Steps of a request *)

\* The part of the state that no step of a client puts in question.
Tables ==
  /\ claims \subseteq Transactions
  /\ notApplied \subseteq Transactions
  /\ admissions \in [Transactions -> Binding \cup {Unbound}]
  /\ holds \subseteq Resources
  /\ journal \subseteq Handoffs

\* The lock of the barrier has one holder.
OneHolder == locked \subseteq Clients /\ \A p, q \in locked : p = q

EndpointInv == job \in [Clients -> Jobs] /\ OneHolder /\ Tables /\ ClaimInv

\* Taking the lock when it is free, or giving it back, leaves one holder at most.
LEMMA LockKeepsOneHolder ==
  ASSUME OneHolder, NEW p \in Clients,
         \/ locked' = locked
         \/ locked' = locked \ {p}
         \/ BarrierFree /\ locked' = locked \cup {p}
  PROVE  OneHolder'
BY DEF OneHolder, BarrierFree

LEMMA CallKeepsInv ==
  ASSUME EndpointInv, NEW c \in Calls, CallStep(c) PROVE EndpointInv' /\ UNCHANGED fenceVars
<1>. c \in Clients
  BY ClientsAssumption
<1>. job \in [Clients -> Jobs] /\ OneHolder /\ Tables /\ ClaimInv
  BY DEF EndpointInv
<1>1. ASSUME NEW on \in Resources, NEW to \in Fences, NEW t \in Transactions, Begin(c, on, to, t)
      PROVE  EndpointInv' /\ UNCHANGED fenceVars
  <2>. DEFINE j == [pc |-> "fence", on |-> on, to |-> to, of |-> t, from |-> NoFence]
  <2>1. /\ job' = [job EXCEPT ![c] = j]
        /\ UNCHANGED <<fenceVars, locked, claims, notApplied, admissions, holds, journal>>
    BY <1>1 DEF Begin, durableVars
  <2>2. j \in Jobs /\ j.pc = "fence"
    BY DEF Jobs, Pcs, CallPcs
  <2>3. job' \in [Clients -> Jobs]
    BY <2>1, <2>2
  <2>4. \A d \in Calls : job'[d].pc \in Claimed => job[d].pc \in Claimed /\ job'[d].of = job[d].of
    BY <2>1, <2>2, ClientsAssumption DEF Claimed
  <2>5. ClaimInv'
    BY <2>1, <2>4, KeepsClaims
  <2>6. OneHolder' /\ Tables'
    BY <2>1 DEF OneHolder, Tables
  <2>. QED BY <2>1, <2>3, <2>5, <2>6 DEF EndpointInv
<1>2. CASE Claim(c)
  <2>1. /\ job[c].pc = "claim" /\ Goto(c, "refence")
        /\ job[c].of \notin claims \cup notApplied
        /\ claims' = claims \cup {job[c].of}
        /\ UNCHANGED <<fenceVars, locked, notApplied, admissions, holds, journal>>
    BY <1>2 DEF Claim, At, Claimable
  <2>2. /\ job' \in [Clients -> Jobs]
        /\ job'[c].pc = "refence" /\ job'[c].of = job[c].of
        /\ \A q \in Clients \ {c} : job'[q] = job[q]
    BY <2>1, GotoFacts DEF Pcs, CallPcs
  <2>3. job[c].of \in Transactions
    BY DEF Jobs
  <2>4. OneHolder' /\ Tables'
    BY <2>1, <2>3 DEF OneHolder, Tables
  <2>5. ClaimInv'
    <3>1. claims' \cap notApplied' = {}
      BY <2>1 DEF ClaimInv
    <3>2. \A d \in Calls \ {c} : job'[d] = job[d]
      BY <2>2, ClientsAssumption
    <3>3. \A d \in Calls \ {c} : job[d].pc \in Claimed => job[d].of \in claims
      BY DEF ClaimInv
    <3>4. \A d \in Calls : job'[d].pc \in Claimed => job'[d].of \in claims'
      BY <2>1, <2>2, <3>2, <3>3
    <3>5. \A d \in Calls \ {c} : job'[d].pc \in Claimed => job'[d].of # job'[c].of
      BY <2>1, <2>2, <3>2, <3>3
    <3>6. \A d, e \in Calls \ {c} :
            job'[d].pc \in Claimed /\ job'[e].pc \in Claimed /\ job'[d].of = job'[e].of => d = e
      BY <3>2 DEF ClaimInv
    <3>. QED BY <3>1, <3>4, <3>5, <3>6 DEF ClaimInv
  <2>. QED BY <2>1, <2>2, <2>4, <2>5 DEF EndpointInv
<1>3. CASE AdmitBegin(c)
  <2>1. /\ job[c].pc = "admit" /\ Goto(c, "insert")
        /\ BarrierFree /\ locked' = locked \cup {c}
        /\ UNCHANGED <<fenceVars, claims, notApplied, admissions, holds, journal>>
    BY <1>3 DEF AdmitBegin, At, durableVars
  <2>2. job' \in [Clients -> Jobs] /\ ClaimInv'
    BY <2>1, GotoKeepsClaims DEF Claimed, Pcs, CallPcs
  <2>3. OneHolder' /\ Tables'
    BY <2>1, LockKeepsOneHolder DEF Tables
  <2>. QED BY <2>1, <2>2, <2>3 DEF EndpointInv
<1>4. CASE AdmitCommit(c)
  <2>1. /\ job[c].pc = "insert" /\ Goto(c, "ready")
        /\ admissions' = [admissions EXCEPT ![job[c].of] = [on |-> job[c].on, to |-> job[c].to]]
        /\ locked' = locked \ {c}
        /\ UNCHANGED <<fenceVars, claims, notApplied, holds, journal>>
    BY <1>4 DEF AdmitCommit, At
  <2>2. job' \in [Clients -> Jobs] /\ ClaimInv'
    BY <2>1, GotoKeepsClaims DEF Claimed, Pcs, CallPcs
  <2>3. [on |-> job[c].on, to |-> job[c].to] \in Binding
    BY DEF Jobs, Binding
  <2>4. OneHolder' /\ Tables'
    BY <2>1, <2>3, LockKeepsOneHolder DEF Tables
  <2>. QED BY <2>1, <2>2, <2>4 DEF EndpointInv
<1>5. CASE Deliver(c)
  <2>1. /\ job[c].pc = "ready" /\ Goto(c, "sent")
        /\ UNCHANGED <<fenceVars, locked, claims, notApplied, admissions, holds, journal>>
    BY <1>5 DEF Deliver, At, durableVars
  <2>2. job' \in [Clients -> Jobs] /\ ClaimInv'
    BY <2>1, GotoKeepsClaims DEF Claimed, Pcs, CallPcs
  <2>3. OneHolder' /\ Tables'
    BY <2>1 DEF OneHolder, Tables
  <2>. QED BY <2>1, <2>2, <2>3 DEF EndpointInv
<1>. QED BY <1>1, <1>2, <1>3, <1>4, <1>5 DEF CallStep

-----------------------------------------------------------------------------
(* Steps of a handoff *)

LEMMA HandoffKeepsInv ==
  ASSUME EndpointInv, FenceTypeOK, NEW h \in Handoffs, HandoffStep(h)
  PROVE  EndpointInv' /\ UNCHANGED fenceVars
<1>. h \in Clients
  BY ClientsAssumption
<1>. job \in [Clients -> Jobs] /\ OneHolder /\ Tables /\ ClaimInv
  BY DEF EndpointInv
<1>1. ASSUME NEW on \in Resources, NEW holder \in Controllers, InstallBegin(h, on, holder)
      PROVE  EndpointInv' /\ UNCHANGED fenceVars
  <2>. DEFINE to == [token |-> fence[on].token + 1, holder |-> holder]
              j == [pc |-> "hold", on |-> on, to |-> to, of |-> AnyOf(Transactions), from |-> fence[on]]
  <2>1. /\ fence[on].token < MaxToken
        /\ BarrierFree /\ locked' = locked \cup {h}
        /\ job' = [job EXCEPT ![h] = j]
        /\ UNCHANGED <<fenceVars, claims, notApplied, admissions, holds, journal>>
    BY <1>1 DEF InstallBegin, durableVars
  <2>2. fence[on] \in Fences \cup {NoFence} /\ fence[on].token \in Nat
    BY FileTokenType DEF FenceTypeOK, Files
  <2>3. fence[on].token + 1 \in 1..MaxToken
    BY <2>1, <2>2, TokenAssumption
  <2>4. to \in Fences
    BY <2>3 DEF Fences
  <2>5. j \in Jobs /\ j.pc = "hold"
    BY <2>2, <2>4, PlaceholderType DEF Jobs, Pcs, HandoffPcs
  <2>6. job' \in [Clients -> Jobs]
    BY <2>1, <2>5
  <2>7. \A c \in Calls : job'[c].pc \in Claimed => job[c].pc \in Claimed /\ job'[c].of = job[c].of
    BY <2>1, <2>5, ClientsAssumption DEF Claimed
  <2>8. ClaimInv'
    BY <2>1, <2>7, KeepsClaims
  <2>9. OneHolder' /\ Tables'
    BY <2>1, LockKeepsOneHolder DEF Tables
  <2>. QED BY <2>1, <2>6, <2>8, <2>9 DEF EndpointInv
<1>2. CASE InstallHold(h)
  <2>1. /\ Goto(h, "held")
        /\ holds' = holds \cup {job[h].on} /\ locked' = locked \ {h}
        /\ UNCHANGED <<fenceVars, claims, notApplied, admissions, journal>>
    BY <1>2 DEF InstallHold
  <2>2. job' \in [Clients -> Jobs] /\ ClaimInv'
    BY <2>1, GotoKeepsClaims DEF Claimed, Pcs, HandoffPcs
  <2>3. job[h].on \in Resources
    BY DEF Jobs
  <2>4. OneHolder' /\ Tables'
    BY <2>1, <2>3, LockKeepsOneHolder DEF Tables
  <2>. QED BY <2>1, <2>2, <2>4 DEF EndpointInv
<1>3. CASE InstallFence(h) \/ InstallConfirm(h)
  <2>1. /\ Goto(h, "install") \/ Goto(h, "journal")
        /\ UNCHANGED <<fenceVars, locked, claims, notApplied, admissions, holds, journal>>
    BY <1>3 DEF InstallFence, InstallConfirm, durableVars
  <2>2. job' \in [Clients -> Jobs] /\ ClaimInv'
    BY <2>1, GotoKeepsClaims DEF Claimed, Pcs, HandoffPcs
  <2>3. OneHolder' /\ Tables'
    BY <2>1 DEF OneHolder, Tables
  <2>. QED BY <2>1, <2>2, <2>3 DEF EndpointInv
<1>4. CASE InstallJournal(h)
  <2>1. /\ Goto(h, "done") /\ journal' = journal \cup {h}
        /\ UNCHANGED <<fenceVars, locked, claims, notApplied, admissions, holds>>
    BY <1>4 DEF InstallJournal
  <2>2. job' \in [Clients -> Jobs] /\ ClaimInv'
    BY <2>1, GotoKeepsClaims DEF Claimed, Pcs
  <2>3. OneHolder' /\ Tables'
    BY <2>1 DEF OneHolder, Tables
  <2>. QED BY <2>1, <2>2, <2>3 DEF EndpointInv
<1>. QED BY <1>1, <1>2, <1>3, <1>4 DEF HandoffStep

-----------------------------------------------------------------------------
(* Steps in accept, failures and the finality store *)

LEMMA AcceptKeepsInv ==
  ASSUME EndpointInv, NEW p \in Clients, AcceptStep(p)
  PROVE  EndpointInv' /\ [FenceNext]_fenceVars
<1>. job \in [Clients -> Jobs] /\ OneHolder /\ Tables /\ ClaimInv
  BY DEF EndpointInv
<1>1. [FenceNext]_fenceVars
  <2>1. job[p].on \in Resources /\ job[p].to \in Fences
    BY DEF Jobs
  <2>. QED BY <2>1 DEF AcceptStep, AcceptCurrentToken, AcceptNewToken, WriteBefore,
                       AcceptSaves, AcceptRaises, FenceNext
<1>2. UNCHANGED <<locked, claims, notApplied, admissions, holds, journal>>
  BY DEF AcceptStep, AcceptCurrentToken, AcceptNewToken, WriteBefore, AcceptSaves,
         AcceptRaises, durableVars
<1>3. job' = job \/ Goto(p, AfterAccept(p)) \/ Goto(p, "refused")
  BY DEF AcceptStep, AcceptCurrentToken, AcceptNewToken, WriteBefore, AcceptSaves, AcceptRaises
<1>4. job' \in [Clients -> Jobs] /\ ClaimInv'
  <2>1. CASE job' = job
    BY <1>2, <2>1, KeepsClaims
  <2>2. CASE Goto(p, AfterAccept(p))
    <3>1. /\ AfterAccept(p) \in {"claim", "admit", "confirm"}
          /\ AfterAccept(p) = "admit" => job[p].pc = "refence"
      BY DEF AfterAccept, At
    <3>2. AfterAccept(p) \in Pcs /\ (AfterAccept(p) \in Claimed => job[p].pc \in Claimed)
      BY <3>1 DEF Pcs, CallPcs, HandoffPcs, Claimed
    <3>. QED BY <1>2, <2>2, <3>2, GotoKeepsClaims
  <2>3. CASE Goto(p, "refused")
    BY <1>2, <2>3, GotoKeepsClaims DEF Pcs, Claimed
  <2>. QED BY <1>3, <2>1, <2>2, <2>3
<1>5. OneHolder' /\ Tables'
  BY <1>2 DEF OneHolder, Tables
<1>. QED BY <1>1, <1>4, <1>5 DEF EndpointInv

LEMMA RefuseKeepsInv ==
  ASSUME EndpointInv, NEW p \in Clients, Refuse(p)
  PROVE  EndpointInv' /\ UNCHANGED fenceVars
<1>. job \in [Clients -> Jobs] /\ OneHolder /\ Tables /\ ClaimInv
  BY DEF EndpointInv
<1>1. /\ Goto(p, "refused") /\ locked' = locked \ {p}
      /\ UNCHANGED <<fenceVars, claims, notApplied, admissions, holds, journal>>
  BY DEF Refuse, durableVars
<1>2. job' \in [Clients -> Jobs] /\ ClaimInv'
  BY <1>1, GotoKeepsClaims DEF Pcs, Claimed
<1>3. OneHolder' /\ Tables'
  BY <1>1, LockKeepsOneHolder DEF Tables
<1>. QED BY <1>1, <1>2, <1>3 DEF EndpointInv

LEMMA RecordKeepsInv ==
  ASSUME EndpointInv, NEW t \in Transactions, RecordNotApplied(t)
  PROVE  EndpointInv' /\ UNCHANGED fenceVars
<1>1. /\ t \notin claims /\ notApplied' = notApplied \cup {t}
      /\ UNCHANGED <<fenceVars, job, locked, claims, admissions, holds, journal>>
  BY DEF RecordNotApplied
<1>2. ClaimInv'
  BY <1>1 DEF EndpointInv, ClaimInv
<1>. QED BY <1>1, <1>2 DEF EndpointInv, OneHolder, Tables

LEMMA CrashKeepsInv ==
  ASSUME EndpointInv, ExecCrash
  PROVE  EndpointInv' /\ [FenceNext]_fenceVars
<1>. job \in [Clients -> Jobs] /\ OneHolder /\ Tables /\ ClaimInv
  BY DEF EndpointInv
<1>1. /\ FenceCrash /\ locked' = {}
      /\ UNCHANGED <<claims, notApplied, admissions, holds, journal>>
  BY DEF ExecCrash, durableVars
<1>2. job' = [p \in Clients |->
        IF job[p].pc \in CallPcs \cup HandoffPcs THEN [job[p] EXCEPT !.pc = "lost"] ELSE job[p]]
  BY DEF ExecCrash
<1>3. ASSUME NEW p \in Clients
      PROVE  /\ job'[p] \in Jobs
             /\ job'[p] = job[p] \/ job'[p].pc = "lost"
  <2>1. [job[p] EXCEPT !.pc = "lost"] \in Jobs /\ [job[p] EXCEPT !.pc = "lost"].pc = "lost"
    BY DEF Jobs, Pcs
  <2>. QED BY <1>2, <2>1
<1>4. job' \in [Clients -> Jobs]
  BY <1>2, <1>3
<1>5. ClaimInv'
  <2>1. \A c \in Calls : job'[c].pc \in Claimed => job[c].pc \in Claimed /\ job'[c].of = job[c].of
    BY <1>3, ClientsAssumption DEF Claimed
  <2>. QED BY <1>1, <2>1, KeepsClaims
<1>6. OneHolder' /\ Tables'
  BY <1>1 DEF OneHolder, Tables
<1>. QED BY <1>1, <1>4, <1>5, <1>6 DEF EndpointInv, FenceNext

-----------------------------------------------------------------------------
(* All steps *)

ExecInv == EndpointInv /\ FenceInv

LEMMA ExecInitInv == ExecInit => ExecInv
<1>. SUFFICES ASSUME ExecInit PROVE ExecInv
  OBVIOUS
<1>1. FenceInv
  BY InitInv DEF ExecInit
<1>2. NewJob \in Jobs /\ NewJob.pc = "idle"
  BY PlaceholderType DEF NewJob, Jobs, Pcs
<1>3. job \in [Clients -> Jobs] /\ ClaimInv
  BY <1>2, ClientsAssumption DEF ExecInit, ClaimInv, Claimed
<1>4. OneHolder /\ Tables
  BY DEF ExecInit, OneHolder, Tables
<1>. QED BY <1>1, <1>3, <1>4 DEF ExecInv, EndpointInv

\* Every step of the endpoint keeps the invariant, and is one of the fence or none.
LEMMA ExecStepKeepsInv ==
  ASSUME ExecInv, [ExecNext]_execVars
  PROVE  ExecInv' /\ [FenceNext]_fenceVars
<1>. EndpointInv /\ FenceInv /\ FenceTypeOK
  BY DEF ExecInv, FenceInv
<1>1. EndpointInv' /\ [FenceNext]_fenceVars
  <2>1. ASSUME NEW c \in Calls, CallStep(c) PROVE EndpointInv' /\ [FenceNext]_fenceVars
    BY <2>1, CallKeepsInv
  <2>2. ASSUME NEW h \in Handoffs, HandoffStep(h) PROVE EndpointInv' /\ [FenceNext]_fenceVars
    BY <2>2, HandoffKeepsInv
  <2>3. ASSUME NEW p \in Clients, AcceptStep(p) \/ Refuse(p)
        PROVE  EndpointInv' /\ [FenceNext]_fenceVars
    BY <2>3, AcceptKeepsInv, RefuseKeepsInv
  <2>4. ASSUME NEW t \in Transactions, RecordNotApplied(t)
        PROVE  EndpointInv' /\ [FenceNext]_fenceVars
    BY <2>4, RecordKeepsInv
  <2>5. CASE ExecCrash
    BY <2>5, CrashKeepsInv
  <2>6. CASE UNCHANGED execVars
    <3>1. UNCHANGED <<fenceVars, job, locked, claims, notApplied, admissions, holds, journal>>
      BY <2>6 DEF execVars, durableVars
    <3>2. ClaimInv'
      BY <3>1 DEF EndpointInv, ClaimInv
    <3>. QED BY <3>1, <3>2 DEF EndpointInv, OneHolder, Tables
  <2>. QED BY <2>1, <2>2, <2>3, <2>4, <2>5, <2>6 DEF ExecNext
<1>2. FenceInv'
  BY <1>1, StepKeepsInv
<1>. QED BY <1>1, <1>2 DEF ExecInv

\* The invariant holds in every state of the endpoint.
THEOREM ExecInvariant == ExecSpec => []ExecInv
<1>1. ExecInv /\ [ExecNext]_execVars => ExecInv'
  BY ExecStepKeepsInv
<1>. QED BY ExecInitInv, <1>1, PTL DEF ExecSpec

\* The endpoint keeps its types; above all, the write lock of the barrier has one
\* holder at most, through refusals and crashes.
THEOREM ExecTypeCorrect == ExecSpec => []ExecTypeOK
<1>1. ExecInv => ExecTypeOK
  BY DEF ExecInv, ExecTypeOK, EndpointInv, OneHolder, Tables, FenceInv
<1>. QED BY ExecInvariant, <1>1, PTL

\* Requests and handoffs use the fence as ControllerFence describes it: the detailed
\* endpoint implements the fence alone.
THEOREM ExecImplementsFence == ExecSpec => FenceSpec
<1>1. ExecInit => FenceInit
  BY DEF ExecInit
<1>2. ExecInv /\ [ExecNext]_execVars => [FenceNext]_fenceVars
  BY ExecStepKeepsInv
<1>. QED BY ExecInvariant, <1>1, <1>2, PTL DEF ExecSpec, FenceSpec

\* So no fence of the endpoint ever falls back, whatever requests and handoffs do.
THEOREM ExecFenceMonotone == ExecSpec => FenceNeverFalls
BY ExecImplementsFence, FenceMonotone

\* A transaction reaches the device once at most, and never when it is on record as
\* not applied, however many requests repeat it and whenever the record is made.
THEOREM SentOnce == ExecSpec => []SentOnceUnlessClosed
<1>1. ExecInv => SentOnceUnlessClosed
  <2>. SUFFICES ASSUME ClaimInv PROVE SentOnceUnlessClosed
    BY DEF ExecInv, EndpointInv
  <2>. QED BY DEF ClaimInv, Claimed, SentOnceUnlessClosed, At
<1>. QED BY ExecInvariant, <1>1, PTL

-----------------------------------------------------------------------------
(* The barrier *)

\* Where a client is while the barrier's lock, or its admission, protects it.
Protected == {"insert", "hold", "ready"}

\* Who is between its checks and its commit holds the lock.
LockInv == \A p \in Clients : job[p].pc \in {"insert", "hold"} => p \in locked

\* What admit has checked stays true until it commits.
CheckedInv ==
  \A c \in Calls : job[c].pc = "insert" =>
    /\ job[c].on \notin holds
    /\ job[c].to.token <= fence[job[c].on].token
    /\ \A u \in Transactions :
         admissions[u].on = job[c].on => admissions[u].to.token <= job[c].to.token

\* An admitted request is in the journal with its own fence.
AdmittedInv ==
  \A c \in Calls : job[c].pc = "ready" =>
    admissions[job[c].of] = [on |-> job[c].on, to |-> job[c].to]

\* No admission is ahead of the fence.
BehindFence ==
  \A u \in Transactions : admissions[u].to.token <= fence[admissions[u].on].token

BarrierInv == LockInv /\ CheckedInv /\ AdmittedInv /\ BehindFence

FenceRises == \A on \in Resources : fence[on].token <= fence'[on].token

\* The types of what is compared.
LEMMA AdmissionType ==
  ASSUME Tables, NEW u \in Transactions
  PROVE  admissions[u].on \in Resources /\ admissions[u].to.token \in Nat
<1>1. admissions[u] \in Binding \cup {Unbound}
  BY DEF Tables
<1>2. CASE admissions[u] \in Binding
  <2>1. admissions[u].on \in Resources /\ admissions[u].to \in Fences
    BY <1>2 DEF Binding
  <2>. QED BY <2>1, TokenType
<1>3. CASE admissions[u] = Unbound
  <2>1. admissions[u].on = AnyOf(Resources) /\ admissions[u].to = NoFence
    BY <1>3 DEF Unbound
  <2>. QED BY <2>1, PlaceholderType, TokenType
<1>. QED BY <1>1, <1>2, <1>3

LEMMA JobType ==
  ASSUME job \in [Clients -> Jobs], NEW p \in Clients
  PROVE  /\ job[p].on \in Resources /\ job[p].of \in Transactions
         /\ job[p].to.token \in Nat /\ job[p].from.token \in Nat
<1>1. /\ job[p].on \in Resources /\ job[p].of \in Transactions
      /\ job[p].to \in Fences /\ job[p].from \in Fences \cup {NoFence}
  BY DEF Jobs
<1>. QED BY <1>1, TokenType

\* The fence only rises, in any step of the endpoint.
LEMMA StepRises ==
  ASSUME ExecInv, [ExecNext]_execVars PROVE FenceRises
<1>1. [FenceNext]_fenceVars
  BY ExecStepKeepsInv
<1>2. FenceInv' /\ NeverFalls(fence, fence') /\ FenceInv
  BY <1>1, StepKeepsInv DEF ExecInv, Raises
<1>. QED BY <1>2, NeverFallsRises DEF FenceRises, FenceInv, FenceTypeOK

\* A step that moves nobody into the barrier, and writes none of its tables.
Quiet ==
  /\ admissions' = admissions /\ holds' = holds
  /\ \A p \in Clients : job'[p].pc \in Protected => job'[p] = job[p]
  /\ \A p \in Clients : job'[p].pc \in {"insert", "hold"} => p \in locked'

LEMMA QuietKeepsBarrier ==
  ASSUME ExecInv, ExecInv', BarrierInv, FenceRises, Quiet PROVE BarrierInv'
<1>. /\ job \in [Clients -> Jobs] /\ Tables /\ FenceTypeOK /\ FenceTypeOK'
     /\ LockInv /\ CheckedInv /\ AdmittedInv /\ BehindFence
  BY DEF ExecInv, EndpointInv, FenceInv, BarrierInv
<1>. admissions' = admissions /\ holds' = holds
  BY DEF Quiet
<1>1. \A on \in Resources : fence[on].token \in Nat /\ fence'[on].token \in Nat
  BY FileTokenType DEF FenceTypeOK
<1>2. LockInv'
  BY DEF LockInv, Quiet
<1>3. ASSUME NEW c \in Calls, job'[c].pc \in Protected PROVE job'[c] = job[c]
  BY <1>3, ClientsAssumption DEF Quiet
<1>4. CheckedInv'
  <2>. SUFFICES ASSUME NEW c \in Calls, job'[c].pc = "insert"
                PROVE  /\ job'[c].on \notin holds
                       /\ job'[c].to.token <= fence'[job'[c].on].token
                       /\ \A u \in Transactions :
                            admissions[u].on = job'[c].on => admissions[u].to.token <= job'[c].to.token
    BY DEF CheckedInv
  <2>1. job'[c] = job[c]
    BY <1>3 DEF Protected
  <2>2. job[c].on \in Resources /\ job[c].to.token \in Nat
    BY JobType, ClientsAssumption
  <2>3. job[c].to.token <= fence[job[c].on].token
    BY <2>1 DEF CheckedInv
  <2>4. job[c].to.token <= fence'[job[c].on].token
    BY <1>1, <2>2, <2>3 DEF FenceRises
  <2>. QED BY <2>1, <2>4 DEF CheckedInv
<1>5. AdmittedInv'
  BY <1>3 DEF AdmittedInv, Protected
<1>6. BehindFence'
  <2>. SUFFICES ASSUME NEW u \in Transactions
                PROVE  admissions[u].to.token <= fence'[admissions[u].on].token
    BY DEF BehindFence
  <2>1. admissions[u].on \in Resources /\ admissions[u].to.token \in Nat
    BY AdmissionType
  <2>. QED BY <1>1, <2>1 DEF BehindFence, FenceRises
<1>. QED BY <1>2, <1>4, <1>5, <1>6 DEF BarrierInv

\* A step that moves one client on, not into the barrier, is quiet.
LEMMA GotoIsQuiet ==
  ASSUME job \in [Clients -> Jobs], LockInv, NEW p \in Clients, NEW pc \in Pcs \ Protected,
         Goto(p, pc), admissions' = admissions, holds' = holds,
         locked' = locked \/ locked' = locked \ {p}
  PROVE  Quiet
<1>1. /\ job'[p].pc = pc
      /\ \A q \in Clients \ {p} : job'[q] = job[q]
  BY GotoFacts
<1>. QED BY <1>1 DEF Quiet, Protected, LockInv

\* The lock keeps everybody else out of the barrier.
LEMMA Alone ==
  ASSUME OneHolder, LockInv, NEW p \in Clients, job[p].pc \in {"insert", "hold"},
         NEW q \in Clients \ {p}
  PROVE  job[q].pc \notin {"insert", "hold"}
BY DEF OneHolder, LockInv

LEMMA AdmitBeginKeepsBarrier ==
  ASSUME EndpointInv, BarrierInv, NEW c \in Calls, AdmitBegin(c) PROVE BarrierInv'
<1>. c \in Clients
  BY ClientsAssumption
<1>. /\ job \in [Clients -> Jobs] /\ Tables
     /\ LockInv /\ CheckedInv /\ AdmittedInv /\ BehindFence
  BY DEF EndpointInv, BarrierInv
<1>1. /\ Goto(c, "insert") /\ locked' = locked \cup {c}
      /\ job[c].on \notin holds /\ fence[job[c].on] = job[c].to
      /\ fence' = fence /\ admissions' = admissions /\ holds' = holds
  BY DEF AdmitBegin, Admissible, FenceIs, durableVars, fenceVars
<1>2. /\ job'[c].pc = "insert" /\ job'[c].on = job[c].on /\ job'[c].to = job[c].to
      /\ \A q \in Clients \ {c} : job'[q] = job[q]
  BY <1>1, GotoFacts DEF Pcs, CallPcs
<1>3. \A d \in Calls \ {c} : job'[d] = job[d]
  BY <1>2, ClientsAssumption
<1>4. LockInv'
  BY <1>1, <1>2 DEF LockInv
<1>5. CheckedInv'
  <2>1. job[c].to.token <= fence[job[c].on].token
    BY <1>1, JobType
  <2>2. \A u \in Transactions :
          admissions[u].on = job[c].on => admissions[u].to.token <= job[c].to.token
    BY <1>1 DEF BehindFence
  <2>. QED BY <1>1, <1>2, <1>3, <2>1, <2>2 DEF CheckedInv
<1>6. AdmittedInv' /\ BehindFence'
  BY <1>1, <1>2, <1>3 DEF AdmittedInv, BehindFence
<1>. QED BY <1>4, <1>5, <1>6 DEF BarrierInv

LEMMA AdmitCommitKeepsBarrier ==
  ASSUME EndpointInv, BarrierInv, NEW c \in Calls, AdmitCommit(c) PROVE BarrierInv'
<1>. c \in Clients
  BY ClientsAssumption
<1>. /\ job \in [Clients -> Jobs] /\ Tables /\ OneHolder /\ ClaimInv
     /\ LockInv /\ CheckedInv /\ AdmittedInv /\ BehindFence
  BY DEF EndpointInv, BarrierInv
<1>. DEFINE t == job[c].of
            binding == [on |-> job[c].on, to |-> job[c].to]
<1>1. /\ job[c].pc = "insert" /\ Goto(c, "ready") /\ locked' = locked \ {c}
      /\ admissions' = [admissions EXCEPT ![t] = binding]
      /\ fence' = fence /\ holds' = holds
  BY DEF AdmitCommit, At, fenceVars
<1>2. /\ job'[c].pc = "ready" /\ job'[c].of = t
      /\ job'[c].on = job[c].on /\ job'[c].to = job[c].to
      /\ \A q \in Clients \ {c} : job'[q] = job[q]
  BY <1>1, GotoFacts DEF Pcs, CallPcs
<1>3. \A d \in Calls \ {c} : job'[d] = job[d]
  BY <1>2, ClientsAssumption
<1>4. /\ admissions'[t] = binding
      /\ \A u \in Transactions \ {t} : admissions'[u] = admissions[u]
  BY <1>1, JobType DEF Tables
<1>5. \A q \in Clients \ {c} : job[q].pc \notin {"insert", "hold"}
  BY <1>1, Alone
<1>6. LockInv'
  BY <1>2, <1>5 DEF LockInv
<1>7. CheckedInv'
  BY <1>2, <1>5, ClientsAssumption DEF CheckedInv
<1>8. AdmittedInv'
  <2>. SUFFICES ASSUME NEW d \in Calls, job'[d].pc = "ready"
                PROVE  admissions'[job'[d].of] = [on |-> job'[d].on, to |-> job'[d].to]
    BY DEF AdmittedInv
  <2>1. CASE d = c
    BY <1>2, <1>4, <2>1
  <2>2. CASE d # c
    <3>1. job'[d] = job[d] /\ job[d].pc = "ready"
      BY <1>3, <2>2
    <3>2. job[d].of # t /\ job[d].of \in Transactions
      BY <1>1, <2>2, <3>1, JobType, ClientsAssumption DEF ClaimInv, Claimed
    <3>. QED BY <1>4, <3>1, <3>2 DEF AdmittedInv
  <2>. QED BY <2>1, <2>2
<1>9. BehindFence'
  <2>1. job[c].to.token <= fence[job[c].on].token
    BY <1>1 DEF CheckedInv
  <2>. QED BY <1>1, <1>4, <2>1 DEF BehindFence
<1>. QED BY <1>6, <1>7, <1>8, <1>9 DEF BarrierInv

LEMMA InstallBeginKeepsBarrier ==
  ASSUME EndpointInv, BarrierInv, NEW h \in Handoffs, NEW on \in Resources,
         NEW holder \in Controllers, InstallBegin(h, on, holder)
  PROVE  BarrierInv'
<1>. h \in Clients /\ h \notin Calls
  BY ClientsAssumption
<1>. /\ job \in [Clients -> Jobs]
     /\ LockInv /\ CheckedInv /\ AdmittedInv /\ BehindFence
  BY DEF EndpointInv, BarrierInv
<1>1. /\ locked' = locked \cup {h}
      /\ \A q \in Clients \ {h} : job'[q] = job[q]
      /\ fence' = fence /\ admissions' = admissions /\ holds' = holds
  BY DEF InstallBegin, durableVars, fenceVars
<1>2. \A c \in Calls : job'[c] = job[c]
  BY <1>1, ClientsAssumption
<1>3. LockInv'
  BY <1>1 DEF LockInv
<1>4. CheckedInv' /\ AdmittedInv' /\ BehindFence'
  BY <1>1, <1>2 DEF CheckedInv, AdmittedInv, BehindFence
<1>. QED BY <1>3, <1>4 DEF BarrierInv

LEMMA InstallHoldKeepsBarrier ==
  ASSUME EndpointInv, BarrierInv, NEW h \in Handoffs, InstallHold(h) PROVE BarrierInv'
<1>. h \in Clients /\ h \notin Calls
  BY ClientsAssumption
<1>. /\ job \in [Clients -> Jobs] /\ OneHolder
     /\ LockInv /\ CheckedInv /\ AdmittedInv /\ BehindFence
  BY DEF EndpointInv, BarrierInv
<1>1. /\ job[h].pc = "hold" /\ Goto(h, "held") /\ locked' = locked \ {h}
      /\ fence' = fence /\ admissions' = admissions
  BY DEF InstallHold, At, fenceVars
<1>2. /\ job'[h].pc = "held"
      /\ \A q \in Clients \ {h} : job'[q] = job[q]
  BY <1>1, GotoFacts DEF Pcs, HandoffPcs
<1>3. \A q \in Clients \ {h} : job[q].pc \notin {"insert", "hold"}
  BY <1>1, Alone
<1>4. \A c \in Calls : job'[c] = job[c] /\ job[c].pc # "insert"
  BY <1>2, <1>3, ClientsAssumption
<1>5. LockInv'
  BY <1>2, <1>3 DEF LockInv
<1>6. CheckedInv' /\ AdmittedInv' /\ BehindFence'
  BY <1>1, <1>4 DEF CheckedInv, AdmittedInv, BehindFence
<1>. QED BY <1>5, <1>6 DEF BarrierInv

\* Every other step is quiet.
LEMMA OtherStepsAreQuiet ==
  ASSUME EndpointInv, BarrierInv, [ExecNext]_execVars,
         \A c \in Calls : ~AdmitBegin(c) /\ ~AdmitCommit(c),
         \A h \in Handoffs : ~InstallHold(h),
         \A h \in Handoffs, on \in Resources, holder \in Controllers : ~InstallBegin(h, on, holder)
  PROVE  Quiet
<1>. job \in [Clients -> Jobs] /\ LockInv
  BY DEF EndpointInv, BarrierInv
<1>1. ASSUME NEW c \in Calls, NEW on \in Resources, NEW to \in Fences, NEW t \in Transactions,
             Begin(c, on, to, t)
      PROVE  Quiet
  <2>1. /\ admissions' = admissions /\ holds' = holds /\ locked' = locked
        /\ c \in Clients /\ job'[c].pc = "fence"
        /\ \A q \in Clients \ {c} : job'[q] = job[q]
    BY <1>1, ClientsAssumption DEF Begin, durableVars
  <2>. QED BY <2>1 DEF Quiet, Protected, LockInv
<1>2. ASSUME NEW c \in Calls, Claim(c) \/ Deliver(c) PROVE Quiet
  <2>1. /\ Goto(c, "refence") \/ Goto(c, "sent")
        /\ admissions' = admissions /\ holds' = holds /\ locked' = locked
    BY <1>2 DEF Claim, Deliver, durableVars
  <2>2. "refence" \in Pcs \ Protected /\ "sent" \in Pcs \ Protected
    BY DEF Pcs, CallPcs, Protected
  <2>. QED BY <2>1, <2>2, GotoIsQuiet, ClientsAssumption
<1>3. ASSUME NEW h \in Handoffs, InstallFence(h) \/ InstallConfirm(h) \/ InstallJournal(h)
      PROVE  Quiet
  <2>1. /\ Goto(h, "install") \/ Goto(h, "journal") \/ Goto(h, "done")
        /\ admissions' = admissions /\ holds' = holds /\ locked' = locked
    BY <1>3 DEF InstallFence, InstallConfirm, InstallJournal, durableVars
  <2>2. {"install", "journal", "done"} \subseteq Pcs \ Protected
    BY DEF Pcs, HandoffPcs, Protected
  <2>. QED BY <2>1, <2>2, GotoIsQuiet, ClientsAssumption
<1>4. ASSUME NEW p \in Clients, AcceptStep(p) PROVE Quiet
  <2>1. /\ job' = job \/ Goto(p, AfterAccept(p)) \/ Goto(p, "refused")
        /\ admissions' = admissions /\ holds' = holds /\ locked' = locked
    BY <1>4 DEF AcceptStep, AcceptCurrentToken, AcceptNewToken, WriteBefore, AcceptSaves,
                AcceptRaises, durableVars
  <2>2. AfterAccept(p) \in Pcs \ Protected /\ "refused" \in Pcs \ Protected
    BY DEF AfterAccept, Pcs, CallPcs, HandoffPcs, Protected
  <2>3. CASE job' = job
    BY <2>1, <2>3 DEF Quiet, LockInv
  <2>. QED BY <2>1, <2>2, <2>3, GotoIsQuiet
<1>5. ASSUME NEW p \in Clients, Refuse(p) PROVE Quiet
  <2>1. /\ Goto(p, "refused") /\ locked' = locked \ {p}
        /\ admissions' = admissions /\ holds' = holds
    BY <1>5 DEF Refuse, durableVars
  <2>2. "refused" \in Pcs \ Protected
    BY DEF Pcs, Protected
  <2>. QED BY <2>1, <2>2, GotoIsQuiet
<1>6. ASSUME NEW t \in Transactions, RecordNotApplied(t) PROVE Quiet
  BY <1>6 DEF RecordNotApplied, Quiet, LockInv
<1>7. CASE ExecCrash
  <2>1. admissions' = admissions /\ holds' = holds
    BY <1>7 DEF ExecCrash, durableVars
  <2>2. ASSUME NEW p \in Clients PROVE job'[p].pc \notin Protected
    <3>1. job'[p] = IF job[p].pc \in CallPcs \cup HandoffPcs
                      THEN [job[p] EXCEPT !.pc = "lost"] ELSE job[p]
      BY <1>7 DEF ExecCrash
    <3>2. [job[p] EXCEPT !.pc = "lost"].pc = "lost"
      BY DEF Jobs
    <3>3. Protected \subseteq CallPcs \cup HandoffPcs /\ "lost" \notin Protected
      BY DEF Protected, CallPcs, HandoffPcs
    <3>. QED BY <3>1, <3>2, <3>3
  <2>. QED BY <2>1, <2>2 DEF Quiet, Protected
<1>8. CASE UNCHANGED execVars
  BY <1>8 DEF execVars, durableVars, Quiet, LockInv
<1>. QED BY <1>1, <1>2, <1>3, <1>4, <1>5, <1>6, <1>7, <1>8 DEF ExecNext, CallStep, HandoffStep

LEMMA ExecStepKeepsBarrier ==
  ASSUME ExecInv, BarrierInv, [ExecNext]_execVars PROVE BarrierInv'
<1>. EndpointInv
  BY DEF ExecInv
<1>1. CASE Quiet
  BY <1>1, ExecStepKeepsInv, StepRises, QuietKeepsBarrier
<1>2. CASE \E c \in Calls : AdmitBegin(c) \/ AdmitCommit(c)
  BY <1>2, AdmitBeginKeepsBarrier, AdmitCommitKeepsBarrier
<1>3. CASE \E h \in Handoffs : InstallHold(h)
  BY <1>3, InstallHoldKeepsBarrier
<1>4. CASE \E h \in Handoffs, on \in Resources, holder \in Controllers : InstallBegin(h, on, holder)
  BY <1>4, InstallBeginKeepsBarrier
<1>. QED BY <1>1, <1>2, <1>3, <1>4, OtherStepsAreQuiet

LEMMA ExecInitBarrier == ExecInit => BarrierInv
<1>. SUFFICES ASSUME ExecInit PROVE BarrierInv
  OBVIOUS
<1>1. \A p \in Clients : job[p].pc = "idle"
  BY DEF ExecInit, NewJob
<1>2. LockInv /\ CheckedInv /\ AdmittedInv
  BY <1>1, ClientsAssumption DEF LockInv, CheckedInv, AdmittedInv
<1>3. BehindFence
  <2>1. \A u \in Transactions : admissions[u].on = AnyOf(Resources) /\ admissions[u].to = NoFence
    BY DEF ExecInit, Unbound
  <2>2. fence[AnyOf(Resources)] = NoFence
    BY PlaceholderType DEF ExecInit, FenceInit
  <2>3. NoFence.token \in Nat
    BY TokenType
  <2>. QED BY <2>1, <2>2, <2>3 DEF BehindFence
<1>. QED BY <1>2, <1>3 DEF BarrierInv

\* The barrier's invariant holds in every state.
THEOREM BarrierInvariant == ExecSpec => []BarrierInv
<1>1. ExecInv /\ BarrierInv /\ [ExecNext]_execVars => BarrierInv'
  BY ExecStepKeepsBarrier
<1>. QED BY ExecInitBarrier, ExecInvariant, <1>1, PTL DEF ExecSpec

-----------------------------------------------------------------------------
(* What the barrier is for *)

\* A new admission is the commit of the call it belongs to.
LEMMA NewAdmission ==
  ASSUME ExecInv, BarrierInv, [ExecNext]_execVars,
         NEW t \in Transactions, admissions'[t] # admissions[t]
  PROVE  \E c \in Calls :
           /\ job[c].pc = "insert"
           /\ admissions'[t].on = job[c].on /\ admissions'[t].to = job[c].to
<1>. EndpointInv
  BY DEF ExecInv
<1>1. ~Quiet
  BY DEF Quiet
<1>2. \A c \in Calls : ~AdmitBegin(c)
  BY DEF AdmitBegin, durableVars
<1>3. \A h \in Handoffs : ~InstallHold(h)
  BY DEF InstallHold
<1>4. \A h \in Handoffs, on \in Resources, holder \in Controllers : ~InstallBegin(h, on, holder)
  BY DEF InstallBegin, durableVars
<1>5. PICK c \in Calls : AdmitCommit(c)
  BY <1>1, <1>2, <1>3, <1>4, OtherStepsAreQuiet
<1>6. /\ job[c].pc = "insert"
      /\ admissions' = [admissions EXCEPT ![job[c].of] = [on |-> job[c].on, to |-> job[c].to]]
  BY <1>5 DEF AdmitCommit, At
<1>7. admissions'[t] = [on |-> job[c].on, to |-> job[c].to]
  BY <1>6 DEF EndpointInv, Tables
<1>. QED BY <1>6, <1>7

\* What the device gets was admitted by the barrier.
LEMMA SentWasReady ==
  ASSUME job \in [Clients -> Jobs], [ExecNext]_execVars,
         NEW c \in Calls, job[c].pc # "sent", job'[c].pc = "sent"
  PROVE  job[c].pc = "ready"
<1>. c \in Clients
  BY ClientsAssumption
<1>1. ASSUME NEW p \in Clients, NEW pc \in Pcs \ {"sent"}, Goto(p, pc) PROVE FALSE
  BY <1>1, GotoFacts
<1>2. ASSUME NEW d \in Calls, CallStep(d) PROVE job[c].pc = "ready"
  <2>. d \in Clients
    BY ClientsAssumption
  <2>1. ASSUME NEW on \in Resources, NEW to \in Fences, NEW t \in Transactions, Begin(d, on, to, t)
        PROVE  FALSE
    BY <2>1 DEF Begin
  <2>2. CASE Claim(d) \/ AdmitBegin(d) \/ AdmitCommit(d)
    <3>1. Goto(d, "refence") \/ Goto(d, "insert") \/ Goto(d, "ready")
      BY <2>2 DEF Claim, AdmitBegin, AdmitCommit
    <3>2. {"refence", "insert", "ready"} \subseteq Pcs \ {"sent"}
      BY DEF Pcs, CallPcs
    <3>. QED BY <1>1, <3>1, <3>2
  <2>3. CASE Deliver(d)
    <3>1. job[d].pc = "ready" /\ Goto(d, "sent")
      BY <2>3 DEF Deliver, At
    <3>2. \A q \in Clients \ {d} : job'[q] = job[q]
      BY <3>1, GotoFacts DEF Pcs
    <3>. QED BY <3>1, <3>2
  <2>. QED BY <1>2, <2>1, <2>2, <2>3 DEF CallStep
<1>3. ASSUME NEW h \in Handoffs, HandoffStep(h) PROVE FALSE
  <2>. h \in Clients
    BY ClientsAssumption
  <2>1. ASSUME NEW on \in Resources, NEW holder \in Controllers, InstallBegin(h, on, holder)
        PROVE  FALSE
    BY <2>1 DEF InstallBegin
  <2>2. CASE InstallHold(h) \/ InstallFence(h) \/ InstallConfirm(h) \/ InstallJournal(h)
    <3>1. Goto(h, "held") \/ Goto(h, "install") \/ Goto(h, "journal") \/ Goto(h, "done")
      BY <2>2 DEF InstallHold, InstallFence, InstallConfirm, InstallJournal
    <3>2. {"held", "install", "journal", "done"} \subseteq Pcs \ {"sent"}
      BY DEF Pcs, HandoffPcs
    <3>. QED BY <1>1, <3>1, <3>2
  <2>. QED BY <1>3, <2>1, <2>2 DEF HandoffStep
<1>4. ASSUME NEW p \in Clients, AcceptStep(p) \/ Refuse(p) PROVE FALSE
  <2>1. job' = job \/ Goto(p, AfterAccept(p)) \/ Goto(p, "refused")
    BY <1>4 DEF AcceptStep, AcceptCurrentToken, AcceptNewToken, WriteBefore, AcceptSaves,
                AcceptRaises, Refuse
  <2>2. AfterAccept(p) \in Pcs \ {"sent"} /\ "refused" \in Pcs \ {"sent"}
    BY DEF AfterAccept, Pcs, CallPcs, HandoffPcs
  <2>. QED BY <1>1, <2>1, <2>2
<1>5. CASE ExecCrash
  <2>1. job'[c] = IF job[c].pc \in CallPcs \cup HandoffPcs
                    THEN [job[c] EXCEPT !.pc = "lost"] ELSE job[c]
    BY <1>5 DEF ExecCrash
  <2>2. [job[c] EXCEPT !.pc = "lost"].pc = "lost"
    BY DEF Jobs
  <2>. QED BY <2>1, <2>2
<1>6. CASE job' = job
  BY <1>6
<1>. QED BY <1>2, <1>3, <1>4, <1>5, <1>6 DEF ExecNext, RecordNotApplied, execVars

\* The invariants hold before and after every step, and every property of a step that
\* follows from them is one of the specification.
LEMMA BothInvariants == ExecSpec => [](ExecInv /\ BarrierInv)
BY ExecInvariant, BarrierInvariant, PTL

\* Requests are admitted to a resource in the order of their tokens, for any number
\* of requests, handoffs and crashes.
THEOREM AdmissionsInOrder == ExecSpec => AdmittedInTokenOrder
<1>. DEFINE InOrder ==
       \A t \in Transactions :
         admissions'[t] # admissions[t] =>
           \A u \in Transactions :
             admissions[u].on = admissions'[t].on =>
               admissions[u].to.token <= admissions'[t].to.token
<1>1. ExecInv /\ BarrierInv /\ [ExecNext]_execVars => [InOrder]_execVars
  <2>. SUFFICES ASSUME ExecInv, BarrierInv, [ExecNext]_execVars,
                       NEW t \in Transactions, admissions'[t] # admissions[t],
                       NEW u \in Transactions, admissions[u].on = admissions'[t].on
                PROVE  admissions[u].to.token <= admissions'[t].to.token
    OBVIOUS
  <2>1. PICK c \in Calls : /\ job[c].pc = "insert"
                           /\ admissions'[t].on = job[c].on /\ admissions'[t].to = job[c].to
    BY NewAdmission
  <2>. QED BY <2>1 DEF BarrierInv, CheckedInv
<1>. QED BY BothInvariants, <1>1, PTL DEF ExecSpec, AdmittedInTokenOrder

\* Once a handoff's hold is committed, nothing more is admitted to its resource,
\* whatever had been checked before.
THEOREM HoldIsRespected == ExecSpec => HoldStopsAdmissions
<1>. DEFINE NotHeld ==
       \A t \in Transactions :
         admissions'[t] # admissions[t] => admissions'[t].on \notin holds
<1>1. ExecInv /\ BarrierInv /\ [ExecNext]_execVars => [NotHeld]_execVars
  <2>. SUFFICES ASSUME ExecInv, BarrierInv, [ExecNext]_execVars,
                       NEW t \in Transactions, admissions'[t] # admissions[t]
                PROVE  admissions'[t].on \notin holds
    OBVIOUS
  <2>1. PICK c \in Calls : job[c].pc = "insert" /\ admissions'[t].on = job[c].on
    BY NewAdmission
  <2>. QED BY <2>1 DEF BarrierInv, CheckedInv
<1>. QED BY BothInvariants, <1>1, PTL DEF ExecSpec, HoldStopsAdmissions

\* When the journal shows a handoff as drained, no request of the previous
\* controller, at its token or an earlier one, reaches the device any more.
THEOREM DrainedIsFinal == ExecSpec => DrainedExcludesPredecessor
<1>. DEFINE Excluded ==
       \A h \in Handoffs, c \in Calls :
         /\ Drained(h)
         /\ ~At(c, "sent") /\ job'[c].pc = "sent"
         /\ job[c].on = job[h].on /\ job[c].to.holder = job[h].from.holder
         => job[c].to.token > job[h].from.token
<1>1. ExecInv /\ BarrierInv /\ [ExecNext]_execVars => [Excluded]_execVars
  <2>. SUFFICES ASSUME ExecInv, BarrierInv, [ExecNext]_execVars,
                       NEW h \in Handoffs, NEW c \in Calls, Drained(h),
                       ~At(c, "sent"), job'[c].pc = "sent",
                       job[c].on = job[h].on, job[c].to.holder = job[h].from.holder
                PROVE  job[c].to.token > job[h].from.token
    OBVIOUS
  <2>1. /\ job \in [Clients -> Jobs] /\ c \in Clients /\ h \in Clients
    BY ClientsAssumption DEF ExecInv, EndpointInv
  <2>2. job[c].pc = "ready"
    BY <2>1, SentWasReady DEF At
  <2>3. admissions[job[c].of] = [on |-> job[c].on, to |-> job[c].to]
    BY <2>2 DEF BarrierInv, AdmittedInv
  <2>4. /\ job[c].of \in Transactions
        /\ job[c].to.token \in Nat /\ job[h].from.token \in Nat
    BY <2>1, JobType
  <2>5. ~Outstanding(h, admissions[job[c].of])
    BY <2>4 DEF Drained
  <2>. QED BY <2>3, <2>4, <2>5 DEF Outstanding
<1>. QED BY BothInvariants, <1>1, PTL DEF ExecSpec, DrainedExcludesPredecessor

=============================================================================
