------------------------------ MODULE PartsProofs ------------------------------
(***************************************************************************)
(* Proofs about three parts of the system that share no state: the user's  *)
(* media control, the adaptive directives, and the private timeline of a   *)
(* session.                                                                *)
(***************************************************************************)
EXTENDS MediaControl, DirectiveMemory, SessionJournal, ProtectionSupervisorProofs,
        SequenceTheorems

-----------------------------------------------------------------------------
(* Media control *)

\* A change under way leads from a state that was captured to its target; one that undoes
\* another leads to the state before it.
PendingLeadsOn ==
  pending # Unset =>
    /\ Capturable(pending.prior)
    /\ pending.target = Translate(pending.change, pending.prior)
    /\ pending.undoes # Unset => pending.target = pending.undoes.prior

\* The candidate's change leads from the state it expects back to the state before.
CandidateLeadsBack ==
  candidate # Unset =>
    /\ Capturable(candidate.expected)
    /\ candidate.prior = Translate(candidate.change, candidate.expected)

MediaInv == MediaTypeOK /\ PendingLeadsOn /\ CandidateLeadsBack

LEMMA StateType ==
  ASSUME NEW s \in DeviceStates
  PROVE  /\ s = [volume |-> s.volume, captions |-> s.captions,
                 preset |-> s.preset, bands |-> s.bands]
         /\ s.volume \in Percents \cup Fractions
         /\ s.captions \in BOOLEAN \cup {Unset}
         /\ s.preset \in Presets \cup {Unset}
         /\ s.bands \in BandSets \cup {Unset}
BY DEF DeviceStates

LEMMA ChangeType ==
  ASSUME NEW change \in Changes
  PROVE  /\ change = [op |-> change.op, value |-> change.value]
         /\ \/ change.op = "set_volume" /\ change.value \in Percents
            \/ change.op = "set_captions_enabled" /\ change.value \in BOOLEAN
            \/ change.op = "set_eq_preset" /\ change.value \in Presets
            \/ change.op = "set_eq_bands" /\ change.value \in BandSets
BY DEF Changes

\* What each operation makes of a state.
LEMMA Translated ==
  ASSUME NEW s \in DeviceStates, NEW change \in Changes
  PROVE  /\ change.op = "set_volume" =>
              Translate(change, s) =
                [volume |-> change.value, captions |-> s.captions,
                 preset |-> s.preset, bands |-> s.bands]
         /\ change.op = "set_captions_enabled" =>
              Translate(change, s) =
                [volume |-> s.volume, captions |-> change.value,
                 preset |-> s.preset, bands |-> s.bands]
         /\ change.op = "set_eq_preset" =>
              Translate(change, s) =
                [volume |-> s.volume, captions |-> s.captions,
                 preset |-> change.value, bands |-> Unset]
         /\ change.op = "set_eq_bands" =>
              Translate(change, s) =
                [volume |-> s.volume, captions |-> s.captions,
                 preset |-> Unset, bands |-> change.value]
<1>1. ASSUME change.op = "set_volume"
      PROVE  Translate(change, s) = [volume |-> change.value, captions |-> s.captions,
                                     preset |-> s.preset, bands |-> s.bands]
  <2>1. Translate(change, s) = [s EXCEPT !.volume = change.value]
    BY <1>1 DEF Translate
  <2> QED BY <2>1, StateType
<1>2. ASSUME change.op = "set_captions_enabled"
      PROVE  Translate(change, s) = [volume |-> s.volume, captions |-> change.value,
                                     preset |-> s.preset, bands |-> s.bands]
  <2>1. Translate(change, s) = [s EXCEPT !.captions = change.value]
    BY <1>2 DEF Translate
  <2> QED BY <2>1, StateType
<1>3. ASSUME change.op = "set_eq_preset"
      PROVE  Translate(change, s) = [volume |-> s.volume, captions |-> s.captions,
                                     preset |-> change.value, bands |-> Unset]
  <2>1. Translate(change, s) = [s EXCEPT !.preset = change.value, !.bands = Unset]
    BY <1>3 DEF Translate
  <2> QED BY <2>1, StateType
<1>4. ASSUME change.op = "set_eq_bands"
      PROVE  Translate(change, s) = [volume |-> s.volume, captions |-> s.captions,
                                     preset |-> Unset, bands |-> change.value]
  <2>1. Translate(change, s) = [s EXCEPT !.bands = change.value, !.preset = Unset]
    BY <1>4 DEF Translate
  <2> QED BY <2>1, StateType
<1> QED BY <1>1, <1>2, <1>3, <1>4

LEMMA TranslateType ==
  ASSUME NEW s \in DeviceStates, NEW change \in Changes
  PROVE  /\ Translate(change, s) \in DeviceStates
         /\ Capturable(s) => Capturable(Translate(change, s))
<1>1. CASE change.op = "set_volume"
  BY <1>1, Translated, ChangeType, StateType DEF DeviceStates, Capturable
<1>2. CASE change.op = "set_captions_enabled"
  BY <1>2, Translated, ChangeType, StateType DEF DeviceStates, Capturable
<1>3. CASE change.op = "set_eq_preset"
  BY <1>3, Translated, ChangeType, StateType DEF DeviceStates, Capturable
<1>4. CASE change.op = "set_eq_bands"
  BY <1>4, Translated, ChangeType, StateType DEF DeviceStates, Capturable
<1> QED BY <1>1, <1>2, <1>3, <1>4, ChangeType

\* The reversal of a change, if there is one, leads back to the state before it.
LEMMA ReversalReturns ==
  ASSUME NEW s \in DeviceStates, Capturable(s), NEW change \in Changes,
         NEW back \in Reversals(change.op, s)
  PROVE  back \in Changes /\ Translate(back, Translate(change, s)) = s
<1> DEFINE t == Translate(change, s)
<1>0. t \in DeviceStates
  BY TranslateType
<1>1. CASE change.op = "set_volume"
  <2>1. back = [op |-> "set_volume", value |-> s.volume] /\ s.volume \in Percents
    BY <1>1 DEF Reversals, Capturable
  <2>2. back \in Changes
    BY <2>1 DEF Changes
  <2>3. Translate(back, t) = [volume |-> s.volume, captions |-> t.captions,
                              preset |-> t.preset, bands |-> t.bands]
    BY <1>0, <2>1, <2>2, Translated
  <2> QED BY <1>1, <2>2, <2>3, Translated, StateType
<1>2. CASE change.op = "set_captions_enabled"
  <2>1. back = [op |-> "set_captions_enabled", value |-> s.captions] /\ back \in Changes
    BY <1>2 DEF Reversals
  <2>2. Translate(back, t) = [volume |-> t.volume, captions |-> s.captions,
                              preset |-> t.preset, bands |-> t.bands]
    BY <1>0, <2>1, Translated
  <2> QED BY <1>2, <2>1, <2>2, Translated, StateType
<1>3. CASE change.op \in {"set_eq_preset", "set_eq_bands"}
  <2>1. /\ back \in Changes
        /\ \/ back = [op |-> "set_eq_preset", value |-> s.preset]
           \/ back = [op |-> "set_eq_bands", value |-> s.bands]
    BY <1>3 DEF Reversals
  <2>2. t.volume = s.volume /\ t.captions = s.captions
    BY <1>3, Translated, ChangeType
  <2>3. CASE back = [op |-> "set_eq_preset", value |-> s.preset]
    <3>1. s.preset \in Presets
      BY <2>1, <2>3, ChangeType
    <3>2. s.bands = Unset
      BY <3>1, MediaAssumption DEF Capturable
    <3>3. Translate(back, t) = [volume |-> t.volume, captions |-> t.captions,
                                preset |-> s.preset, bands |-> Unset]
      BY <1>0, <2>1, <2>3, Translated
    <3> QED BY <2>1, <2>2, <3>2, <3>3, StateType
  <2>4. CASE back = [op |-> "set_eq_bands", value |-> s.bands]
    <3>1. s.bands \in BandSets
      BY <2>1, <2>4, ChangeType
    <3>2. s.preset = Unset
      BY <3>1, MediaAssumption DEF Capturable
    <3>3. Translate(back, t) = [volume |-> t.volume, captions |-> t.captions,
                                preset |-> Unset, bands |-> s.bands]
      BY <1>0, <2>1, <2>4, Translated
    <3> QED BY <2>1, <2>2, <3>2, <3>3, StateType
  <2> QED BY <2>1, <2>3, <2>4
<1> QED BY <1>1, <1>2, <1>3, ChangeType

LEMMA PendingType ==
  ASSUME NEW p \in Pendings
  PROVE  /\ p # Unset /\ p.change \in Changes
         /\ p.prior \in DeviceStates /\ p.target \in DeviceStates
         /\ p.undoes \in Candidates \cup {Unset}
BY MediaAssumption DEF Pendings

LEMMA CandidateType ==
  ASSUME NEW c \in Candidates
  PROVE  /\ c # Unset /\ c.change \in Changes
         /\ c.expected \in DeviceStates /\ c.prior \in DeviceStates
BY MediaAssumption DEF Candidates

LEMMA BeginKeeps ==
  ASSUME MediaInv, NEW change \in Changes, NEW expected, NEW undoes \in Candidates \cup {Unset},
         Begin(change, expected, undoes),
         undoes # Unset => Translate(change, device) = undoes.prior
  PROVE  MediaInv'
<1>1. /\ device \in DeviceStates /\ Capturable(device)
      /\ pending' = [change |-> change, prior |-> device,
                     target |-> Translate(change, device), undoes |-> undoes]
      /\ UNCHANGED <<device, disturbances, candidate, verified, defaults>>
  BY DEF Begin, MediaInv, MediaTypeOK
<1>2. Translate(change, device) \in DeviceStates
  BY <1>1, TranslateType
<1>3. pending' \in Pendings
  BY <1>1, <1>2 DEF Pendings
<1>4. MediaTypeOK'
  BY <1>1, <1>3 DEF MediaInv, MediaTypeOK
<1>5. PendingLeadsOn'
  BY <1>1 DEF PendingLeadsOn
<1>6. CandidateLeadsBack'
  BY <1>1 DEF MediaInv, CandidateLeadsBack
<1> QED BY <1>4, <1>5, <1>6 DEF MediaInv

LEMMA UndoKeeps ==
  ASSUME MediaInv, NEW manifest \in Manifests, Undo(manifest)
  PROVE  MediaInv'
<1>1. /\ candidate \in Candidates /\ candidate # Unset
      /\ Begin(candidate.change, candidate.expected, candidate)
  BY DEF Undo, Undoable, MediaInv, MediaTypeOK
<1>2. candidate.expected = device
  BY <1>1, CandidateType, MediaAssumption DEF Begin, PreconditionHolds
<1>3. Translate(candidate.change, device) = candidate.prior
  BY <1>1, <1>2 DEF MediaInv, CandidateLeadsBack
<1> QED BY <1>1, <1>3, BeginKeeps, CandidateType

LEMMA VerifyKeeps ==
  ASSUME MediaInv, Verify
  PROVE  MediaInv'
<1>1. /\ pending \in Pendings /\ pending # Unset /\ device = pending.target
      /\ verified' = device /\ pending' = Unset
      /\ UNCHANGED <<device, disturbances, defaults>>
  BY DEF Verify, MediaInv, MediaTypeOK
<1>2. /\ Capturable(pending.prior) /\ device = Translate(pending.change, pending.prior)
      /\ pending.prior \in DeviceStates /\ pending.change \in Changes
  BY <1>1, PendingType DEF MediaInv, PendingLeadsOn
<1>3. Capturable(device) /\ device \in DeviceStates
  BY <1>2, TranslateType
<1>4. ASSUME NEW c \in UndoCandidates
      PROVE  /\ c \in Candidates /\ Capturable(c.expected)
             /\ c.prior = Translate(c.change, c.expected)
  <2>1. PICK back \in Reversals(pending.change.op, pending.prior) :
          c = [change |-> back, expected |-> device, prior |-> pending.prior]
    BY DEF UndoCandidates
  <2>2. back \in Changes /\ Translate(back, device) = pending.prior
    BY <1>2, ReversalReturns
  <2> QED BY <1>2, <1>3, <2>1, <2>2 DEF Candidates
<1>5. candidate' \in UndoCandidates \/ candidate' = Unset
  BY DEF Verify
<1>6. MediaTypeOK'
  BY <1>1, <1>3, <1>4, <1>5 DEF MediaInv, MediaTypeOK, Capturable
<1>7. CandidateLeadsBack'
  BY <1>4, <1>5 DEF CandidateLeadsBack, Capturable
<1> QED BY <1>1, <1>6, <1>7 DEF MediaInv, PendingLeadsOn

LEMMA MediaInvInit == MediaInit => MediaInv
BY MediaAssumption DEF MediaInit, MediaInv, MediaTypeOK, PendingLeadsOn, CandidateLeadsBack

LEMMA MediaInvNext == MediaInv /\ [MediaNext]_mediaVars => MediaInv'
<1> SUFFICES ASSUME MediaInv, [MediaNext]_mediaVars PROVE MediaInv'
  OBVIOUS
<1>1. CASE UNCHANGED mediaVars
  BY <1>1 DEF mediaVars, MediaInv, MediaTypeOK, PendingLeadsOn, CandidateLeadsBack
<1>2. ASSUME NEW change \in Changes, Begin(change, Unset, Unset)
      PROVE  MediaInv'
  BY <1>2, BeginKeeps
<1>3. ASSUME NEW manifest \in Manifests, NEW u \in Users, SaveDefault(u, manifest)
      PROVE  MediaInv'
  BY <1>3 DEF SaveDefault, Savable, MediaInv, MediaTypeOK, PendingLeadsOn, CandidateLeadsBack
<1>4. CASE Applied
  <2>1. pending \in Pendings /\ device \in DeviceStates
    BY <1>4 DEF Applied, MediaInv, MediaTypeOK
  <2>2. device' \in DeviceStates
    BY <1>4, <2>1, PendingType, TranslateType DEF Applied
  <2> QED BY <1>4, <2>2 DEF Applied, MediaInv, MediaTypeOK, PendingLeadsOn, CandidateLeadsBack
<1>5. CASE Fails \/ MediaRestart
  BY <1>5 DEF Fails, MediaRestart, MediaInv, MediaTypeOK, PendingLeadsOn, CandidateLeadsBack
<1>6. CASE Disturb
  BY <1>6, MediaAssumption
     DEF Disturb, MediaInv, MediaTypeOK, PendingLeadsOn, CandidateLeadsBack
<1>7. ASSUME NEW u \in Users, ResetDefault(u)
      PROVE  MediaInv'
  BY <1>7 DEF ResetDefault, MediaInv, MediaTypeOK, PendingLeadsOn, CandidateLeadsBack
<1> QED BY <1>1, <1>2, <1>3, <1>4, <1>5, <1>6, <1>7, UndoKeeps, VerifyKeeps DEF MediaNext

LEMMA MediaInvariant == MediaSpec => []MediaInv
BY MediaInvInit, MediaInvNext, PTL DEF MediaSpec

-----------------------------------------------------------------------------

\* Every reachable state of media control has its types.
THEOREM MediaTypeCorrect == MediaSpec => []MediaTypeOK
<1>1. MediaInv => MediaTypeOK
  BY DEF MediaInv
<1> QED BY <1>1, MediaInvariant, PTL

\* An undo asks for exactly the state before the change it undoes, for any values of
\* volume, presets and bands and any disturbances in between.
THEOREM UndoReturns == MediaSpec => []UndoRestoresPrior
<1>1. MediaInv => UndoRestoresPrior
  BY DEF MediaInv, PendingLeadsOn, UndoRestoresPrior
<1> QED BY <1>1, MediaInvariant, PTL

\* What the menu offers is not refused, for any manifest: neither an item, nor saving, nor
\* an undo on a device that is as the candidate expects.
THEOREM OfferedIsGranted == MediaSpec => []MenuKeepsItsWord
<1>1. ASSUME MediaInv PROVE MenuKeepsItsWord
  <2> SUFFICES ASSUME NEW manifest \in Manifests, NEW u \in Users
      PROVE  /\ \A item \in Options(manifest) : Allows(manifest, OperationOf(item))
             /\ Savable(manifest) => Options(manifest) # {}
             /\ /\ "UNDO_LAST_CHANGE" \in Actions(u, manifest)
                /\ device = candidate.expected
                => Capturable(device) /\ InScope(candidate.change.op, device, candidate.prior)
    BY DEF MenuKeepsItsWord
  <2>1. \A item \in Options(manifest) : Allows(manifest, OperationOf(item))
    BY DEF Options, Allows, OperationOf, Manifests
  <2>2. Savable(manifest) => Options(manifest) # {}
    <3> SUFFICES ASSUME Savable(manifest), manifest.eq = "NONE", manifest.captions = "NONE"
        PROVE  FALSE
      BY DEF Options
    <3>1. Settings(verified, manifest) =
            [volume |-> Unset, captions |-> Unset, preset |-> Unset, bands |-> Unset]
      BY DEF Settings
    <3> QED BY <3>1 DEF Savable, Profiles
  <2>3. ASSUME "UNDO_LAST_CHANGE" \in Actions(u, manifest), device = candidate.expected
        PROVE  Capturable(device) /\ InScope(candidate.change.op, device, candidate.prior)
    <3>1. candidate # Unset
      BY <2>3 DEF Actions, Recovery, Undoable
    <3>2. candidate.change \in Changes
      BY <1>1, <3>1, CandidateType DEF MediaInv, MediaTypeOK
    <3> QED BY <1>1, <2>3, <3>1, <3>2 DEF MediaInv, CandidateLeadsBack, InScope
  <2> QED BY <2>1, <2>2, <2>3
<1> QED BY <1>1, MediaInvariant, PTL

-----------------------------------------------------------------------------
(* Defaults *)

\* The recursive function of CarriedOut, for the few requests a profile makes.
LEMMA CarriedOutInSteps ==
  ASSUME NEW requests, NEW n \in 0 .. 3, Len(requests) = n, NEW s
  PROVE  LET s1 == Translate(requests[1], s)
             s2 == Translate(requests[2], s1)
             s3 == Translate(requests[3], s2)
         IN CarriedOut(requests, s) =
              IF n = 0 THEN s ELSE IF n = 1 THEN s1 ELSE IF n = 2 THEN s2 ELSE s3
<1> DEFINE s1 == Translate(requests[1], s)
           s2 == Translate(requests[2], s1)
           s3 == Translate(requests[3], s2)
           F(f) == [i \in 0 .. n |-> IF i = 0 THEN s ELSE Translate(requests[i], f[i - 1])]
           g == [i \in 0 .. n |->
                   IF i = 0 THEN s ELSE IF i = 1 THEN s1 ELSE IF i = 2 THEN s2 ELSE s3]
           after == CHOOSE f : f = F(f)
<1>1. g = F(g)
  <2>1. \A i \in 0 .. n : i = 0 \/ i = 1 \/ i = 2 \/ i = 3
    OBVIOUS
  <2>2. \A i \in 0 .. n : g[i] = IF i = 0 THEN s ELSE Translate(requests[i], g[i - 1])
    BY <2>1
  <2> QED BY <2>2
<1>2. after = F(after)
  BY <1>1
<1>3. CarriedOut(requests, s) = after[n]
  BY DEF CarriedOut
<1> HIDE DEF after
<1>4. /\ after[0] = s
      /\ n >= 1 => after[1] = s1
      /\ n >= 2 => after[2] = s2
      /\ n >= 3 => after[3] = s3
  BY <1>2
<1> QED BY <1>3, <1>4

-----------------------------------------------------------------------------
(* Short sequences *)

LEMMA NoneBeforeOne ==
  ASSUME NEW x
  PROVE  <<>> \o <<x>> = <<x>> /\ <<x>> \o <<>> = <<x>> /\ <<>> \o <<>> = <<>>
<1>1. <<x>> \in Seq({x}) /\ <<>> \in Seq({x})
  OBVIOUS
<1> QED BY <1>1, ConcatEmptySeq

LEMMA NoneAfterTwo ==
  ASSUME NEW x, NEW y
  PROVE  <<x, y>> \o <<>> = <<x, y>>
<1>1. <<x, y>> \in Seq({x, y})
  OBVIOUS
<1> QED BY <1>1, ConcatEmptySeq

LEMMA OneAfterOne ==
  ASSUME NEW x, NEW y
  PROVE  <<x>> \o <<y>> = <<x, y>>
<1>1. <<x>> \in Seq({x, y}) /\ <<y>> \in Seq({x, y}) /\ <<x, y>> \in Seq({x, y})
  OBVIOUS
<1>2. /\ Len(<<x>>) = 1 /\ Len(<<y>>) = 1 /\ Len(<<x, y>>) = 2
      /\ <<x>>[1] = x /\ <<y>>[1] = y /\ <<x, y>>[1] = x /\ <<x, y>>[2] = y
  OBVIOUS
<1> DEFINE c == <<x>> \o <<y>>
<1>3. c \in Seq({x, y}) /\ Len(c) = 2 /\ c[1] = x /\ c[2] = y
  BY <1>1, <1>2, ConcatProperties
<1> HIDE DEF c
<1>4. c = <<x, y>>
  BY <1>3
<1> QED BY <1>4 DEF c

LEMMA OneAfterTwo ==
  ASSUME NEW x, NEW y, NEW z
  PROVE  <<x, y>> \o <<z>> = <<x, y, z>>
<1>1. <<x, y>> \in Seq({x, y, z}) /\ <<z>> \in Seq({x, y, z})
  OBVIOUS
<1>2. /\ Len(<<x, y>>) = 2 /\ Len(<<z>>) = 1
      /\ <<x, y>>[1] = x /\ <<x, y>>[2] = y /\ <<z>>[1] = z
  OBVIOUS
<1> DEFINE c == <<x, y>> \o <<z>>
<1>3. c \in Seq({x, y, z}) /\ Len(c) = 3 /\ c[1] = x /\ c[2] = y /\ c[3] = z
  BY <1>1, <1>2, ConcatProperties
<1> HIDE DEF c
<1>4. c = <<x, y, z>>
  BY <1>3
<1> QED BY <1>4 DEF c

-----------------------------------------------------------------------------

LEMMA CarriedOutNone ==
  ASSUME NEW s
  PROVE  CarriedOut(<<>>, s) = s
BY CarriedOutInSteps, Len(<<>>) = 0

LEMMA CarriedOutOne ==
  ASSUME NEW a, NEW s
  PROVE  CarriedOut(<<a>>, s) = Translate(a, s)
BY CarriedOutInSteps, Len(<<a>>) = 1, <<a>>[1] = a

\* A request that may be missing, and three in a row.
AtMostOne(requests) == requests = <<>> \/ \E request : requests = <<request>>
InARow(A, B, C) == A \o B \o C

LEMMA CarriedOutInTurn ==
  ASSUME NEW s, NEW A, NEW B, NEW C, NEW all,
         AtMostOne(A), AtMostOne(B), AtMostOne(C), all = InARow(A, B, C)
  PROVE  CarriedOut(all, s) = CarriedOut(C, CarriedOut(B, CarriedOut(A, s)))
<1>1. PICK a : A = <<>> \/ A = <<a>>
  BY DEF AtMostOne
<1>2. PICK b : B = <<>> \/ B = <<b>>
  BY DEF AtMostOne
<1>3. PICK c : C = <<>> \/ C = <<c>>
  BY DEF AtMostOne
<1>4. all = A \o B \o C
  BY DEF InARow
<1>5. ASSUME NEW x, NEW y, NEW t
      PROVE  CarriedOut(<<x, y>>, t) = Translate(y, Translate(x, t))
  <2>1. Len(<<x, y>>) = 2 /\ <<x, y>>[1] = x /\ <<x, y>>[2] = y
    OBVIOUS
  <2> QED BY <2>1, CarriedOutInSteps
<1>6. CarriedOut(<<a, b, c>>, s) = Translate(c, Translate(b, Translate(a, s)))
  <2>1. /\ Len(<<a, b, c>>) = 3
        /\ <<a, b, c>>[1] = a /\ <<a, b, c>>[2] = b /\ <<a, b, c>>[3] = c
    OBVIOUS
  <2> QED BY <2>1, CarriedOutInSteps
<1>7. CASE A = <<>> /\ B = <<>>
  <2>1. /\ A \o B = <<>>
        /\ <<>> \o <<>> = <<>>
        /\ <<>> \o <<c>> = <<c>>
    BY <1>7, NoneBeforeOne, NoneAfterTwo, OneAfterOne, OneAfterTwo
  <2>2. CarriedOut(A, s) = s
    BY <1>7, CarriedOutNone
  <2>3. CarriedOut(B, s) = s
    BY <1>7, CarriedOutNone
  <2>4. CASE C = <<>>
    <3>1. CarriedOut(C, s) = s
      BY <2>4, CarriedOutNone
    <3>2. CarriedOut(<<>>, s) = s
      BY <1>5, CarriedOutNone, CarriedOutOne
    <3> QED BY <1>4, <2>1, <2>2, <2>3, <2>4, <3>1, <3>2
  <2>5. CASE C = <<c>>
    <3>1. CarriedOut(C, s) = Translate(c, s)
      BY <2>5, CarriedOutOne
    <3>2. CarriedOut(<<c>>, s) = Translate(c, s)
      BY <1>5, <1>6, CarriedOutNone, CarriedOutOne
    <3> QED BY <1>4, <2>1, <2>2, <2>3, <2>5, <3>1, <3>2
  <2> QED BY <1>3, <2>4, <2>5
<1>8. CASE A = <<a>> /\ B = <<>>
  <2>1. /\ A \o B = <<a>>
        /\ <<a>> \o <<>> = <<a>>
        /\ <<a>> \o <<c>> = <<a, c>>
    BY <1>8, NoneBeforeOne, NoneAfterTwo, OneAfterOne, OneAfterTwo
  <2>2. CarriedOut(A, s) = Translate(a, s)
    BY <1>8, CarriedOutOne
  <2>3. CarriedOut(B, Translate(a, s)) = Translate(a, s)
    BY <1>8, CarriedOutNone
  <2>4. CASE C = <<>>
    <3>1. CarriedOut(C, Translate(a, s)) = Translate(a, s)
      BY <2>4, CarriedOutNone
    <3>2. CarriedOut(<<a>>, s) = Translate(a, s)
      BY <1>5, CarriedOutNone, CarriedOutOne
    <3> QED BY <1>4, <2>1, <2>2, <2>3, <2>4, <3>1, <3>2
  <2>5. CASE C = <<c>>
    <3>1. CarriedOut(C, Translate(a, s)) = Translate(c, Translate(a, s))
      BY <2>5, CarriedOutOne
    <3>2. CarriedOut(<<a, c>>, s) = Translate(c, Translate(a, s))
      BY <1>5, <1>6, CarriedOutNone, CarriedOutOne
    <3> QED BY <1>4, <2>1, <2>2, <2>3, <2>5, <3>1, <3>2
  <2> QED BY <1>3, <2>4, <2>5
<1>9. CASE A = <<>> /\ B = <<b>>
  <2>1. /\ A \o B = <<b>>
        /\ <<b>> \o <<>> = <<b>>
        /\ <<b>> \o <<c>> = <<b, c>>
    BY <1>9, NoneBeforeOne, NoneAfterTwo, OneAfterOne, OneAfterTwo
  <2>2. CarriedOut(A, s) = s
    BY <1>9, CarriedOutNone
  <2>3. CarriedOut(B, s) = Translate(b, s)
    BY <1>9, CarriedOutOne
  <2>4. CASE C = <<>>
    <3>1. CarriedOut(C, Translate(b, s)) = Translate(b, s)
      BY <2>4, CarriedOutNone
    <3>2. CarriedOut(<<b>>, s) = Translate(b, s)
      BY <1>5, CarriedOutNone, CarriedOutOne
    <3> QED BY <1>4, <2>1, <2>2, <2>3, <2>4, <3>1, <3>2
  <2>5. CASE C = <<c>>
    <3>1. CarriedOut(C, Translate(b, s)) = Translate(c, Translate(b, s))
      BY <2>5, CarriedOutOne
    <3>2. CarriedOut(<<b, c>>, s) = Translate(c, Translate(b, s))
      BY <1>5, <1>6, CarriedOutNone, CarriedOutOne
    <3> QED BY <1>4, <2>1, <2>2, <2>3, <2>5, <3>1, <3>2
  <2> QED BY <1>3, <2>4, <2>5
<1>10. CASE A = <<a>> /\ B = <<b>>
  <2>1. /\ A \o B = <<a, b>>
        /\ <<a, b>> \o <<>> = <<a, b>>
        /\ <<a, b>> \o <<c>> = <<a, b, c>>
    BY <1>10, NoneBeforeOne, NoneAfterTwo, OneAfterOne, OneAfterTwo
  <2>2. CarriedOut(A, s) = Translate(a, s)
    BY <1>10, CarriedOutOne
  <2>3. CarriedOut(B, Translate(a, s)) = Translate(b, Translate(a, s))
    BY <1>10, CarriedOutOne
  <2>4. CASE C = <<>>
    <3>1. CarriedOut(C, Translate(b, Translate(a, s))) = Translate(b, Translate(a, s))
      BY <2>4, CarriedOutNone
    <3>2. CarriedOut(<<a, b>>, s) = Translate(b, Translate(a, s))
      BY <1>5, CarriedOutNone, CarriedOutOne
    <3> QED BY <1>4, <2>1, <2>2, <2>3, <2>4, <3>1, <3>2
  <2>5. CASE C = <<c>>
    <3>1. CarriedOut(C, Translate(b, Translate(a, s))) = Translate(c, Translate(b, Translate(a, s)))
      BY <2>5, CarriedOutOne
    <3>2. CarriedOut(<<a, b, c>>, s) = Translate(c, Translate(b, Translate(a, s)))
      BY <1>5, <1>6, CarriedOutNone, CarriedOutOne
    <3> QED BY <1>4, <2>1, <2>2, <2>3, <2>5, <3>1, <3>2
  <2> QED BY <1>3, <2>4, <2>5
<1> QED BY <1>7, <1>8, <1>9, <1>10, <1>1, <1>2

LEMMA ProfileType ==
  ASSUME NEW p \in Profiles
  PROVE  /\ p.volume \in Percents \cup {Unset} /\ p.captions \in BOOLEAN \cup {Unset}
         /\ p.preset \in Presets \cup {Unset} /\ p.bands \in BandSets \cup {Unset}
         /\ p.preset = Unset \/ p.bands = Unset
BY DEF Profiles

\* What the requests of a profile make of a state, setting by setting.
LEMMA ProfileCarriedOut ==
  ASSUME NEW p \in Profiles, NEW s \in DeviceStates, Capturable(s)
  PROVE  LET final == CarriedOut(RequestsFor(p), s)
         IN /\ final \in DeviceStates /\ Capturable(final)
            /\ final.volume = IF p.volume # Unset THEN p.volume ELSE s.volume
            /\ final.captions = IF p.captions # Unset THEN p.captions ELSE s.captions
            /\ final.preset = IF p.preset # Unset THEN p.preset
                              ELSE IF p.bands # Unset THEN Unset ELSE s.preset
            /\ final.bands = IF p.bands # Unset THEN p.bands
                             ELSE IF p.preset # Unset THEN Unset ELSE s.bands
<1> DEFINE a == [op |-> "set_captions_enabled", value |-> p.captions]
           b == IF p.preset # Unset THEN [op |-> "set_eq_preset", value |-> p.preset]
                ELSE [op |-> "set_eq_bands", value |-> p.bands]
           c == [op |-> "set_volume", value |-> p.volume]
           A == Optionally("set_captions_enabled", p.captions)
           B == Optionally("set_eq_preset", p.preset) \o Optionally("set_eq_bands", p.bands)
           C == Optionally("set_volume", p.volume)
           sa == CarriedOut(A, s)
           sb == CarriedOut(B, sa)
           sc == CarriedOut(C, sb)
<1>1. /\ A = IF p.captions # Unset THEN <<a>> ELSE <<>>
      /\ C = IF p.volume # Unset THEN <<c>> ELSE <<>>
  BY DEF Optionally
<1>2. B = IF p.preset # Unset \/ p.bands # Unset THEN <<b>> ELSE <<>>
  BY ProfileType, NoneBeforeOne DEF Optionally
<1>3. RequestsFor(p) = A \o B \o C
  <2>1. CASE p.bands = Unset
    BY <2>1, <1>1 DEF RequestsFor, Optionally
  <2>2. CASE p.preset = Unset
    BY <2>2, <1>1 DEF RequestsFor, Optionally
  <2> QED BY <2>1, <2>2, ProfileType
<1> HIDE DEF A, B, C, a, b, c
<1>4. CarriedOut(RequestsFor(p), s) = sc
  <2>1. AtMostOne(A)
    BY <1>1 DEF AtMostOne
  <2>2. AtMostOne(B)
    BY <1>2 DEF AtMostOne
  <2>3. AtMostOne(C)
    BY <1>1 DEF AtMostOne
  <2>4. RequestsFor(p) = InARow(A, B, C)
    BY <1>3 DEF InARow
  <2> QED BY <2>1, <2>2, <2>3, <2>4, CarriedOutInTurn
<1>5. /\ sa \in DeviceStates /\ Capturable(sa)
      /\ sa = [volume |-> s.volume,
               captions |-> IF p.captions # Unset THEN p.captions ELSE s.captions,
               preset |-> s.preset, bands |-> s.bands]
  <2>1. CASE p.captions = Unset
    BY <1>1, <2>1, CarriedOutNone, StateType
  <2>2. CASE p.captions # Unset
    <3>1. a \in Changes /\ a.op = "set_captions_enabled" /\ a.value = p.captions
      BY <2>2, ProfileType DEF Changes, a
    <3>2. sa = Translate(a, s)
      BY <1>1, <2>2, CarriedOutOne
    <3> QED BY <2>2, <3>1, <3>2, Translated, TranslateType
  <2> QED BY <2>1, <2>2
<1>6. /\ sb \in DeviceStates /\ Capturable(sb)
      /\ sb = [volume |-> sa.volume, captions |-> sa.captions,
               preset |-> IF p.preset # Unset THEN p.preset
                          ELSE IF p.bands # Unset THEN Unset ELSE sa.preset,
               bands |-> IF p.bands # Unset THEN p.bands
                         ELSE IF p.preset # Unset THEN Unset ELSE sa.bands]
  <2>1. CASE p.preset = Unset /\ p.bands = Unset
    BY <1>2, <1>5, <2>1, CarriedOutNone, StateType
  <2>2. CASE p.preset # Unset
    <3>1. /\ b \in Changes /\ b.op = "set_eq_preset" /\ b.value = p.preset
          /\ p.bands = Unset
      BY <2>2, ProfileType DEF Changes, b
    <3>2. sb = Translate(b, sa)
      BY <1>2, <2>2, CarriedOutOne
    <3> QED BY <1>5, <2>2, <3>1, <3>2, Translated, TranslateType
  <2>3. CASE p.preset = Unset /\ p.bands # Unset
    <3>1. b \in Changes /\ b.op = "set_eq_bands" /\ b.value = p.bands
      BY <2>3, ProfileType DEF Changes, b
    <3>2. sb = Translate(b, sa)
      BY <1>2, <2>3, CarriedOutOne
    <3> QED BY <1>5, <2>3, <3>1, <3>2, Translated, TranslateType
  <2> QED BY <2>1, <2>2, <2>3
<1>7. /\ sc \in DeviceStates /\ Capturable(sc)
      /\ sc = [volume |-> IF p.volume # Unset THEN p.volume ELSE sb.volume,
               captions |-> sb.captions, preset |-> sb.preset, bands |-> sb.bands]
  <2>1. CASE p.volume = Unset
    BY <1>1, <1>6, <2>1, CarriedOutNone, StateType
  <2>2. CASE p.volume # Unset
    <3>1. c \in Changes /\ c.op = "set_volume" /\ c.value = p.volume
      BY <2>2, ProfileType DEF Changes, c
    <3>2. sc = Translate(c, sb)
      BY <1>1, <2>2, CarriedOutOne
    <3> QED BY <1>6, <2>2, <3>1, <3>2, Translated, TranslateType
  <2> QED BY <2>1, <2>2
<1> HIDE DEF sa, sb, sc
<1> QED BY <1>4, <1>5, <1>6, <1>7

\* A saved default, requested change by change, brings back every setting it names, leaves
\* the others alone and ends in a state that can be captured, for any values and any
\* state of the device.
THEOREM DefaultComesBack == MediaSpec => []DefaultRestores
<1>1. ASSUME MediaInv PROVE DefaultRestores
  <2> SUFFICES ASSUME NEW u \in Users, defaults[u] # Unset, Capturable(device)
      PROVE  LET final == CarriedOut(RequestsFor(defaults[u]), device)
             IN /\ Capturable(final)
                /\ \A setting \in DOMAIN final :
                     final[setting] =
                       IF defaults[u][setting] # Unset THEN defaults[u][setting]
                       ELSE IF \/ setting = "bands" /\ defaults[u].preset # Unset
                               \/ setting = "preset" /\ defaults[u].bands # Unset
                       THEN Unset ELSE device[setting]
    BY DEF DefaultRestores, MyDefault, RestoreRequests
  <2>1. defaults[u] \in Profiles /\ device \in DeviceStates
    BY <1>1 DEF MediaInv, MediaTypeOK
  <2> DEFINE final == CarriedOut(RequestsFor(defaults[u]), device)
  <2>2. /\ final \in DeviceStates /\ Capturable(final)
        /\ final.volume =
             IF defaults[u].volume # Unset THEN defaults[u].volume ELSE device.volume
        /\ final.captions =
             IF defaults[u].captions # Unset THEN defaults[u].captions ELSE device.captions
        /\ final.preset =
             IF defaults[u].preset # Unset THEN defaults[u].preset
             ELSE IF defaults[u].bands # Unset THEN Unset ELSE device.preset
        /\ final.bands =
             IF defaults[u].bands # Unset THEN defaults[u].bands
             ELSE IF defaults[u].preset # Unset THEN Unset ELSE device.bands
    BY <2>1, ProfileCarriedOut
  <2>3. DOMAIN final = {"volume", "captions", "preset", "bands"}
    BY <2>2 DEF DeviceStates
  <2> HIDE DEF final
  <2>4. Capturable(final) /\ \A setting \in DOMAIN final :
          final[setting] =
            IF defaults[u][setting] # Unset THEN defaults[u][setting]
            ELSE IF \/ setting = "bands" /\ defaults[u].preset # Unset
                    \/ setting = "preset" /\ defaults[u].bands # Unset
            THEN Unset ELSE device[setting]
    BY <2>2, <2>3
  <2> QED BY <2>4 DEF final
<1> QED BY <1>1, MediaInvariant, PTL

-----------------------------------------------------------------------------
(* The directives *)

DirectivesTyped ==
  /\ entries \in [ContextKeys -> Directives \cup {Absent}]
  /\ nextVersion \in 0 .. MaxVersion
  /\ proposal \in Proposals \cup {Absent}
  /\ banned \subseteq ContextKeys

\* Nothing that is suspended or blocked is at the stage of automation, and no entry is
\* newer than the last version.
EntriesAgree ==
  \A k \in ContextKeys : Present(k) =>
    /\ entries[k].version <= nextVersion
    /\ entries[k].stage = "AUTOMATE" => entries[k].status \notin {"SUSPENDED", "BLOCKED"}

\* An entry that changed since the proposal was made is newer than the proposal.
ProposalIsDated ==
  proposal # Absent =>
    /\ proposal.version <= nextVersion
    /\ proposal.touched = TRUE /\ entries[proposal.key] # Absent =>
         entries[proposal.key].version > proposal.version

\* What is under NEVER_AUTOMATE is pinned, so that nothing evicts it.
BannedIsPinned ==
  \A k \in banned : Present(k) /\ entries[k].status = "BLOCKED" /\ entries[k].pinned = TRUE

DirectiveInv == DirectivesTyped /\ EntriesAgree /\ ProposalIsDated /\ BannedIsPinned

LEMMA DirectiveType ==
  ASSUME NEW d \in Directives
  PROVE  /\ d # Absent
         /\ d = [action |-> d.action, status |-> d.status, strength |-> d.strength,
                 pinned |-> d.pinned, stage |-> d.stage, version |-> d.version]
         /\ d.action \in Behaviours
         /\ d.status \in {"CANDIDATE", "ACTIVE", "SUSPENDED", "BLOCKED"}
         /\ d.strength \in 1 .. 25 /\ d.pinned \in BOOLEAN
         /\ d.stage \in {"OBSERVE", "SUGGEST", "SHADOW", "AUTOMATE", "SUSPEND"}
         /\ d.version \in 1 .. MaxVersion
BY DirectiveAssumption DEF Directives

LEMMA PresentType ==
  ASSUME DirectivesTyped, NEW k \in ContextKeys, Present(k)
  PROVE  entries[k] \in Directives
BY DEF DirectivesTyped, Present

LEMMA ProposalType ==
  ASSUME NEW p \in Proposals
  PROVE  /\ p # Absent
         /\ p.key \in ContextKeys /\ p.version \in 1 .. MaxVersion
BY DirectiveAssumption DEF Proposals

LEMMA TouchedType ==
  ASSUME NEW p \in Proposals
  PROVE  /\ [p EXCEPT !.touched = TRUE] \in Proposals
         /\ [p EXCEPT !.touched = TRUE].key = p.key
         /\ [p EXCEPT !.touched = TRUE].version = p.version
BY DirectiveAssumption DEF Proposals

LEMMA NewDirectiveType ==
  ASSUME NEW action \in Behaviours, NEW pinned \in BOOLEAN, 1 <= MaxVersion
  PROVE  /\ NewDirective(action, pinned) \in Directives
         /\ NewDirective(action, pinned).stage = "OBSERVE"
BY DirectiveAssumption DEF NewDirective, Directives

\* A changed entry gets a version of its own; what it says of the others is untouched.
LEMMA ChangeKeeps ==
  ASSUME DirectivesTyped, EntriesAgree, ProposalIsDated,
         NEW k \in ContextKeys, NEW d \in Directives, NEW gone,
         d.stage = "AUTOMATE" => d.status \notin {"SUSPENDED", "BLOCKED"},
         Change(k, d, gone), banned' \subseteq ContextKeys
  PROVE  /\ DirectivesTyped' /\ EntriesAgree' /\ ProposalIsDated'
         /\ Present(k)' /\ entries'[k].status = d.status /\ entries'[k].pinned = d.pinned
         /\ \A key \in ContextKeys \ ({k} \cup gone) : entries'[key] = entries[key]
<1> DEFINE new == [d EXCEPT !.version = nextVersion + 1]
<1>1. /\ nextVersion < MaxVersion /\ nextVersion' = nextVersion + 1
      /\ nextVersion \in Nat /\ nextVersion' \in 1 .. MaxVersion
  BY DirectiveAssumption DEF Change, NewVersion, DirectivesTyped
<1>2. /\ new \in Directives /\ new # Absent
      /\ new.version = nextVersion + 1 /\ new.status = d.status
      /\ new.stage = d.stage /\ new.pinned = d.pinned
  <2>1. new = [action |-> d.action, status |-> d.status, strength |-> d.strength,
               pinned |-> d.pinned, stage |-> d.stage, version |-> nextVersion + 1]
    BY DirectiveType
  <2>2. new \in Directives
    BY <1>1, <2>1, DirectiveType DEF Directives
  <2> QED BY <2>1, <2>2, DirectiveType
<1> HIDE DEF new
<1>3. /\ entries'[k] = new
      /\ \A key \in ContextKeys \ {k} : entries'[key] \in {entries[key], Absent}
      /\ \A key \in ContextKeys \ ({k} \cup gone) : entries'[key] = entries[key]
      /\ \A key \in (ContextKeys \cap gone) \ {k} : entries'[key] = Absent
      /\ entries' \in [ContextKeys -> Directives \cup {Absent}]
  BY <1>2 DEF Change, VersionFor, new, DirectivesTyped
<1>4. /\ proposal' = IF proposal # Absent /\ proposal.key \in {k} \cup gone
                       THEN [proposal EXCEPT !.touched = TRUE] ELSE proposal
  BY DEF Change, Touch
<1>5. DirectivesTyped'
  BY <1>1, <1>3, <1>4, TouchedType DEF DirectivesTyped
<1>6. EntriesAgree'
  <2> SUFFICES ASSUME NEW key \in ContextKeys, Present(key)'
      PROVE  /\ entries'[key].version <= nextVersion'
             /\ entries'[key].stage = "AUTOMATE" =>
                  entries'[key].status \notin {"SUSPENDED", "BLOCKED"}
    BY DEF EntriesAgree
  <2>1. CASE key = k
    BY <1>1, <1>2, <1>3, <2>1
  <2>2. CASE key # k
    <3>1. entries'[key] = entries[key] /\ Present(key)
      BY <1>3, <2>2 DEF Present
    <3>2. entries[key].version \in Nat
      BY <3>1, PresentType, DirectiveType
    <3> QED BY <1>1, <3>1, <3>2 DEF EntriesAgree
  <2> QED BY <2>1, <2>2
<1>7. ProposalIsDated'
  <2> SUFFICES ASSUME proposal' # Absent
      PROVE  /\ proposal'.version <= nextVersion'
             /\ proposal'.touched = TRUE /\ entries'[proposal'.key] # Absent =>
                  entries'[proposal'.key].version > proposal'.version
    BY DEF ProposalIsDated
  <2>0. proposal # Absent /\ proposal \in Proposals
    BY <1>4 DEF DirectivesTyped
  <2>1. /\ proposal'.key = proposal.key /\ proposal'.version = proposal.version
        /\ proposal.version \in Nat /\ proposal.version <= nextVersion
        /\ proposal.key \in ContextKeys
    BY <1>4, <2>0, ProposalType, TouchedType DEF ProposalIsDated
  <2>2. CASE proposal.key = k
    BY <1>1, <1>2, <1>3, <2>1, <2>2
  <2>3. CASE proposal.key \in gone \ {k}
    BY <1>1, <1>3, <2>1, <2>3 DEF Present
  <2>4. CASE proposal.key \notin {k} \cup gone
    BY <1>1, <1>3, <1>4, <2>0, <2>1, <2>4 DEF ProposalIsDated
  <2> QED BY <2>2, <2>3, <2>4
<1> QED BY <1>2, <1>3, <1>5, <1>6, <1>7 DEF Present

\* The changes of one entry that evict nothing and do not end a NEVER_AUTOMATE.
LEMMA ChangeOfUnbannedKeeps ==
  ASSUME DirectiveInv, NEW k \in ContextKeys, NEW d \in Directives,
         Present(k) => entries[k].status # "BLOCKED",
         d.stage = "AUTOMATE" => d.status \notin {"SUSPENDED", "BLOCKED"},
         Change(k, d, {}), UNCHANGED banned
  PROVE  DirectiveInv'
<1>1. k \notin banned
  BY DEF DirectiveInv, BannedIsPinned
<1>2. banned' \subseteq ContextKeys
  BY DEF DirectiveInv, DirectivesTyped
<1>3. /\ DirectivesTyped' /\ EntriesAgree' /\ ProposalIsDated'
      /\ \A key \in ContextKeys \ {k} : entries'[key] = entries[key]
  BY <1>2, ChangeKeeps DEF DirectiveInv
<1>4. BannedIsPinned'
  BY <1>1, <1>2, <1>3 DEF DirectiveInv, BannedIsPinned, Present
<1> QED BY <1>3, <1>4 DEF DirectiveInv

LEMMA RememberNewKeeps ==
  ASSUME DirectiveInv, NEW k \in ContextKeys, NEW action \in Behaviours, NEW pinned \in BOOLEAN,
         RememberNew(k, action, pinned)
  PROVE  DirectiveInv'
<1> DEFINE d == NewDirective(action, pinned)
<1>1. ~Present(k) /\ UNCHANGED banned /\ banned' \subseteq ContextKeys
  BY DEF RememberNew, DirectiveInv, DirectivesTyped
<1>0. 1 <= MaxVersion
  <2>1. nextVersion < MaxVersion
    BY DEF RememberNew, Change, NewVersion
  <2> QED BY <2>1, DirectiveAssumption DEF DirectiveInv, DirectivesTyped
<1>2. d \in Directives /\ d.stage = "OBSERVE"
  BY <1>0, NewDirectiveType
<1> HIDE DEF d
<1>3. CASE Change(k, d, {})
  BY <1>1, <1>2, <1>3, ChangeOfUnbannedKeeps
<1>4. ASSUME NEW i \in Evictable, Change(k, d, {order[i]})
      PROVE  DirectiveInv'
  <2>1. entries[order[i]].pinned # TRUE
    BY DEF Evictable
  <2>2. order[i] \notin banned /\ k \notin banned
    BY <1>1, <2>1 DEF DirectiveInv, BannedIsPinned
  <2>3. /\ DirectivesTyped' /\ EntriesAgree' /\ ProposalIsDated'
        /\ \A key \in ContextKeys \ ({k} \cup {order[i]}) : entries'[key] = entries[key]
    BY <1>1, <1>2, <1>4, ChangeKeeps DEF DirectiveInv
  <2>4. BannedIsPinned'
    BY <1>1, <2>2, <2>3 DEF DirectiveInv, BannedIsPinned, Present
  <2> QED BY <2>3, <2>4 DEF DirectiveInv
<1> QED BY <1>3, <1>4 DEF RememberNew, d

LEMMA FeedbackKeeps ==
  ASSUME DirectiveInv, NEW k \in ContextKeys, NEW approved \in BOOLEAN, Feedback(k, approved)
  PROVE  DirectiveInv'
<1>1. /\ entries[k] \in Directives /\ entries[k].status # "BLOCKED" /\ UNCHANGED banned
      /\ Change(k, IF approved THEN Approved(entries[k]) ELSE Rejected(entries[k]), {})
  BY PresentType DEF Feedback, DirectiveInv
<1>2. ASSUME NEW d \in Directives
      PROVE  Approved(d) \in Directives /\ Approved(d).stage = "SUGGEST"
  <2>1. PICK s \in 1 .. 25 : s = IF d.strength < 25 THEN d.strength + 1 ELSE 25
    BY DirectiveType
  <2>2. Approved(d) = [d EXCEPT !.status = "ACTIVE", !.stage = "SUGGEST", !.strength = s]
    BY <2>1 DEF Approved
  <2> QED BY <2>2 DEF Directives
<1>3. ASSUME NEW d \in Directives
      PROVE  Rejected(d) \in Directives /\ Rejected(d).stage = "SUSPEND"
  <2>1. PICK s \in 1 .. 25 : s = IF d.strength > 3 THEN d.strength - 2 ELSE 1
    BY DirectiveType
  <2>2. Rejected(d) = [d EXCEPT !.status = "SUSPENDED", !.stage = "SUSPEND", !.strength = s]
    BY <2>1 DEF Rejected
  <2> QED BY <2>2 DEF Directives
<1> QED BY <1>1, <1>2, <1>3, ChangeOfUnbannedKeeps

LEMMA NeverAutomateKeeps ==
  ASSUME DirectiveInv, NEW k \in ContextKeys, NeverAutomate(k)
  PROVE  DirectiveInv'
<1>1. /\ entries[k] \in Directives /\ banned' = banned \cup {k} /\ banned' \subseteq ContextKeys
      /\ Change(k, Blocked(entries[k]), {})
  BY PresentType DEF NeverAutomate, DirectiveInv, DirectivesTyped
<1>2. \A d \in Directives :
        /\ Blocked(d) \in Directives /\ Blocked(d).stage = "SUSPEND"
        /\ Blocked(d).status = "BLOCKED" /\ Blocked(d).pinned = TRUE
  <2> SUFFICES ASSUME NEW d \in Directives
      PROVE  /\ Blocked(d) \in Directives /\ Blocked(d).stage = "SUSPEND"
             /\ Blocked(d).status = "BLOCKED" /\ Blocked(d).pinned = TRUE
    OBVIOUS
  <2>1. PICK s \in 1 .. 25 : s = 1
    OBVIOUS
  <2>2. Blocked(d) =
          [d EXCEPT !.status = "BLOCKED", !.strength = s, !.pinned = TRUE, !.stage = "SUSPEND"]
    BY <2>1 DEF Blocked
  <2> QED BY <2>2 DEF Directives
<1>3. /\ DirectivesTyped' /\ EntriesAgree' /\ ProposalIsDated'
      /\ Present(k)' /\ entries'[k].status = "BLOCKED" /\ entries'[k].pinned = TRUE
      /\ \A key \in ContextKeys \ {k} : entries'[key] = entries[key]
  BY <1>1, <1>2, ChangeKeeps DEF DirectiveInv
<1>4. BannedIsPinned'
  BY <1>1, <1>3 DEF DirectiveInv, BannedIsPinned, Present
<1> QED BY <1>3, <1>4 DEF DirectiveInv

LEMMA ReplaceBlockedKeeps ==
  ASSUME DirectiveInv, NEW k \in ContextKeys, NEW action \in Behaviours,
         ReplaceBlocked(k, action)
  PROVE  DirectiveInv'
<1> DEFINE d == NewDirective(action, TRUE)
<1>1. /\ 1 <= MaxVersion /\ Change(k, d, {})
      /\ banned' = banned \ {k} /\ banned' \subseteq ContextKeys
  BY DirectiveAssumption DEF ReplaceBlocked, Change, NewVersion, DirectiveInv, DirectivesTyped
<1>2. d \in Directives /\ d.stage = "OBSERVE"
  BY <1>1, NewDirectiveType
<1> HIDE DEF d
<1>3. /\ DirectivesTyped' /\ EntriesAgree' /\ ProposalIsDated'
      /\ \A key \in ContextKeys \ {k} : entries'[key] = entries[key]
  BY <1>1, <1>2, ChangeKeeps DEF DirectiveInv
<1>4. BannedIsPinned'
  BY <1>1, <1>3 DEF DirectiveInv, BannedIsPinned, Present
<1> QED BY <1>3, <1>4 DEF DirectiveInv

LEMMA AdvanceKeeps ==
  ASSUME DirectiveInv, NEW k \in ContextKeys, SuspendForPolicy(k) \/ AdvanceLifecycle(k)
  PROVE  DirectiveInv'
<1>1. /\ entries[k] \in Directives /\ UNCHANGED banned
      /\ entries[k].status \notin {"SUSPENDED", "BLOCKED"}
  BY PresentType DEF SuspendForPolicy, AdvanceLifecycle, Advanceable, DirectiveInv
<1>2. CASE SuspendForPolicy(k)
  <2>1. \A d \in Directives :
          LET e == [d EXCEPT !.status = "SUSPENDED", !.stage = "SUSPEND"]
          IN e \in Directives /\ e.stage = "SUSPEND"
    BY DEF Directives
  <2> QED BY <1>1, <1>2, <2>1, ChangeOfUnbannedKeeps DEF SuspendForPolicy
<1>3. CASE AdvanceLifecycle(k)
  <2>1. NextStage[entries[k].stage] \in {"SUGGEST", "SHADOW", "AUTOMATE"}
    BY <1>3 DEF AdvanceLifecycle, NextStage
  <2>2. \A d \in Directives, stage \in {"SUGGEST", "SHADOW", "AUTOMATE"} :
          LET e == [d EXCEPT !.stage = stage]
          IN e \in Directives /\ e.status = d.status
    BY DEF Directives
  <2>3. Change(k, [entries[k] EXCEPT !.stage = NextStage[entries[k].stage]], {})
    BY <1>3 DEF AdvanceLifecycle
  <2> QED BY <1>1, <2>1, <2>2, <2>3, ChangeOfUnbannedKeeps
<1> QED BY <1>2, <1>3

LEMMA ProposeKeeps ==
  ASSUME DirectiveInv, NEW k \in ContextKeys, NEW confidence, NEW match,
         Propose(k, confidence, match)
  PROVE  DirectiveInv'
<1>1. /\ entries[k] \in Directives
      /\ proposal' = [key |-> k, action |-> entries[k].action,
                      strength |-> entries[k].strength,
                      version |-> entries[k].version, touched |-> FALSE]
      /\ UNCHANGED <<entries, nextVersion, banned>>
      /\ Present(k)
  BY PresentType DEF Propose, DirectiveInv
<1>2. proposal' \in Proposals
  BY <1>1, DirectiveType DEF Proposals
<1> QED BY <1>1, <1>2 DEF DirectiveInv, DirectivesTyped, EntriesAgree, ProposalIsDated, BannedIsPinned, Present

\* Everything that leaves entries, versions, the proposal and the bans alone.
LEMMA RestKeeps ==
  ASSUME DirectiveInv, UNCHANGED <<entries, nextVersion, proposal, banned>>
  PROVE  DirectiveInv'
BY DEF DirectiveInv, DirectivesTyped, EntriesAgree, ProposalIsDated, BannedIsPinned, Present

LEMMA DirectiveInvInit == DirectiveInit => DirectiveInv
BY DirectiveAssumption
   DEF DirectiveInit, DirectiveInv, DirectivesTyped, EntriesAgree, ProposalIsDated,
       BannedIsPinned, Present

LEMMA DirectiveInvNext ==
  DirectiveInv /\ [DirectiveNext]_directiveVars => DirectiveInv'
<1> SUFFICES ASSUME DirectiveInv, [DirectiveNext]_directiveVars PROVE DirectiveInv'
  OBVIOUS
<1>1. CASE UNCHANGED directiveVars
  BY <1>1, RestKeeps DEF directiveVars
<1>2. CASE AskCurrent \/ AskPinned \/ AskStage
  BY <1>2, RestKeeps DEF AskCurrent, AskPinned, AskStage, Question
<1>3. ASSUME NEW k \in ContextKeys, NEW action \in Behaviours, NEW pinned \in BOOLEAN,
             RememberAgain(k, action, pinned)
      PROVE  DirectiveInv'
  BY <1>3, RestKeeps DEF RememberAgain
<1>4. ASSUME NEW k \in ContextKeys, NEW action \in Behaviours, NEW pinned \in BOOLEAN,
             RememberOther(k, action, pinned)
      PROVE  DirectiveInv'
  <2>1. 1 <= MaxVersion
    BY <1>4, DirectiveAssumption DEF RememberOther, Change, NewVersion, DirectiveInv, DirectivesTyped
  <2> QED BY <1>4, <2>1, NewDirectiveType, ChangeOfUnbannedKeeps DEF RememberOther
<1>5. ASSUME NEW k \in ContextKeys, Recall(k)
      PROVE  DirectiveInv'
  BY <1>5, RestKeeps DEF Recall
<1> QED BY <1>1, <1>2, <1>3, <1>4, <1>5, RememberNewKeeps, FeedbackKeeps, NeverAutomateKeeps,
           ReplaceBlockedKeeps, AdvanceKeeps, ProposeKeeps DEF DirectiveNext

LEMMA DirectiveInvariant == DirectiveSpec => []DirectiveInv
BY DirectiveInvInit, DirectiveInvNext, PTL DEF DirectiveSpec

-----------------------------------------------------------------------------

\* A proposal that counts as current rests on the entry it was made from: any change,
\* eviction or replacement since then made it stale, for any contexts and versions.
THEOREM CurrentRestsOnItsEntry == DirectiveSpec => []CurrentIsUntouched
<1>1. DirectiveInv => CurrentIsUntouched
  <2> SUFFICES ASSUME DirectiveInv, proposal # Absent, IsCurrent(proposal),
                      proposal.touched = TRUE
      PROVE  FALSE
    BY DEF CurrentIsUntouched
  <2>1. /\ proposal \in Proposals /\ Present(proposal.key)
        /\ entries[proposal.key].version = proposal.version
    BY DEF DirectiveInv, DirectivesTyped, IsCurrent
  <2>2. proposal.version \in Nat /\ entries[proposal.key].version > proposal.version
    BY <2>1, ProposalType DEF DirectiveInv, ProposalIsDated, Present
  <2> QED BY <2>1, <2>2
<1> QED BY <1>1, DirectiveInvariant, PTL

\* NEVER_AUTOMATE lasts until the directive is replaced: a blocked entry is pinned, and
\* only unpinned ones are evicted.
THEOREM BanHolds == DirectiveSpec => []NeverAutomateHolds
<1>1. DirectiveInv => NeverAutomateHolds
  BY DEF DirectiveInv, BannedIsPinned, NeverAutomateHolds
<1> QED BY <1>1, DirectiveInvariant, PTL

\* The gate's last question sees every rejection, suspension and ban, because none of them
\* leaves an entry at the stage of automation.
THEOREM NothingSuspendedIsAllowed == DirectiveSpec => GateRespectsSuspension
<1>1. DirectiveInv /\ [DirectiveNext]_directiveVars =>
        [~Eligible /\ Eligible' =>
           entries[proposal.key].status \notin {"SUSPENDED", "BLOCKED"}]_directiveVars
  <2> SUFFICES ASSUME DirectiveInv, DirectiveNext, ~Eligible, Eligible'
      PROVE  entries[proposal.key].status \notin {"SUSPENDED", "BLOCKED"}
    OBVIOUS
  <2>1. AskStage
    BY DEF DirectiveNext, Eligible, RememberAgain, RememberOther, RememberNew, Change, Feedback,
           NeverAutomate, ReplaceBlocked, SuspendForPolicy, AdvanceLifecycle, Recall, Propose,
           AskCurrent, AskPinned, Question
  <2>2. /\ proposal \in Proposals /\ Present(proposal.key)
        /\ entries[proposal.key].stage = "AUTOMATE"
    BY <2>1 DEF AskStage, Question, Eligible, DirectiveInv, DirectivesTyped
  <2> QED BY <2>2, ProposalType DEF DirectiveInv, EntriesAgree
<1> QED BY <1>1, DirectiveInvariant, PTL DEF DirectiveSpec, GateRespectsSuspension

-----------------------------------------------------------------------------
(* The session journal *)

\* What was kept, skipped and evicted adds up to the sequence of the last event, and
\* every discontinuity is a runtime that was left.
JournalAddsUp ==
  /\ observations + missing = LastSequence
  /\ evicted + Len(events) = observations
  /\ events = <<>> => discontinuities = 0
  /\ events # <<>> => discontinuities <= Last.runtime /\ Last.runtime <= runtime

\* A sample expires max_evidence_age after it was taken.  Its generation is not ahead of
\* the supervisor's, and was left behind if automation was allowed since and is not now.
SampleIsDated ==
  sample # NoSample =>
    /\ sample.expires = sample.observed + MaxEvidenceAge
    /\ sample.generation <= admissionGeneration
    /\ activeSince => state = ACTIVE \/ sample.generation < admissionGeneration

\* An event expires max_evidence_age after what it reports was observed.
EventsAreDated ==
  /\ events \in Seq(Events)
  /\ \A i \in DOMAIN events : events[i].expires = events[i].observed + MaxEvidenceAge

SessionInv ==
  SessionTypeOK /\ JournalAddsUp /\ SampleIsDated /\ EventsAreDated

LEMMA StepSerialized == ASSUME Step PROVE Serialized
BY DEF Step, InterruptKnown, InterruptUnknown, RequireRevalidation, ResolveStranger,
       ResolveOutstanding, Validate, Status

\* Whatever the supervisor does, a sample that waits stays dated.
LEMMA SampleStaysDated ==
  ASSUME SupervisorTypeOK, SampleIsDated, sample # NoSample => sample.generation \in Nat,
         Step, Remember, UNCHANGED sample
  PROVE  SupervisorTypeOK' /\ SampleIsDated'
<1>1. SupervisorTypeOK'
  BY StepTypeOK
<1>2. Serialized
  BY StepSerialized
<1>3. admissionGeneration \in Nat /\ admissionGeneration' \in Nat
  BY <1>1 DEF SupervisorTypeOK
<1>4. activeSince' => activeSince \/ state' = ACTIVE
  BY DEF Remember
<1>5. state = ACTIVE /\ state' # ACTIVE => admissionGeneration' = admissionGeneration + 1
  BY <1>2 DEF Serialized
<1>6. admissionGeneration <= admissionGeneration'
  BY <1>2, <1>3 DEF Serialized
<1>7. ASSUME sample' # NoSample
      PROVE  /\ sample'.expires = sample'.observed + MaxEvidenceAge
             /\ sample'.generation <= admissionGeneration'
             /\ activeSince' => state' = ACTIVE \/ sample'.generation < admissionGeneration'
  <2>1. /\ sample' = sample /\ sample.generation \in Nat
        /\ sample.expires = sample.observed + MaxEvidenceAge
        /\ sample.generation <= admissionGeneration
        /\ activeSince => state = ACTIVE \/ sample.generation < admissionGeneration
    BY <1>7 DEF SampleIsDated
  <2>2. sample'.generation <= admissionGeneration'
    BY <1>3, <1>6, <2>1
  <2>3. CASE state = ACTIVE /\ state' # ACTIVE
    BY <1>3, <1>5, <2>1, <2>2, <2>3
  <2>4. CASE state' = ACTIVE
    BY <2>1, <2>2, <2>4
  <2>5. CASE state # ACTIVE /\ state' # ACTIVE
    <3>1. sample.generation < admissionGeneration => sample'.generation < admissionGeneration'
      BY <1>3, <1>6, <2>1
    <3> QED BY <1>4, <2>1, <2>2, <2>5, <3>1
  <2> QED BY <2>3, <2>4, <2>5
<1> QED BY <1>1, <1>7 DEF SampleIsDated

LEMMA SumsUp ==
  ASSUME NEW o \in Nat, NEW m \in Nat, NEW l \in Nat, NEW q \in Nat, o + m = l, q > l
  PROVE  /\ o + 1 \in Nat /\ m + (q - l - 1) \in Nat
         /\ (o + 1) + (m + (q - l - 1)) = q
OBVIOUS

LEMMA Bounded ==
  ASSUME NEW x \in Nat, NEW y \in Nat, NEW z \in Nat, NEW bound \in Nat, x + y = z, z <= bound
  PROVE  x \in 0 .. bound /\ y \in 0 .. bound
OBVIOUS

\* append: the event is the last of the journal, which stays bounded and keeps its sums.
LEMMA AppendKeeps ==
  ASSUME SessionInv, NEW event \in Events, Append1(event), runtime' = runtime,
         event.runtime = runtime, event.expires = event.observed + MaxEvidenceAge
  PROVE  /\ EventsAreDated' /\ JournalAddsUp'
         /\ Len(events') <= MaxEvents /\ \A i \in DOMAIN events' : events'[i] \in Events
         /\ observations' \in 0 .. MaxSequence /\ missing' \in 0 .. MaxSequence
         /\ discontinuities' \in 0 .. MaxRuntimes /\ evicted' \in 0 .. MaxSequence
         /\ events' # <<>> /\ events'[Len(events')] = event
<1> DEFINE kept == Append(events, event)
<1>1. /\ events \in Seq(Events) /\ Len(events) \in Nat /\ Len(events) <= MaxEvents
      /\ MaxEvents \in Nat /\ MaxEvents >= 1
  BY SessionBounds DEF SessionInv, SessionTypeOK, EventsAreDated
<1>2. /\ kept \in Seq(Events) /\ Len(kept) = Len(events) + 1 /\ kept[Len(kept)] = event
      /\ \A i \in 1 .. Len(kept) : kept[i] \in Events
      /\ \A i \in 1 .. Len(kept) : kept[i].expires = kept[i].observed + MaxEvidenceAge
  <2>1. kept \in Seq(Events) /\ Len(kept) = Len(events) + 1
    BY <1>1
  <2>2. \A i \in 1 .. Len(kept) : kept[i] = IF i = Len(events) + 1 THEN event ELSE events[i]
    BY <1>1, <2>1
  <2>3. \A i \in 1 .. Len(events) : events[i].expires = events[i].observed + MaxEvidenceAge
    BY <1>1 DEF SessionInv, EventsAreDated
  <2>4. \A i \in 1 .. Len(kept) : i = Len(events) + 1 \/ i \in 1 .. Len(events)
    BY <1>1, <2>1
  <2>5. Len(kept) \in 1 .. Len(kept)
    BY <1>1, <2>1
  <2> HIDE DEF kept
  <2>6. kept[Len(kept)] = event
    BY <2>1, <2>2, <2>5
  <2>7. \A i \in 1 .. Len(kept) : kept[i] \in Events
    BY <2>1
  <2> QED BY <2>1, <2>2, <2>3, <2>4, <2>6, <2>7
<1>3. events' = IF Len(kept) > MaxEvents THEN Tail(kept) ELSE kept
  BY DEF Append1
<1> HIDE DEF kept
<1>4. /\ events' \in Seq(Events)
      /\ Len(events') = IF Len(kept) > MaxEvents THEN Len(events) ELSE Len(events) + 1
      /\ events'[Len(events')] = event
      /\ \A i \in 1 .. Len(events') :
           events'[i] \in Events /\ events'[i].expires = events'[i].observed + MaxEvidenceAge
      /\ Len(events') >= 1 /\ Len(events') <= MaxEvents
  <2>1. CASE Len(kept) > MaxEvents
    <3>1. events' = Tail(kept) /\ Len(kept) >= 2
      BY <1>1, <1>2, <1>3, <2>1
    <3>2. /\ Tail(kept) \in Seq(Events) /\ Len(Tail(kept)) = Len(kept) - 1
          /\ \A i \in 1 .. Len(kept) - 1 : Tail(kept)[i] = kept[i + 1]
      BY <1>1, <1>2, <3>1
    <3>3. \A i \in 1 .. Len(kept) - 1 : i + 1 \in 1 .. Len(kept)
      BY <1>1, <1>2
    <3>4. Len(kept) - 1 \in 1 .. Len(kept) - 1 /\ (Len(kept) - 1) + 1 = Len(kept)
      BY <1>1, <1>2, <3>1
    <3>5. Tail(kept)[Len(kept) - 1] = event
      BY <1>2, <3>2, <3>4
    <3> QED BY <1>1, <1>2, <2>1, <3>1, <3>2, <3>3, <3>4, <3>5
  <2>2. CASE ~(Len(kept) > MaxEvents)
    BY <1>1, <1>2, <1>3, <2>2
  <2> QED BY <2>1, <2>2
<1>5. DOMAIN events' = 1 .. Len(events') /\ events' # <<>>
  BY <1>4
<1>6. LastSequence' = event.sequence /\ Last' = event
  BY <1>4, <1>5 DEF LastSequence, Last
<1>7. event.sequence \in 1 .. MaxSequence /\ event.runtime \in 0 .. MaxRuntimes
  BY DEF Events
<1>8. LastSequence \in Nat /\ event.sequence > LastSequence
  <2>1. events # <<>> => Len(events) \in 1 .. Len(events)
    BY <1>1
  <2>2. events # <<>> => events[Len(events)] \in Events
    BY <1>1, <2>1
  <2> QED BY <2>2 DEF LastSequence, Last, Events, Append1, Appendable
<1>9. /\ observations \in Nat /\ missing \in Nat /\ evicted \in Nat
      /\ discontinuities \in Nat /\ runtime \in 0 .. MaxRuntimes
      /\ MaxSequence \in Nat /\ MaxRuntimes \in Nat
      /\ observations + missing = LastSequence
      /\ evicted + Len(events) = observations
      /\ events = <<>> => discontinuities = 0
      /\ events # <<>> => discontinuities <= Last.runtime /\ Last.runtime <= runtime
  BY SessionBounds DEF SessionInv, SessionTypeOK, JournalAddsUp
<1>10. events # <<>> => Last.runtime \in Nat
  <2>1. events # <<>> => Len(events) \in 1 .. Len(events)
    BY <1>1
  <2>2. events # <<>> => events[Len(events)] \in Events
    BY <1>1, <2>1
  <2> QED BY <2>2 DEF Last, Events
<1>11. /\ discontinuities' = IF events # <<>> /\ event.runtime # Last.runtime
                              THEN discontinuities + 1 ELSE discontinuities
       /\ missing' = missing + (event.sequence - LastSequence - 1)
       /\ observations' = observations + 1
       /\ evicted' = IF Len(kept) > MaxEvents THEN evicted + 1 ELSE evicted
  BY DEF Append1, Gap, kept
<1>12. observations' + missing' = event.sequence
  <2>1. event.sequence \in Nat
    BY <1>7
  <2>2. (observations + 1) + (missing + (event.sequence - LastSequence - 1)) = event.sequence
    BY ONLY <1>8, <1>9, <2>1, SumsUp
  <2> QED BY <1>11, <2>2
<1>13. evicted' + Len(events') = observations' /\ evicted' \in Nat
  <2>1. Len(events') = IF Len(kept) > MaxEvents THEN Len(events) ELSE Len(events) + 1
    BY <1>4
  <2>2. evicted \in Nat /\ evicted + Len(events) = observations
    BY <1>9
  <2>3. evicted' = IF Len(kept) > MaxEvents THEN evicted + 1 ELSE evicted
    BY <1>11
  <2>4. observations' = observations + 1
    BY <1>11
  <2> QED BY ONLY <1>1, <2>1, <2>2, <2>3, <2>4
<1>14. discontinuities' \in Nat /\ discontinuities' <= runtime
  BY <1>9, <1>10, <1>11
<1>15. /\ observations' \in 0 .. MaxSequence /\ missing' \in 0 .. MaxSequence
       /\ evicted' \in 0 .. MaxSequence /\ discontinuities' \in 0 .. MaxRuntimes
  <2>1. observations' \in Nat /\ missing' \in Nat
    BY <1>7, <1>8, <1>9, <1>11, SumsUp
  <2>2. observations' \in 0 .. MaxSequence /\ missing' \in 0 .. MaxSequence
    BY <1>7, <1>9, <1>12, <2>1, Bounded
  <2>3. Len(events') \in Nat
    BY <1>4
  <2>4. evicted' \in 0 .. MaxSequence
    BY <1>9, <1>13, <2>1, <2>2, <2>3, Bounded
  <2>5. discontinuities' \in 0 .. MaxRuntimes
    BY <1>9, <1>14
  <2> QED BY <2>2, <2>4, <2>5
<1>16. JournalAddsUp'
  BY <1>5, <1>6, <1>9, <1>12, <1>13, <1>14 DEF JournalAddsUp
<1> QED BY <1>4, <1>5, <1>15, <1>16 DEF EventsAreDated

\* The event a producer publishes reports the sample; one that is not UNKNOWN says that
\* the state and the generation are those of the sample.
LEMMA PublicationIsEvent ==
  ASSUME SessionInv, SupervisorTypeOK', NEW received \in 0 .. clock, NEW sameReason \in BOOLEAN,
         sample # NoSample
  PROVE  LET event == Publication(received, sameReason) IN
         /\ event \in Events /\ event.runtime = runtime
         /\ event.expires = event.observed + MaxEvidenceAge
         /\ event.by = "producer"
         /\ event.state # UNKNOWN =>
              state' # ACTIVE /\ sample.generation = admissionGeneration'
<1>1. sample \in Samples /\ sample.expires = sample.observed + MaxEvidenceAge
  BY DEF SessionInv, SessionTypeOK, SampleIsDated
<1>2. /\ sample.sequence \in 1 .. MaxSequence /\ sample.observed \in Instants
      /\ sample.expires \in Nat /\ sample.state \in ProtectionStates \ {ACTIVE}
  BY <1>1 DEF Samples
<1>3. received \in Instants /\ runtime \in 0 .. MaxRuntimes
  BY SessionBounds DEF Instants, SessionInv, SessionTypeOK
<1>4. Publication(received, sameReason).state \in {sample.state, UNKNOWN}
  BY DEF Publication
<1>5. UNKNOWN \in ProtectionStates \ {ACTIVE}
  BY DEF ProtectionStates, UNKNOWN, ACTIVE
<1>6. Publication(received, sameReason) \in Events
  BY <1>2, <1>3, <1>4, <1>5 DEF Publication, Expiry, Events
<1>7. ASSUME Publication(received, sameReason).state # UNKNOWN
      PROVE  state' # ACTIVE /\ sample.generation = admissionGeneration'
  <2>1. Unchanged /\ sample.state # UNKNOWN
    BY <1>7 DEF Publication
  <2> QED BY <2>1 DEF Unchanged, Project
<1> QED BY <1>1, <1>6, <1>7 DEF Publication, Expiry

LEMMA SessionStarts == ASSUME SessionInit PROVE SessionInv
<1>1. SupervisorTypeOK
  BY InitTypeOK DEF SessionInit
<1>2. 0 \in Instants
  BY SessionBounds DEF Instants
<1>3. events = <<>> /\ Len(events) = 0 /\ DOMAIN events = {} /\ events \in Seq(Events)
  BY DEF SessionInit
<1>4. SessionTypeOK
  <2>1. /\ nextSequence \in 1 .. MaxSequence + 1
        /\ observations \in 0 .. MaxSequence /\ missing \in 0 .. MaxSequence
        /\ evicted \in 0 .. MaxSequence
        /\ runtime \in 0 .. MaxRuntimes /\ discontinuities \in 0 .. MaxRuntimes
    BY SessionBounds DEF SessionInit
  <2>2. Len(events) <= MaxEvents /\ \A i \in DOMAIN events : events[i] \in Events
    BY <1>3, SessionBounds
  <2>3. /\ clock \in Instants /\ sample = NoSample /\ lastCapture = NoTime
        /\ pauseLatched \in BOOLEAN /\ activeSince \in BOOLEAN
    BY <1>2 DEF SessionInit
  <2> QED BY <1>1, <2>1, <2>2, <2>3 DEF SessionTypeOK
<1> QED BY <1>3, <1>4 DEF SessionInv, SessionInit, JournalAddsUp, LastSequence, SampleIsDated, EventsAreDated

\* The sequence of the last event.
LEMMA LastSequenceType == ASSUME SessionInv PROVE LastSequence \in 0 .. MaxSequence
<1>1. events # <<>> => events[Len(events)] \in Events
  <2>1. events \in Seq(Events)
    BY DEF SessionInv, EventsAreDated
  <2>2. events # <<>> => Len(events) \in 1 .. Len(events)
    BY <2>1
  <2> QED BY <2>1, <2>2
<1> QED BY <1>1, SessionBounds DEF LastSequence, Last, Events

LEMMA AtIsReading == ASSUME NEW time \in Instants PROVE At(time) \in Reading
BY DEF At, Reading, Instants

\* What is left unchanged when the journal is not written.
LEMMA JournalRests ==
  ASSUME SessionInv, UNCHANGED journalVars
  PROVE  /\ EventsAreDated'
         /\ UNCHANGED runtime => JournalAddsUp'
         /\ Len(events') <= MaxEvents /\ \A i \in DOMAIN events' : events'[i] \in Events
         /\ observations' \in 0 .. MaxSequence /\ missing' \in 0 .. MaxSequence
         /\ discontinuities' \in 0 .. MaxRuntimes /\ evicted' \in 0 .. MaxSequence
         /\ pauseLatched' \in BOOLEAN
BY DEF SessionInv, SessionTypeOK, journalVars, EventsAreDated, JournalAddsUp, LastSequence, Last

LEMMA TickKeeps == ASSUME SessionInv, Tick PROVE SessionInv'
<1>1. SupervisorTypeOK' /\ clock' \in Instants
  BY StutterTypeOK, SessionBounds DEF Tick, SessionInv, SessionTypeOK, Instants
<1>2. SampleIsDated'
  BY DEF Tick, SessionInv, SampleIsDated, producerVars, supervisorVars
<1> QED BY <1>1, <1>2, JournalRests DEF Tick, SessionInv, SessionTypeOK, producerVars

LEMMA SuperviseKeeps == ASSUME SessionInv, Supervise PROVE SessionInv'
<1>1. clock \in Instants /\ Reports \subseteq Findings
  BY SessionBounds DEF SessionInv, SessionTypeOK
<1>2. Step
  <2>1. ASSUME NEW report \in Reports, NEW observed \in 0 .. clock,
               Validate(report, At(observed), At(clock))
        PROVE  Step
    <3>1. observed \in Instants
      BY <1>1, SessionBounds DEF Instants
    <3> QED BY <1>1, <2>1, <3>1, AtIsReading DEF Step
  <2>2. CASE InterruptKnown(At(clock))
    BY <1>1, <2>2, AtIsReading DEF Step
  <2>3. CASE InterruptUnknown(At(clock), {})
    BY <1>1, <2>3, AtIsReading, {} \in SUBSET Transactions DEF Step
  <2> QED BY <2>1, <2>2, <2>3 DEF Supervise
<1>3. sample # NoSample => sample.generation \in Nat
  BY DEF SessionInv, SessionTypeOK, Samples
<1>4. SupervisorTypeOK' /\ SampleIsDated'
  BY <1>2, <1>3, SampleStaysDated DEF Supervise, SessionInv, SessionTypeOK, producerVars
<1>5. activeSince' \in BOOLEAN
  BY DEF Supervise, Remember
<1> QED BY <1>4, <1>5, JournalRests DEF Supervise, SessionInv, SessionTypeOK, producerVars

LEMMA UserEventKeeps == ASSUME SessionInv, UserEvent PROVE SessionInv'
<1>1. PICK by \in {"paused", "resumed"}, sequence \in {LastSequence + 1, nextSequence} :
        /\ sequence <= MaxSequence
        /\ Append1([sequence |-> sequence, runtime |-> runtime, observed |-> clock,
                    received |-> clock, expires |-> clock + MaxEvidenceAge,
                    state |-> PAUSED, by |-> by])
  BY DEF UserEvent
<1> DEFINE event == [sequence |-> sequence, runtime |-> runtime, observed |-> clock,
                     received |-> clock, expires |-> clock + MaxEvidenceAge,
                     state |-> PAUSED, by |-> by]
<1>2. sequence \in 1 .. MaxSequence
  BY <1>1, LastSequenceType, SessionBounds DEF SessionInv, SessionTypeOK
<1>3. /\ clock \in Instants /\ clock + MaxEvidenceAge \in Nat /\ runtime \in 0 .. MaxRuntimes
      /\ PAUSED \in ProtectionStates \ {ACTIVE}
  BY BoundsAssumption DEF SessionInv, SessionTypeOK, Instants, ProtectionStates, PAUSED, ACTIVE
<1>4. event \in Events /\ event.runtime = runtime /\ event.expires = event.observed + MaxEvidenceAge
  BY <1>2, <1>3 DEF Events
<1>5. Append1(event) /\ UNCHANGED <<supervisorVars, clock, producerVars, activeSince>>
  BY <1>1 DEF UserEvent
<1>6. runtime' = runtime
  BY <1>5 DEF producerVars
<1>7. pauseLatched' \in BOOLEAN
  BY <1>5 DEF Append1, SessionInv, SessionTypeOK
<1> HIDE DEF event
<1>8. /\ EventsAreDated' /\ JournalAddsUp'
      /\ Len(events') <= MaxEvents /\ \A i \in DOMAIN events' : events'[i] \in Events
      /\ observations' \in 0 .. MaxSequence /\ missing' \in 0 .. MaxSequence
      /\ discontinuities' \in 0 .. MaxRuntimes /\ evicted' \in 0 .. MaxSequence
  BY <1>4, <1>5, <1>6, AppendKeeps
<1>9. SupervisorTypeOK'
  BY <1>5, StutterTypeOK DEF SessionInv, SessionTypeOK
<1>10. SampleIsDated'
  BY <1>5 DEF SessionInv, SampleIsDated, producerVars, supervisorVars
<1> QED BY <1>5, <1>7, <1>8, <1>9, <1>10 DEF SessionInv, SessionTypeOK, producerVars

LEMMA CaptureKeeps ==
  ASSUME SessionInv, NEW now \in 0 .. clock, Capture(now)
  PROVE  SessionInv'
<1>1. now \in Instants /\ now \in Int
  BY SessionBounds DEF SessionInv, SessionTypeOK, Instants
<1>2. Step
  BY <1>1 DEF Capture, Step, Times
<1>3. SupervisorTypeOK'
  BY <1>2, StepTypeOK DEF SessionInv, SessionTypeOK
<1>4. admissionGeneration' \in Nat /\ state' \in ProtectionStates
  BY <1>3 DEF SupervisorTypeOK
<1>5. Project(state') \in ProtectionStates \ {ACTIVE}
  BY <1>4 DEF Project, ProtectionStates, UNKNOWN, ACTIVE
<1>6. nextSequence \in 1 .. MaxSequence /\ now + MaxEvidenceAge \in Nat
  BY <1>1, BoundsAssumption, SessionBounds DEF Capture, SessionInv, SessionTypeOK, Instants
<1>7. sample' \in Samples
  BY <1>1, <1>4, <1>5, <1>6 DEF Capture, Samples
<1>8. SampleIsDated'
  <2>1. /\ sample'.expires = sample'.observed + MaxEvidenceAge
        /\ sample'.generation = admissionGeneration'
        /\ activeSince' => state' = ACTIVE
    BY DEF Capture
  <2> QED BY <1>4, <2>1 DEF SampleIsDated
<1>9. nextSequence' \in 1 .. MaxSequence + 1 /\ activeSince' \in BOOLEAN
  BY <1>6, SessionBounds DEF Capture
<1> QED BY <1>1, <1>3, <1>7, <1>8, <1>9, JournalRests DEF Capture, SessionInv, SessionTypeOK

\* The common part of a publication that the journal takes and of one that it refuses.
LEMMA PublishSupervises ==
  ASSUME SessionInv, NEW received \in 0 .. clock, Publish(received)
  PROVE  Step /\ SupervisorTypeOK' /\ received \in Instants /\ activeSince' \in BOOLEAN
<1>1. received \in Instants /\ received \in Int
  BY SessionBounds DEF SessionInv, SessionTypeOK, Instants
<1>2. Step
  BY <1>1 DEF Publish, Step, Times
<1> QED BY <1>1, <1>2, StepTypeOK DEF SessionInv, SessionTypeOK, Publish, Remember

LEMMA PublishKeeps ==
  ASSUME SessionInv, NEW received \in 0 .. clock, Publish(received)
  PROVE  SessionInv'
<1>1. Step /\ SupervisorTypeOK' /\ received \in Instants /\ activeSince' \in BOOLEAN
  BY PublishSupervises
<1>2. PICK sameReason \in BOOLEAN :
        \/ /\ Append1(Publication(received, sameReason))
           /\ sample' = NoSample
           /\ lastCapture' = received
        \/ UNCHANGED <<sample, lastCapture, journalVars>>
  BY DEF Publish
<1>3. sample # NoSample /\ Remember /\ UNCHANGED <<clock, nextSequence, runtime>>
  BY DEF Publish
<1>4. CASE UNCHANGED <<sample, lastCapture, journalVars>>
  <2>1. sample # NoSample => sample.generation \in Nat
    BY DEF SessionInv, SessionTypeOK, Samples
  <2>2. SampleIsDated'
    BY <1>1, <1>3, <1>4, <2>1, SampleStaysDated DEF SessionInv, SessionTypeOK
  <2> QED BY <1>1, <1>3, <1>4, <2>2, JournalRests DEF SessionInv, SessionTypeOK
<1>5. CASE /\ Append1(Publication(received, sameReason))
           /\ sample' = NoSample
           /\ lastCapture' = received
  <2> DEFINE event == Publication(received, sameReason)
  <2>1. /\ event \in Events /\ event.runtime = runtime
        /\ event.expires = event.observed + MaxEvidenceAge
    BY <1>1, <1>3, PublicationIsEvent
  <2>2. pauseLatched' \in BOOLEAN
    BY <1>5 DEF Append1, SessionInv, SessionTypeOK
  <2>3. Append1(event)
    BY <1>5
  <2> HIDE DEF event
  <2>4. /\ EventsAreDated' /\ JournalAddsUp'
        /\ Len(events') <= MaxEvents /\ \A i \in DOMAIN events' : events'[i] \in Events
        /\ observations' \in 0 .. MaxSequence /\ missing' \in 0 .. MaxSequence
        /\ discontinuities' \in 0 .. MaxRuntimes /\ evicted' \in 0 .. MaxSequence
    BY <1>3, <2>1, <2>3, AppendKeeps
  <2>5. SampleIsDated'
    BY <1>5 DEF SampleIsDated
  <2> QED BY <1>1, <1>3, <1>5, <2>2, <2>4, <2>5 DEF SessionInv, SessionTypeOK
<1> QED BY <1>2, <1>4, <1>5

LEMMA NewProducerKeeps ==
  ASSUME SessionInv, NEW id \in {runtime, runtime + 1}, NewProducer(id)
  PROVE  SessionInv'
<1>1. /\ id \in 0 .. MaxRuntimes /\ runtime \in 0 .. MaxRuntimes /\ runtime' = id
      /\ runtime <= runtime'
  BY SessionBounds DEF SessionInv, SessionTypeOK, NewProducer
<1>2. SupervisorTypeOK'
  BY StutterTypeOK DEF SessionInv, SessionTypeOK, NewProducer
<1>3. nextSequence' \in 1 .. MaxSequence + 1
  BY LastSequenceType, SessionBounds DEF NewProducer
<1>4. events # <<>> => Last \in Events
  <2>1. events \in Seq(Events)
    BY DEF SessionInv, EventsAreDated
  <2>2. events # <<>> => Len(events) \in 1 .. Len(events)
    BY <2>1
  <2> QED BY <2>1, <2>2 DEF Last
<1>5. lastCapture' \in Instants \cup {NoTime}
  BY <1>4 DEF NewProducer, Events
<1>6. JournalAddsUp'
  <2>1. UNCHANGED <<events, observations, missing, discontinuities, evicted>>
    BY DEF NewProducer, journalVars
  <2>2. LastSequence' = LastSequence /\ (events # <<>> => Last' = Last)
    BY <2>1 DEF LastSequence, Last
  <2>3. events # <<>> => Last.runtime \in Nat
    BY <1>4 DEF Events
  <2>4. events # <<>> => Last.runtime <= runtime'
    BY <1>1, <2>3 DEF SessionInv, JournalAddsUp
  <2> QED BY <2>1, <2>2, <2>4 DEF SessionInv, JournalAddsUp
<1>7. SampleIsDated'
  BY DEF NewProducer, SampleIsDated
<1> QED BY <1>1, <1>2, <1>3, <1>5, <1>6, <1>7, JournalRests
        DEF NewProducer, SessionInv, SessionTypeOK

LEMMA SessionRests == ASSUME SessionInv, UNCHANGED sessionVars PROVE SessionInv'
<1>1. UNCHANGED <<supervisorVars, clock, sample, nextSequence, lastCapture, runtime,
                  journalVars, activeSince>>
  BY DEF sessionVars, sessionOwnVars, producerVars
<1>2. SupervisorTypeOK'
  BY <1>1, StutterTypeOK DEF SessionInv, SessionTypeOK
<1>3. SampleIsDated'
  BY <1>1 DEF SessionInv, SampleIsDated, supervisorVars
<1> QED BY <1>1, <1>2, <1>3, JournalRests DEF SessionInv, SessionTypeOK

LEMMA SessionInvHolds == SessionSpec => []SessionInv
<1>1. SessionInit => SessionInv
  BY SessionStarts
<1>2. SessionInv /\ [SessionNext]_sessionVars => SessionInv'
  BY TickKeeps, SuperviseKeeps, UserEventKeeps, CaptureKeeps, PublishKeeps, NewProducerKeeps,
     SessionRests
  DEF SessionNext
<1> QED BY <1>1, <1>2, PTL DEF SessionSpec

\* The session's state stays within its types: the journal is bounded, and what it says of
\* gaps, evictions and runtimes that were left stays within what happened.
THEOREM SessionTypeCorrect == SessionSpec => []SessionTypeOK
BY SessionInvHolds, PTL DEF SessionInv

\* A state that is shown as current was observed at most max_evidence_age ago, whenever
\* the sample was published and whatever was evicted.
THEOREM ShownIsRecent == SessionSpec => []CurrentIsRecent
<1>1. SessionInv => CurrentIsRecent
  <2> SUFFICES ASSUME SessionInv, Current.state # UNKNOWN, ~Current.expired
               PROVE  clock - Last.observed <= MaxEvidenceAge
    BY DEF CurrentIsRecent
  <2>1. events # <<>> /\ ~(clock > Last.expires)
    BY DEF Current
  <2>2. events \in Seq(Events) /\ Len(events) \in DOMAIN events
    BY <2>1 DEF SessionInv, EventsAreDated
  <2>3. Last \in Events /\ Last.expires = Last.observed + MaxEvidenceAge
    BY <2>2 DEF SessionInv, SessionTypeOK, EventsAreDated, Last
  <2> QED BY <2>1, <2>3, BoundsAssumption DEF SessionInv, SessionTypeOK, Instants, Events
<1> QED BY <1>1, SessionInvHolds, PTL

\* An event that reports a paused, degraded or recovering state speaks for the whole time
\* from its observation to its receipt: the generation tells that automation was allowed
\* and withdrawn again while the sample waited.
THEOREM PublishedStatesHeld == SessionSpec => PublishedHeldThroughout
<1> DEFINE Held == events' # events /\ events'[Len(events')].by = "producer"
                     /\ events'[Len(events')].state # UNKNOWN => ~activeSince'
<1>1. SessionInv /\ [SessionNext]_sessionVars => Held
  <2> SUFFICES ASSUME SessionInv, [SessionNext]_sessionVars, events' # events,
                      events'[Len(events')].by = "producer",
                      events'[Len(events')].state # UNKNOWN
               PROVE  ~activeSince'
    OBVIOUS
  <2>1. CASE UserEvent
    <3>1. PICK by \in {"paused", "resumed"}, sequence \in {LastSequence + 1, nextSequence} :
            /\ sequence <= MaxSequence
            /\ Append1([sequence |-> sequence, runtime |-> runtime, observed |-> clock,
                        received |-> clock, expires |-> clock + MaxEvidenceAge,
                        state |-> PAUSED, by |-> by])
      BY <2>1 DEF UserEvent
    <3> DEFINE event == [sequence |-> sequence, runtime |-> runtime, observed |-> clock,
                         received |-> clock, expires |-> clock + MaxEvidenceAge,
                         state |-> PAUSED, by |-> by]
    <3>2. sequence \in 1 .. MaxSequence
      BY <3>1, LastSequenceType, SessionBounds DEF SessionInv, SessionTypeOK
    <3>3. /\ clock \in Instants /\ clock + MaxEvidenceAge \in Nat /\ runtime \in 0 .. MaxRuntimes
          /\ PAUSED \in ProtectionStates \ {ACTIVE}
      BY BoundsAssumption DEF SessionInv, SessionTypeOK, Instants, ProtectionStates, PAUSED, ACTIVE
    <3>4. event \in Events /\ event.runtime = runtime /\ event.expires = event.observed + MaxEvidenceAge
      BY <3>2, <3>3 DEF Events
    <3>5. Append1(event) /\ runtime' = runtime /\ event.by # "producer"
      BY <2>1, <3>1 DEF UserEvent, producerVars
    <3> HIDE DEF event
    <3>6. events'[Len(events')] = event
      BY <3>4, <3>5, AppendKeeps
    <3> QED BY <3>5, <3>6
  <2>2. ASSUME NEW received \in 0 .. clock, Publish(received)
        PROVE  ~activeSince'
    <3>1. Step /\ SupervisorTypeOK'
      BY <2>2, PublishSupervises
    <3>2. PICK sameReason \in BOOLEAN : Append1(Publication(received, sameReason))
      BY <2>2 DEF Publish, journalVars
    <3>3. sample # NoSample /\ Remember /\ runtime' = runtime
      BY <2>2 DEF Publish
    <3> DEFINE event == Publication(received, sameReason)
    <3>4. /\ event \in Events /\ event.runtime = runtime
          /\ event.expires = event.observed + MaxEvidenceAge
          /\ event.state # UNKNOWN => state' # ACTIVE /\ sample.generation = admissionGeneration'
      BY <3>1, <3>3, PublicationIsEvent
    <3>5. Append1(event)
      BY <3>2
    <3> HIDE DEF event
    <3>6. events'[Len(events')] = event
      BY <3>3, <3>4, <3>5, AppendKeeps
    <3>7. state' # ACTIVE /\ sample.generation = admissionGeneration'
      BY <3>4, <3>6
    <3>8. Serialized
      BY <3>1, StepSerialized
    <3>9. /\ admissionGeneration \in Nat /\ sample.generation <= admissionGeneration
          /\ activeSince => state = ACTIVE \/ sample.generation < admissionGeneration
      BY <3>3 DEF SessionInv, SessionTypeOK, SupervisorTypeOK, SampleIsDated
    <3>10. state # ACTIVE /\ admissionGeneration' = admissionGeneration
      BY <3>7, <3>8, <3>9 DEF Serialized
    <3>11. ~activeSince
      BY <3>7, <3>9, <3>10
    <3> QED BY <3>3, <3>7, <3>11 DEF Remember
  <2>3. Tick \/ Supervise \/ (\E now \in 0 .. clock : Capture(now))
          \/ (\E id \in {runtime, runtime + 1} : NewProducer(id)) \/ UNCHANGED sessionVars
        => events' = events
    BY DEF Tick, Supervise, Capture, NewProducer, journalVars, sessionVars, sessionOwnVars
  <2> QED BY <2>1, <2>2, <2>3 DEF SessionNext
<1>2. SessionInv /\ [SessionNext]_sessionVars => [Held]_sessionVars
  BY <1>1
<1> QED BY <1>2, SessionInvHolds, PTL DEF SessionSpec, PublishedHeldThroughout

=============================================================================
