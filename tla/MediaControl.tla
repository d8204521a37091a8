------------------------------ MODULE MediaControl ------------------------------
(***************************************************************************)
(* Volume, captions and sound of one device: what the menu offers for the  *)
(* capabilities of a manifest, how the bridge carries a change out, how a  *)
(* verified change becomes a candidate for undo, and the defaults users    *)
(* save.                                                                   *)
(*                                                                         *)
(* A state digest covers every field, so a digest is the state itself.     *)
(* Device, playback session and content generation are part of the         *)
(* manifest a request is bound to by digest.  Numbers are equal by value   *)
(* (the digest of a band also tells 1000 from 1000.0).                     *)
(*                                                                         *)
(* The device and the person at its remote control are outside the code:   *)
(* between the snapshot, the change and the observation the device may     *)
(* come into any state, states no snapshot of which can be captured too.   *)
(***************************************************************************)
EXTENDS Naturals, Sequences

CONSTANTS
  Percents,    \* whole volumes
  Fractions,   \* volumes that are no whole numbers
  Presets,     \* EqPreset
  BandSets,    \* valid tuples of EqBandGain
  Users,       \* user profiles
  Unset,        \* not set
  MaxDisturbances   \* bound: how often somebody else changes the device

VARIABLES
  device,      \* the state the device is in
  disturbances,  \* how often somebody else changed it
  pending,     \* the change the bridge is carrying out
  candidate,   \* undo_candidate of the last verified result
  verified,    \* verified_state of the last verified result
  defaults     \* the profile store: each user's default

mediaVars == <<device, disturbances, pending, candidate, verified, defaults>>

DeviceStates ==
  [volume : Percents \cup Fractions, captions : BOOLEAN \cup {Unset},
   preset : Presets \cup {Unset}, bands : BandSets \cup {Unset}]

Changes ==
  [op : {"set_volume"}, value : Percents]
    \cup [op : {"set_captions_enabled"}, value : BOOLEAN]
    \cup [op : {"set_eq_preset"}, value : Presets]
    \cup [op : {"set_eq_bands"}, value : BandSets]

\* MediaControlCapabilityManifest
Manifests ==
  [captions : {"NATIVE_TRACK", "NONE"},
   eq : {"BANDS", "SEMANTIC_PRESETS", "VOLUME_ONLY", "NONE"}]

Candidates == [change : Changes, expected : DeviceStates, prior : DeviceStates]

Pendings ==
  [change : Changes, prior : DeviceStates, target : DeviceStates,
   undoes : Candidates \cup {Unset}]

\* MediaControlSettingsProfile: a setting left out is Unset.
Profiles ==
  {s \in [volume : Percents \cup {Unset}, captions : BOOLEAN \cup {Unset},
          preset : Presets \cup {Unset}, bands : BandSets \cup {Unset}] :
     /\ s.preset = Unset \/ s.bands = Unset
     /\ \E setting \in DOMAIN s : s[setting] # Unset}

ASSUME MediaAssumption ==
  /\ MaxDisturbances \in Nat
  /\ Unset \notin Percents /\ Unset \notin BOOLEAN
  /\ Unset \notin Presets /\ Unset \notin BandSets
  /\ Unset \notin DeviceStates /\ Unset \notin Candidates /\ Unset \notin Pendings

\* MediaControlPriorState and VerifiedMediaControlState take no other state.
Capturable(s) == s.volume \in Percents /\ (s.preset = Unset \/ s.bands = Unset)

MediaTypeOK ==
  /\ device \in DeviceStates
  /\ disturbances \in 0 .. MaxDisturbances
  /\ pending \in Pendings \cup {Unset}
  /\ candidate \in Candidates \cup {Unset}
  /\ verified \in {s \in DeviceStates : Capturable(s)} \cup {Unset}
  /\ defaults \in [Users -> Profiles \cup {Unset}]

MediaInit ==
  /\ device \in DeviceStates
  /\ disturbances = 0
  /\ pending = Unset /\ candidate = Unset /\ verified = Unset
  /\ defaults = [u \in Users |-> Unset]

-----------------------------------------------------------------------------
(* Capabilities *)

\* MediaControlCapabilityGate.evaluate, for a request bound to this manifest.
Allows(manifest, op) ==
  CASE op = "set_captions_enabled" -> manifest.captions # "NONE"
    [] op = "set_eq_preset" -> manifest.eq = "SEMANTIC_PRESETS"
    [] op = "set_eq_bands" -> manifest.eq = "BANDS"
    [] op = "set_volume" -> manifest.eq # "NONE"

\* Faulty variant: any sound capability offers the equalizer.
OptionsForAnySound(manifest) ==
  (IF manifest.eq # "NONE" THEN {"VOLUME", "EQ_BANDS"} ELSE {})
    \cup (IF manifest.captions # "NONE" THEN {"CAPTIONS"} ELSE {})
    \cup (IF manifest.eq = "SEMANTIC_PRESETS"
            THEN {"EQ_PRESET", "DIALOGUE_PRESET", "NIGHT_PRESET"} ELSE {})

\* MediaControlOptionsMenu.for_manifest: the items available.
Options(manifest) ==
  (IF manifest.eq # "NONE" THEN {"VOLUME"} ELSE {})
    \cup (IF manifest.captions # "NONE" THEN {"CAPTIONS"} ELSE {})
    \cup (IF manifest.eq = "SEMANTIC_PRESETS"
            THEN {"EQ_PRESET", "DIALOGUE_PRESET", "NIGHT_PRESET"} ELSE {})
    \cup (IF manifest.eq = "BANDS" THEN {"EQ_BANDS"} ELSE {})

-----------------------------------------------------------------------------
(* Carrying a change out *)

\* Faulty variant: a preset is set on top of the bands.
TranslateOverBands(change, s) ==
  CASE change.op = "set_volume" -> [s EXCEPT !.volume = change.value]
    [] change.op = "set_captions_enabled" -> [s EXCEPT !.captions = change.value]
    [] change.op = "set_eq_preset" -> [s EXCEPT !.preset = change.value]
    [] change.op = "set_eq_bands" -> [s EXCEPT !.bands = change.value, !.preset = Unset]

\* _translate_state
Translate(change, s) ==
  CASE change.op = "set_volume" -> [s EXCEPT !.volume = change.value]
    [] change.op = "set_captions_enabled" -> [s EXCEPT !.captions = change.value]
    [] change.op = "set_eq_preset" -> [s EXCEPT !.preset = change.value, !.bands = Unset]
    [] change.op = "set_eq_bands" -> [s EXCEPT !.bands = change.value, !.preset = Unset]

\* from_authorized_snapshot: the target differs only where the operation changes it.
InScope(op, prior, target) ==
  \E change \in Changes : change.op = op /\ target = Translate(change, prior)

\* Faulty variant: the state an undo expects is not compared.
PreconditionUnchecked(expected) == TRUE

\* The signed precondition and the snapshot agree.
PreconditionHolds(expected) == expected \in {Unset, device}

\* authorize_and_commit up to the request to the device, with a snapshot of the device
\* as it is.
Begin(change, expected, undoes) ==
  LET target == Translate(change, device) IN
  /\ pending = Unset
  /\ PreconditionHolds(expected)
  /\ Capturable(device) /\ InScope(change.op, device, target)
  /\ pending' =
       [change |-> change, prior |-> device, target |-> target, undoes |-> undoes]
  /\ UNCHANGED <<device, disturbances, candidate, verified, defaults>>

\* The device carries the change out in the state it is in by now.
Applied ==
  /\ pending # Unset
  /\ device' = Translate(pending.change, device)
  /\ UNCHANGED <<disturbances, pending, candidate, verified, defaults>>

\* The change that leads back to the prior state, if an operation of the same kind does.
Reversals(op, prior) ==
  CASE op = "set_volume" -> {[op |-> op, value |-> prior.volume]}
    [] op = "set_captions_enabled" ->
         {[op |-> op, value |-> prior.captions]} \cap Changes
    [] op \in {"set_eq_preset", "set_eq_bands"} ->
         {[op |-> "set_eq_preset", value |-> prior.preset],
          [op |-> "set_eq_bands", value |-> prior.bands]} \cap Changes

\* from_verified_change; the lineage is that of one commit.
UndoCandidates ==
  {[change |-> change, expected |-> device, prior |-> pending.prior] :
     change \in Reversals(pending.change.op, pending.prior)}

\* The observation matches the target: the physical state is verified.  There is an undo
\* if the observer gives it a later epoch than the snapshot had, and the change has one.
Verify ==
  /\ pending # Unset
  /\ device = pending.target
  /\ verified' = device
  /\ \/ candidate' \in UndoCandidates
     \/ candidate' = Unset
  /\ pending' = Unset
  /\ UNCHANGED <<device, disturbances, defaults>>

\* The commit fails, or the observation does not match.
Fails ==
  /\ pending # Unset
  /\ pending' = Unset
  /\ UNCHANGED <<device, disturbances, candidate, verified, defaults>>

\* Somebody else changes the device.
Disturb ==
  /\ disturbances < MaxDisturbances   \* bound
  /\ disturbances' = disturbances + 1
  /\ device' \in DeviceStates
  /\ UNCHANGED <<pending, candidate, verified, defaults>>

-----------------------------------------------------------------------------
(* Undo and defaults *)

\* propose_undo accepts the candidate for this manifest.
Undoable(manifest) == candidate # Unset /\ Allows(manifest, candidate.change.op)

Undo(manifest) ==
  /\ Undoable(manifest)
  /\ Begin(candidate.change, candidate.expected, candidate)

\* to_user_default_profile: the verified settings the manifest supports.
Settings(s, manifest) ==
  [volume |-> IF manifest.eq # "NONE" THEN s.volume ELSE Unset,
   captions |-> IF manifest.captions # "NONE" THEN s.captions ELSE Unset,
   preset |-> IF manifest.eq = "SEMANTIC_PRESETS" THEN s.preset ELSE Unset,
   bands |-> IF manifest.eq = "BANDS" THEN s.bands ELSE Unset]

Optionally(op, value) == IF value = Unset THEN <<>> ELSE <<[op |-> op, value |-> value]>>

\* requests_for: the changes that make up a profile, in the order they are requested.
RequestsFor(profile) ==
  Optionally("set_captions_enabled", profile.captions)
    \o Optionally("set_eq_preset", profile.preset)
    \o Optionally("set_eq_bands", profile.bands)
    \o Optionally("set_volume", profile.volume)

\* requests_for raises unless the gate allows every request.
Compatible(profile, manifest) ==
  \A i \in DOMAIN RequestsFor(profile) : Allows(manifest, RequestsFor(profile)[i].op)

Savable(manifest) ==
  /\ verified # Unset
  /\ Settings(verified, manifest) \in Profiles
  /\ Compatible(Settings(verified, manifest), manifest)

\* save_verified_current_as_my_default
SaveDefault(u, manifest) ==
  /\ Savable(manifest)
  /\ defaults' = [defaults EXCEPT ![u] = Settings(verified, manifest)]
  /\ UNCHANGED <<device, disturbances, pending, candidate, verified>>

\* get_my_default, for the profile of the user who asks.
MyDefault(u) == defaults[u]

\* propose_restore_my_default: what is requested on a device like that of the manifest.
RestoreRequests(u) == RequestsFor(MyDefault(u))

\* reset_device_preferences
ResetDefault(u) ==
  /\ defaults' = [defaults EXCEPT ![u] = Unset]
  /\ UNCHANGED <<device, disturbances, pending, candidate, verified>>

\* A restart keeps the profile store only.
MediaRestart ==
  /\ pending' = Unset /\ candidate' = Unset /\ verified' = Unset
  /\ UNCHANGED <<device, disturbances, defaults>>

\* build_menu: what for_manifest is told of the store, the last result and the candidate.
Recovery(u, manifest) ==
  [canSave |-> Savable(manifest), hasDefault |-> MyDefault(u) # Unset,
   canUndo |-> Undoable(manifest)]

\* MediaControlOptionsMenu.for_manifest: the recovery actions available.
Actions(u, manifest) ==
  LET recovery == Recovery(u, manifest) IN
  {"APPLY_RECOMMENDED"}
    \cup (IF recovery.canSave /\ Options(manifest) # {} THEN {"SAVE_MY_DEFAULT"} ELSE {})
    \cup (IF recovery.hasDefault
            THEN {"RESTORE_MY_DEFAULT", "RESET_DEVICE_PREFERENCES"} ELSE {})
    \cup (IF recovery.canUndo THEN {"UNDO_LAST_CHANGE"} ELSE {})

MediaNext ==
  \/ \E change \in Changes : Begin(change, Unset, Unset)
  \/ \E manifest \in Manifests :
       \/ Undo(manifest)
       \/ \E u \in Users : SaveDefault(u, manifest)
  \/ Applied \/ Verify \/ Fails \/ Disturb \/ MediaRestart
  \/ \E u \in Users : ResetDefault(u)

MediaSpec == MediaInit /\ [][MediaNext]_mediaVars

-----------------------------------------------------------------------------
(* Properties *)

\* An undo asks for exactly the state before the change it undoes: the target that the
\* observation afterwards has to match is that state in every setting, whatever was
\* changed, undone or lost in between (from_verified_change, propose_undo,
\* authorize_and_commit).
UndoRestoresPrior ==
  pending # Unset /\ pending.undoes # Unset => pending.target = pending.undoes.prior

\* The operation an item of the menu asks for.
OperationOf(item) ==
  CASE item = "VOLUME" -> "set_volume"
    [] item = "CAPTIONS" -> "set_captions_enabled"
    [] item = "EQ_BANDS" -> "set_eq_bands"
    [] OTHER -> "set_eq_preset"

\* What the menu offers for a manifest is not refused: the gate allows the operation of
\* every item; current settings offered for saving are saved; an undo offered while
\* the device is as it expects is begun (for_manifest, build_menu, evaluate).
MenuKeepsItsWord ==
  \A manifest \in Manifests, u \in Users :
    /\ \A item \in Options(manifest) : Allows(manifest, OperationOf(item))
    /\ Savable(manifest) => Options(manifest) # {}
    /\ /\ "UNDO_LAST_CHANGE" \in Actions(u, manifest)
       /\ device = candidate.expected
       => Capturable(device) /\ InScope(candidate.change.op, device, candidate.prior)

\* The state after requests were carried out one after the other, from state s.
CarriedOut(requests, s) ==
  LET after[i \in 0 .. Len(requests)] ==
        IF i = 0 THEN s ELSE Translate(requests[i], after[i - 1])
  IN after[Len(requests)]

\* Requested one after the other, the changes of a saved default leave the device with
\* every setting of the default and with a state that can be captured again, whatever
\* state it was in, and nothing the default does not name is changed
\* (to_user_default_profile, requests_for, _translate_state).
DefaultRestores ==
  \A u \in Users : MyDefault(u) # Unset /\ Capturable(device) =>
    LET final == CarriedOut(RestoreRequests(u), device)
    IN /\ Capturable(final)
       /\ \A setting \in DOMAIN final :
            final[setting] =
              IF defaults[u][setting] # Unset THEN defaults[u][setting]
              ELSE IF \/ setting = "bands" /\ defaults[u].preset # Unset
                      \/ setting = "preset" /\ defaults[u].bands # Unset
              THEN Unset ELSE device[setting]

=============================================================================
