-------------------------------- MODULE MCParts --------------------------------
(***************************************************************************)
(* Parts of the system that share no state, checked side by side: a        *)
(* behaviour belongs to one of them, and the others rest in an initial     *)
(* state.  Since no step of one reads or writes a variable of another, the *)
(* states of each part are exactly those it reaches alone.                 *)
(***************************************************************************)
EXTENDS RemoteAuthority, MediaControl, DirectiveMemory, SessionJournal, TLC

VARIABLE part

partsVars == <<part, remoteVars, mediaVars, directiveVars, sessionVars>>

PartsInit ==
  /\ part \in {"supervisor", "authority", "media", "directives", "session"}
  /\ RemoteInit
  /\ MediaInit
  /\ DirectiveInit
  /\ SessionInit
  /\ part # "media" => device = CHOOSE d \in DeviceStates : TRUE

\* The session's producer samples the supervisor; here the supervisor is alone.
SupervisorPart ==
  /\ part = "supervisor" /\ Next
  /\ UNCHANGED <<part, remoteVars, mediaVars, directiveVars, sessionOwnVars>>

RemotePart ==
  /\ part = "authority" /\ RemoteNext
  /\ UNCHANGED <<part, mediaVars, directiveVars, sessionVars>>

MediaPart ==
  /\ part = "media" /\ MediaNext
  /\ UNCHANGED <<part, remoteVars, directiveVars, sessionVars>>

DirectivePart ==
  /\ part = "directives" /\ DirectiveNext
  /\ UNCHANGED <<part, remoteVars, mediaVars, sessionVars>>

SessionPart ==
  /\ part = "session" /\ SessionNext
  /\ UNCHANGED <<part, remoteVars, mediaVars, directiveVars>>

PartsNext ==
  SupervisorPart \/ RemotePart \/ MediaPart \/ DirectivePart \/ SessionPart

PartsSpec == PartsInit /\ [][PartsNext]_partsVars

RequestSymmetry == Permutations(Requests)

Stamp(w, m) == [wall |-> w, mono |-> m]

\* Three instants of one monotonic clock whose wall clock is set back between the second
\* and the third, and one reading without a monotonic time.
MCStamps == {Stamp(1, 1), Stamp(3, 2), Stamp(2, 3), Stamp(2, NoTime)}

=============================================================================
