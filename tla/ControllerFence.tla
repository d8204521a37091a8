---------------------------- MODULE ControllerFence ----------------------------
(***************************************************************************)
(* The endpoint's controller fence: for every resource the highest fencing *)
(* token accepted so far and the controller it belongs to.  The fence is   *)
(* kept in a file, in a second file beside it, and, when there is one, in  *)
(* a trusted monotonic anchor outside the file system.  accept writes the  *)
(* three one after the other under a lock on a lock file; a failure or a   *)
(* crash in between leaves them different, and a store that finds them     *)
(* different refuses to work.                                              *)
(*                                                                         *)
(* Clients are calls of accept, on any thread and in any process.  Files   *)
(* in the formats of earlier versions are left out.                        *)
(***************************************************************************)
EXTENDS Naturals

CONSTANTS
  Resources,    \* resource identifiers
  Controllers,  \* controller identifiers
  Nobody,       \* no controller
  Clients,      \* callers of accept
  MaxToken,     \* bound: the highest fencing token
  Anchored      \* a monotonic anchor is configured

ASSUME NobodyAssumption == Nobody \notin Controllers

ASSUME TokenAssumption == MaxToken \in Nat /\ Anchored \in BOOLEAN

VARIABLES
  fence,    \* the file (filepath)
  copy,     \* the file beside it (anchorpath)
  trusted,  \* the monotonic anchor
  writing   \* what each client has still to write

fenceVars == <<fence, copy, trusted, writing>>

\* A token and the controller it was granted to.
Fences == [token : 1..MaxToken, holder : Controllers]

\* The resource has no record.
NoFence == [token |-> 0, holder |-> Nobody]

Files == [Resources -> Fences \cup {NoFence}]

\* The client holds no lock and writes nothing.
Nothing == [step |-> "none"]

\* The records to be written, and the resource they change.
Writes == [step : {"anchor", "copy", "primary"}, records : Files, on : Resources]

FenceTypeOK ==
  /\ fence \in Files
  /\ copy \in Files
  /\ trusted \in Files
  /\ writing \in [Clients -> Writes \cup {Nothing}]

FenceInit ==
  /\ fence = [on \in Resources |-> NoFence]
  /\ copy = fence
  /\ trusted = fence
  /\ writing = [p \in Clients |-> Nothing]

-----------------------------------------------------------------------------
(* Helpers *)

\* The lock on the lock file is free.
Free == \A p \in Clients : writing[p] = Nothing

\* _load_state raises: a rollback is suspected.
Torn == copy # fence \/ (Anchored /\ trusted # fence)

\* The fence of a resource can be read: by accept, and by snapshot.
Readable == Free /\ ~Torn

\* The token is newer than the recorded one.
Advances(on, to) == to.token > fence[on].token

Writing(p, step) == writing[p] # Nothing /\ writing[p].step = step

\* The client goes on to write the next place.
Continue(p, step) == writing' = [writing EXCEPT ![p].step = step]

Unlock(p) == writing' = [writing EXCEPT ![p] = Nothing]

-----------------------------------------------------------------------------
(* accept *)

\* The token is the recorded one and of the same controller: accept returns True.
AcceptCurrent(on, to) ==
  /\ Readable
  /\ fence[on] = to
  /\ UNCHANGED fenceVars

\* A newer token is to be written.
AcceptBegin(p, on, to) ==
  /\ Readable
  /\ writing[p] = Nothing
  /\ Advances(on, to)
  /\ writing' = [writing EXCEPT ![p] =
       [step |-> IF Anchored THEN "anchor" ELSE "copy",
        records |-> [fence EXCEPT ![on] = to], on |-> on]]
  /\ UNCHANGED <<fence, copy, trusted>>

\* monotonic_anchor.advance answers ADVANCED.
AdvanceAnchor(p) ==
  /\ Writing(p, "anchor")
  /\ LET on == writing[p].on IN
       trusted' = [trusted EXCEPT ![on] = writing[p].records[on]]
  /\ Continue(p, "copy")
  /\ UNCHANGED <<fence, copy>>

\* Faulty variant: the file is replaced before the copy beside it.
SavePrimaryFirst(p) ==
  /\ Writing(p, "copy")
  /\ fence' = writing[p].records
  /\ Continue(p, "primary")
  /\ UNCHANGED <<copy, trusted>>

\* _save_anchor
SaveAnchor(p) ==
  /\ Writing(p, "copy")
  /\ copy' = writing[p].records
  /\ Continue(p, "primary")
  /\ UNCHANGED <<fence, trusted>>

\* _save; accept returns True, or raises for the directory it could not sync.
Save(p) ==
  /\ Writing(p, "primary")
  /\ fence' = writing[p].records
  /\ Unlock(p)
  /\ UNCHANGED <<copy, trusted>>

\* The anchor or a file fails: accept raises and releases the lock.
WriteFails(p) ==
  /\ writing[p] # Nothing
  /\ Unlock(p)
  /\ UNCHANGED <<fence, copy, trusted>>

\* The process dies; the operating system releases its locks.
FenceCrash ==
  /\ writing' = [p \in Clients |-> Nothing]
  /\ UNCHANGED <<fence, copy, trusted>>

FenceNext ==
  \/ \E p \in Clients, on \in Resources, to \in Fences : AcceptBegin(p, on, to)
  \/ \E on \in Resources, to \in Fences : AcceptCurrent(on, to)
  \/ \E p \in Clients : AdvanceAnchor(p)
  \/ \E p \in Clients : SaveAnchor(p)
  \/ \E p \in Clients : Save(p)
  \/ \E p \in Clients : WriteFails(p)
  \/ FenceCrash

FenceSpec == FenceInit /\ [][FenceNext]_fenceVars

-----------------------------------------------------------------------------
(* Properties *)

\* The place that is harder to roll back is never behind: what the file records is
\* in the copy, and what the copy records is in the anchor, through every failure
\* and crash.  So a file that is behind is always recognised (accept, _load_state).
AnchorLeads ==
  \A on \in Resources :
    /\ fence[on].token <= copy[on].token
    /\ Anchored => copy[on].token <= trusted[on].token

\* In none of the three places does a token ever fall or change its controller, with
\* any number of clients and a crash at any point (accept and its lock).
NeverFalls(place, place1) ==
  \A on \in Resources : place1[on] = place[on] \/ place1[on].token > place[on].token

FenceNeverFalls ==
  [][/\ NeverFalls(fence, fence') /\ NeverFalls(copy, copy')
     /\ NeverFalls(trusted, trusted')]_fenceVars

=============================================================================
