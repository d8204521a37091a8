--------------------------- MODULE AutomationPermit ---------------------------
(***************************************************************************)
(* What the protection supervisor promises to the code that moves physical *)
(* outputs: a permit that is either granted or withheld.  Physical effects *)
(* without a known outcome are debts.  A debt belongs to a transaction and *)
(* is settled with it, or to nothing in particular (latched) and then is   *)
(* never settled.  An epoch labels every stretch of permission, so that an *)
(* admission can be recognised as belonging to an earlier stretch.         *)
(***************************************************************************)
EXTENDS Naturals

CONSTANT Transactions

VARIABLES allowed, epoch, latched, outstanding

vars == <<allowed, epoch, latched, outstanding>>

Debt == latched \/ outstanding # {}

Init ==
  /\ ~allowed
  /\ epoch = 0
  /\ ~latched
  /\ outstanding = {}

\* Permission starts; nothing may be owed.
Grant ==
  /\ ~allowed /\ ~Debt
  /\ allowed' = TRUE
  /\ UNCHANGED <<epoch, latched, outstanding>>

\* Permission ends for a reason other than a debt.
Revoke ==
  /\ allowed
  /\ allowed' = FALSE
  /\ epoch' = epoch + 1
  /\ UNCHANGED <<latched, outstanding>>

\* A physical effect loses its outcome; permission ends with it.
Incur ==
  /\ latched => latched'
  /\ outstanding \subseteq outstanding' /\ outstanding' \subseteq Transactions
  /\ latched' \in BOOLEAN
  /\ latched' \/ outstanding' # {}
  /\ allowed' = FALSE
  /\ epoch' = IF allowed THEN epoch + 1 ELSE epoch

\* One transaction's outcome is established; permission does not follow from it.
Settle(t) ==
  /\ ~allowed
  /\ t \in outstanding
  /\ outstanding' = outstanding \ {t}
  /\ UNCHANGED <<allowed, epoch, latched>>

Next == Grant \/ Revoke \/ Incur \/ \E t \in Transactions : Settle(t)

Spec == Init /\ [][Next]_vars

\* A permit is never held while something is owed.
NeverAllowedInDebt == allowed => ~Debt

=============================================================================
