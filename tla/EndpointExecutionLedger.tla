----------------------- MODULE EndpointExecutionLedger -----------------------
(***************************************************************************)
(* The endpoint's durable ledger: the first decision about a transaction,  *)
(* to execute it or to close it as not applied, is the only one.           *)
(***************************************************************************)
CONSTANT Transactions  \* identifiers of physical transactions

VARIABLE ledger        \* the table endpoint_transactions

LedgerTypeOK ==
  ledger \in [Transactions -> {"UNDECIDED", "EXECUTION_CLAIMED", "NOT_APPLIED"}]

LedgerInit == ledger = [t \in Transactions |-> "UNDECIDED"]

\* The decision is the first; _decide.
Decide(t, decision) ==
  /\ ledger[t] = "UNDECIDED"
  /\ ledger' = [ledger EXCEPT ![t] = decision]

\* claim_execution returns True.
ClaimExecution(t) == Decide(t, "EXECUTION_CLAIMED")

\* close_if_unstarted returns True.
CloseIfUnstarted(t) ==
  \/ Decide(t, "NOT_APPLIED")
  \/ ledger[t] = "NOT_APPLIED" /\ UNCHANGED ledger

=============================================================================
