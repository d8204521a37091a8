---------------------------- MODULE EndpointFinality ----------------------------
(***************************************************************************)
(* EndpointTransactionFinalityStore: which transactions an endpoint has    *)
(* claimed for execution and which it has recorded as not applied, in one  *)
(* database file that several store objects, of several processes, use.    *)
(*                                                                         *)
(* A store is legacy or verified for good: a verified one has an authority *)
(* whose signature every record needs.  Each object carries its own mode,  *)
(* profile and authority, checks the file against them when it is opened,  *)
(* and again in every operation.  An operation is one transaction of the   *)
(* database.  Opening is not: the file is looked for first, is created by  *)
(* connecting, and gets its policy when the transaction commits.           *)
(*                                                                         *)
(* The first object to succeed commissions the store; every object after   *)
(* it insists on an existing file, as the production bridge does.  The     *)
(* file may be lost then, but is never replaced by an older one.           *)
(*                                                                         *)
(* Of an assertion the model keeps what the store tells apart; the other   *)
(* fields are bound by its digest, and a wrong one is one more way to be   *)
(* refused.  Files of earlier formats are left out.                        *)
(***************************************************************************)
EXTENDS Naturals

CONSTANTS
  TransactionIds,
  ProofIds,
  Authorities,      \* snapshots of trusted keys
  NoAuthority,      \* legacy: no trusted authority
  Stores,           \* store objects
  FinalityTimes,    \* readings of the store's clock
  Proofs,           \* the assertions that are presented
  NoFile,           \* the file does not exist
  EmptyFile,        \* the file exists and has no tables
  MaxLosses         \* bound: how often the file is lost

\* EndpointFinalityAssertionClaims, with the authority whose key signed it.
Assertions ==
  [id : ProofIds, signer : Authorities, on : TransactionIds, profile : {1, 2},
   from : FinalityTimes, until : FinalityTimes]

ASSUME FinalityAssumption ==
  /\ Proofs \subseteq Assertions
  /\ NoAuthority \notin Authorities
  /\ \A p \in Proofs : p.from < p.until
  /\ MaxLosses \in Nat

VARIABLES
  file,          \* the database
  object,        \* the store objects
  commissioned,  \* an object has been opened
  lost,          \* how often the file was lost
  executed,      \* history: how often callers were told to execute a transaction
  closed         \* history: the transactions callers were told are not applied

finalityVars == <<file, object, commissioned, lost, executed, closed>>

\* The arguments of a store object; profile 2 needs an authority.
Configurations ==
  {c \in [authority : Authorities \cup {NoAuthority}, profile : {1, 2}, existing : BOOLEAN] :
     c.profile = 2 => c.authority # NoAuthority}

Files ==
  [authority : Authorities \cup {NoAuthority}, profile : {1, 2},
   claims : SUBSET TransactionIds, markers : SUBSET TransactionIds,
   proofs : SUBSET Proofs]

ASSUME NoFileAssumption == NoFile \notin Files /\ EmptyFile \notin Files

NotOpen == [step |-> "closed"]

Objects ==
  [step : {"opening", "open"}, config : Configurations, preexisting : BOOLEAN]

FinalityTypeOK ==
  /\ file = NoFile \/ file = EmptyFile \/ file \in Files
  /\ object \in [Stores -> Objects \cup {NotOpen}]
  /\ commissioned \in BOOLEAN
  /\ lost \in 0 .. MaxLosses
  /\ executed \in [TransactionIds -> Nat]
  /\ closed \subseteq TransactionIds

FinalityInit ==
  /\ file = NoFile
  /\ object = [s \in Stores |-> NotOpen]
  /\ commissioned = FALSE
  /\ lost = 0
  /\ executed = [t \in TransactionIds |-> 0]
  /\ closed = {}

HasTables == file # NoFile /\ file # EmptyFile

\* The file's policy is the object's: its mode and authority, and its profile.
Agrees(config) == file.authority = config.authority /\ file.profile = config.profile

-----------------------------------------------------------------------------
(* __init__ *)

\* Faulty variant: an existing file is asked for and not insisted on.
FoundWhenLegacy(config) ==
  config.existing /\ config.authority = NoAuthority => file # NoFile

Found(config) == config.existing => file # NoFile

OpenBegin(s, config) ==
  /\ object[s] = NotOpen
  /\ commissioned => config.existing
  /\ Found(config)
  /\ object' = [object EXCEPT ![s] =
       [step |-> "opening", config |-> config, preexisting |-> file # NoFile]]
  /\ UNCHANGED <<file, commissioned, lost, executed, closed>>

\* The transaction that gives a file of this object its policy, or finds that of another.
OpenCommit(s) ==
  /\ object[s].step = "opening"
  /\ Found(object[s].config)
  /\ \/ /\ ~HasTables
        /\ ~object[s].preexisting
        /\ file' = [authority |-> object[s].config.authority,
                    profile |-> object[s].config.profile,
                    claims |-> {}, markers |-> {}, proofs |-> {}]
     \/ /\ HasTables
        /\ Agrees(object[s].config)
        /\ UNCHANGED file
  /\ object' = [object EXCEPT ![s].step = "open"]
  /\ commissioned' = TRUE
  /\ UNCHANGED <<lost, executed, closed>>

\* Refused, or the process dies; a file that connecting has created stays behind.
OpenFails(s) ==
  /\ object[s].step = "opening"
  /\ \/ file = NoFile /\ ~object[s].config.existing /\ file' = EmptyFile
     \/ UNCHANGED file
  /\ object' = [object EXCEPT ![s] = NotOpen]
  /\ UNCHANGED <<commissioned, lost, executed, closed>>

-----------------------------------------------------------------------------
(* The operations, each behind _connection *)

Usable(s) ==
  /\ object[s].step = "open"
  /\ HasTables
  /\ Agrees(object[s].config)

Config(s) == object[s].config

\* Faulty variant: a store with an authority takes a record without a proof.
UnprovenIsEnough(s) == TRUE

UnprovenAccepted(s) == Config(s).authority = NoAuthority

RecordNotApplied(s, t) ==
  /\ Usable(s)
  /\ UnprovenAccepted(s)
  /\ t \notin file.claims
  /\ file' = [file EXCEPT !.markers = @ \cup {t}]
  /\ closed' = closed \cup {t}
  /\ UNCHANGED <<object, commissioned, lost, executed>>

\* verify_endpoint_finality_with_authority: a key the object's snapshot trusts signed it.
Trusted(config, p) == p.signer = config.authority

\* validate_endpoint_finality_freshness
Fresh(p, now) == p.from <= now /\ now < p.until

\* admit_endpoint_finality_assertion, and the profile the object accepts.
Admitted(config, p, now) ==
  /\ Trusted(config, p)
  /\ config.profile = 2 => p.profile = 2
  /\ Fresh(p, now)

\* The first proof of its identity and of its transaction, or exactly that proof again.
RecordVerified(s, p, now) ==
  /\ Usable(s)
  /\ Config(s).authority # NoAuthority
  /\ Admitted(Config(s), p, now)
  /\ p.on \notin file.claims
  /\ \/ /\ \A q \in file.proofs : q.id # p.id /\ q.on # p.on
        /\ p.on \notin file.markers
        /\ file' = [file EXCEPT !.proofs = @ \cup {p}, !.markers = @ \cup {p.on}]
     \/ /\ p \in file.proofs /\ p.on \in file.markers
        /\ UNCHANGED file
  /\ closed' = closed \cup {p.on}
  /\ UNCHANGED <<object, commissioned, lost, executed>>

\* The claim is durable before the caller knows of it, and its answer may be lost.
ClaimFinality(s, t) ==
  /\ Usable(s)
  /\ t \notin file.markers /\ \A p \in file.proofs : p.on # t
  /\ t \notin file.claims
  /\ file' = [file EXCEPT !.claims = @ \cup {t}]
  /\ \/ executed' = [executed EXCEPT ![t] = @ + 1]
     \/ UNCHANGED executed
  /\ UNCHANGED <<object, commissioned, lost, closed>>

-----------------------------------------------------------------------------
(* What happens to the processes and to the file *)

ProcessEnds(s) ==
  /\ object[s].step = "open"
  /\ object' = [object EXCEPT ![s] = NotOpen]
  /\ UNCHANGED <<file, commissioned, lost, executed, closed>>

\* The commissioning is over: no object may still create the file.
LoseFile ==
  /\ lost < MaxLosses   \* bound
  /\ commissioned
  /\ \A s \in Stores : object[s].step = "opening" => object[s].config.existing
  /\ file' = NoFile
  /\ lost' = lost + 1
  /\ UNCHANGED <<object, commissioned, executed, closed>>

FinalityNext ==
  \/ \E s \in Stores :
       \/ \E config \in Configurations : OpenBegin(s, config)
       \/ OpenCommit(s) \/ OpenFails(s) \/ ProcessEnds(s)
       \/ \E t \in TransactionIds : RecordNotApplied(s, t) \/ ClaimFinality(s, t)
       \/ \E p \in Proofs, now \in FinalityTimes : RecordVerified(s, p, now)
  \/ LoseFile

FinalitySpec == FinalityInit /\ [][FinalityNext]_finalityVars

-----------------------------------------------------------------------------
(* Properties *)

\* A transaction is given to execution once at most and never when it was recorded as
\* not applied, through restarts, objects of every mode, and the loss of the file: an
\* endpoint that has lost its history executes nothing (claim_execution,
\* record_not_applied, require_existing).
ExecutedOnceOrClosed ==
  \A t \in TransactionIds :
    /\ executed[t] <= 1
    /\ t \in closed => executed[t] = 0

\* In a verified store every record of a transaction that was not applied has its proof,
\* one proof of one identity, signed by the store's authority and of its profile, and
\* no transaction is both claimed and proven, whichever objects were opened on the file
\* and in whatever order it was created (record_verified_not_applied).
FinalityIsProven ==
  HasTables /\ file.authority # NoAuthority =>
    /\ file.markers = {p.on : p \in file.proofs}
    /\ file.markers \cap file.claims = {}
    /\ \A p \in file.proofs :
         /\ p.signer = file.authority
         /\ p.profile >= file.profile
         /\ \A q \in file.proofs : (q.id = p.id \/ q.on = p.on) => q = p

=============================================================================
