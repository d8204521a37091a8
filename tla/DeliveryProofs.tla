--------------------------- MODULE DeliveryProofs ---------------------------
(***************************************************************************)
(* Theorems about EndpointFinality, for any transactions, proofs,          *)
(* authorities, store objects and times, about ModelCache, for any models, *)
(* sizes and budgets and any finite number of threads, and about           *)
(* TvFeedback, for any pages, TVs, events and native batches and any       *)
(* bounds on choices, batches and stray requests.                          *)
(*                                                                         *)
(* While the finality file has its tables, it holds the whole history:     *)
(* every transaction that was executed is claimed in it and every one that *)
(* was closed is marked.  When the file is gone after the store was        *)
(* commissioned, it is gone for good, because every object that is being   *)
(* opened by then insists on an existing file; nothing happens any more.   *)
(*                                                                         *)
(* The count of a cache entry is the number of threads inside a use of its *)
(* model, so a model without users is one that no thread uses, and it      *)
(* stays so while it is unloaded, because a use of it is refused.          *)
(*                                                                         *)
(* A page that waits for the answer to a flush remembers what it sent, so  *)
(* an answer it takes speaks of exactly the events it then removes.  An    *)
(* event has a receipt as soon as its row is stored, in one transaction,   *)
(* so a later delivery of it adds no row.  So every row counts once, and   *)
(* the policy follows the last row with a choice after the settings were   *)
(* saved.  What a batch of any length makes of it is found by induction on *)
(* the batch: among the places where it would fail one is the first.       *)
(***************************************************************************)
EXTENDS EndpointFinality, ModelCache, TvFeedback, FiniteSetTheorems, SequenceTheorems, TLAPS

-----------------------------------------------------------------------------
(* The finality store *)

\* Before the first object is open nothing has happened.
NothingYet ==
  ~commissioned => ~HasTables /\ closed = {} /\ \A t \in TransactionIds : executed[t] = 0

\* The file is not created twice.
GoneForGood ==
  commissioned /\ ~HasTables =>
    /\ file = NoFile
    /\ \A s \in Stores : object[s].step = "opening" => object[s].config.existing

\* What happened to a transaction is in the file.
Remembered ==
  HasTables =>
    /\ closed \subseteq file.markers
    /\ file.markers \cap file.claims = {}
    /\ \A t \in TransactionIds : t \notin file.claims => executed[t] = 0

FinalityInv ==
  /\ FinalityTypeOK
  /\ NothingYet /\ GoneForGood /\ Remembered
  /\ ExecutedOnceOrClosed /\ FinalityIsProven

-----------------------------------------------------------------------------
(* Types *)

LEMMA ProofType ==
  ASSUME NEW p \in Proofs
  PROVE  p.on \in TransactionIds /\ p.signer \in Authorities /\ p.profile \in {1, 2}
BY FinalityAssumption DEF Assertions

LEMMA TablesType ==
  ASSUME NEW f \in Files
  PROVE  /\ f # NoFile /\ f # EmptyFile
         /\ f = [authority |-> f.authority, profile |-> f.profile, claims |-> f.claims,
                 markers |-> f.markers, proofs |-> f.proofs]
         /\ f.authority \in Authorities \cup {NoAuthority} /\ f.profile \in {1, 2}
         /\ f.claims \subseteq TransactionIds /\ f.markers \subseteq TransactionIds
         /\ f.proofs \subseteq Proofs
BY NoFileAssumption DEF Files

\* A file in the format has its tables.
LEMMA FilesHaveTables == file' \in Files => HasTables'
BY NoFileAssumption DEF HasTables

\* The object whose operation runs shares the mode and the authority of the file.
LEMMA UsableType ==
  ASSUME FinalityInv, NEW s \in Stores, Usable(s)
  PROVE  /\ file \in Files /\ HasTables /\ commissioned
         /\ file.authority = Config(s).authority /\ file.profile = Config(s).profile
BY DEF FinalityInv, FinalityTypeOK, NothingYet, HasTables, Usable, Agrees, Config

-----------------------------------------------------------------------------
(* The steps *)

LEMMA FinalityInvInit == FinalityInit => FinalityInv
<1> SUFFICES ASSUME FinalityInit PROVE FinalityInv
  OBVIOUS
<1>1. /\ ~HasTables /\ commissioned = FALSE /\ closed = {}
      /\ \A t \in TransactionIds : executed[t] = 0
  BY DEF FinalityInit, HasTables
<1>2. FinalityTypeOK
  <2>1. object \in [Stores -> Objects \cup {NotOpen}] /\ executed \in [TransactionIds -> Nat]
    BY DEF FinalityInit
  <2>2. file = NoFile /\ lost \in 0 .. MaxLosses
    BY FinalityAssumption DEF FinalityInit
  <2> QED BY <1>1, <2>1, <2>2 DEF FinalityTypeOK
<1> QED BY <1>1, <1>2
        DEF FinalityInv, NothingYet, GoneForGood, Remembered, ExecutedOnceOrClosed, FinalityIsProven

LEMMA OpenBeginKeeps ==
  ASSUME FinalityInv, NEW s \in Stores, NEW config \in Configurations, OpenBegin(s, config)
  PROVE  FinalityInv'
<1> USE DEF FinalityInv, FinalityTypeOK
<1>1. [step |-> "opening", config |-> config, preexisting |-> file # NoFile] \in Objects
  BY DEF Objects
<1>2. /\ object' = [object EXCEPT ![s] =
           [step |-> "opening", config |-> config, preexisting |-> file # NoFile]]
      /\ UNCHANGED <<file, commissioned, lost, executed, closed>>
      /\ commissioned => file # NoFile
  BY DEF OpenBegin, Found
<1>3. object' \in [Stores -> Objects \cup {NotOpen}]
  BY <1>1, <1>2
<1>4. GoneForGood'
  BY <1>2 DEF GoneForGood, HasTables
<1> QED BY <1>2, <1>3, <1>4
        DEF NothingYet, Remembered, ExecutedOnceOrClosed, FinalityIsProven, HasTables

\* An object that creates the tables is the first one.
LEMMA OpenCommitKeeps ==
  ASSUME FinalityInv, NEW s \in Stores, OpenCommit(s)
  PROVE  FinalityInv'
<1> USE DEF FinalityInv, FinalityTypeOK
<1> DEFINE config == object[s].config
           new == [authority |-> config.authority, profile |-> config.profile,
                   claims |-> {}, markers |-> {}, proofs |-> {}]
<1>1. /\ object[s].step = "opening"
      /\ object' = [object EXCEPT ![s].step = "open"]
      /\ commissioned' = TRUE /\ UNCHANGED <<lost, executed, closed>>
      /\ Found(config)
      /\ \/ ~HasTables /\ file' = new
         \/ HasTables /\ UNCHANGED file
  BY DEF OpenCommit
<1>2. object[s] \in Objects
  BY <1>1 DEF NotOpen
<1>3. object' \in [Stores -> Objects \cup {NotOpen}]
  BY <1>1, <1>2 DEF Objects
<1>4. CASE ~HasTables /\ file' = new
  <2>1. ~commissioned
    BY <1>1, <1>4 DEF GoneForGood, Found
  <2>2. closed = {} /\ \A t \in TransactionIds : executed[t] = 0
    BY <2>1 DEF NothingYet
  <2>3. new \in Files
    BY <1>2 DEF Objects, Configurations, Files
  <2>4. HasTables'
    BY <1>4, <2>3, NoFileAssumption DEF HasTables
  <2>5. Remembered' /\ FinalityIsProven' /\ GoneForGood'
    BY <1>1, <1>4, <2>2, <2>4 DEF Remembered, FinalityIsProven, GoneForGood
  <2> QED BY <1>1, <1>3, <1>4, <2>3, <2>5 DEF NothingYet, ExecutedOnceOrClosed
<1>5. CASE HasTables /\ UNCHANGED file
  BY <1>1, <1>3, <1>5
  DEF NothingYet, GoneForGood, Remembered, ExecutedOnceOrClosed, FinalityIsProven, HasTables
<1> QED BY <1>1, <1>4, <1>5

\* A process that ends, while it opens the file or later, leaves an empty file at most.
LEMMA EndsKeeps ==
  ASSUME FinalityInv, NEW s \in Stores, OpenFails(s) \/ ProcessEnds(s)
  PROVE  FinalityInv'
<1> USE DEF FinalityInv, FinalityTypeOK
<1>1. /\ object' = [object EXCEPT ![s] = NotOpen]
      /\ UNCHANGED <<commissioned, lost, executed, closed>>
      /\ \/ UNCHANGED file
         \/ /\ file = NoFile /\ file' = EmptyFile
            /\ object[s].step = "opening" /\ ~object[s].config.existing
  BY DEF OpenFails, ProcessEnds
<1>2. object' \in [Stores -> Objects \cup {NotOpen}]
  BY <1>1
<1>3. CASE UNCHANGED file
  <2>1. GoneForGood'
    BY <1>1, <1>3 DEF GoneForGood, HasTables, NotOpen
  <2> QED BY <1>1, <1>2, <1>3, <2>1
          DEF NothingYet, Remembered, ExecutedOnceOrClosed, FinalityIsProven, HasTables
<1>4. CASE file = NoFile /\ file' = EmptyFile /\ object[s].step = "opening" /\ ~object[s].config.existing
  <2>1. ~commissioned
    BY <1>4 DEF GoneForGood, HasTables
  <2>2. ~HasTables'
    BY <1>4 DEF HasTables
  <2> QED BY <1>1, <1>2, <1>4, <2>1, <2>2
          DEF NothingYet, GoneForGood, Remembered, ExecutedOnceOrClosed, FinalityIsProven
<1> QED BY <1>1, <1>3, <1>4

LEMMA RecordNotAppliedKeeps ==
  ASSUME FinalityInv, NEW s \in Stores, NEW t \in TransactionIds, RecordNotApplied(s, t)
  PROVE  FinalityInv'
<1> USE DEF FinalityInv, FinalityTypeOK
<1>1. /\ Usable(s) /\ Config(s).authority = NoAuthority /\ t \notin file.claims
      /\ file' = [file EXCEPT !.markers = @ \cup {t}]
      /\ closed' = closed \cup {t}
      /\ UNCHANGED <<object, commissioned, lost, executed>>
  BY DEF RecordNotApplied, UnprovenAccepted
<1>2. file \in Files /\ HasTables /\ commissioned /\ file.authority = NoAuthority
  BY <1>1, UsableType
<1>3. /\ file' \in Files /\ HasTables' /\ file'.authority = NoAuthority
      /\ file'.claims = file.claims /\ file'.markers = file.markers \cup {t}
  BY <1>1, <1>2, FilesHaveTables DEF Files
<1>4. Remembered'
  BY <1>1, <1>2, <1>3 DEF Remembered
<1>5. ExecutedOnceOrClosed'
  BY <1>1, <1>2 DEF Remembered, ExecutedOnceOrClosed
<1> QED BY <1>1, <1>2, <1>3, <1>4, <1>5 DEF NothingYet, GoneForGood, FinalityIsProven

LEMMA RecordVerifiedKeeps ==
  ASSUME FinalityInv, NEW s \in Stores, NEW p \in Proofs, NEW now \in FinalityTimes,
         RecordVerified(s, p, now)
  PROVE  FinalityInv'
<1> USE DEF FinalityInv, FinalityTypeOK
<1>1. /\ Usable(s) /\ Admitted(Config(s), p, now) /\ p.on \notin file.claims
      /\ \/ /\ \A q \in file.proofs : q.id # p.id /\ q.on # p.on
            /\ file' = [file EXCEPT !.proofs = @ \cup {p}, !.markers = @ \cup {p.on}]
         \/ p.on \in file.markers /\ UNCHANGED file
      /\ closed' = closed \cup {p.on}
      /\ UNCHANGED <<object, commissioned, lost, executed>>
  BY DEF RecordVerified
<1>2. /\ file \in Files /\ HasTables /\ commissioned
      /\ file.authority = Config(s).authority /\ file.profile = Config(s).profile
  BY <1>1, UsableType
<1>3. p.signer = file.authority /\ p.profile >= file.profile /\ p.on \in TransactionIds
  BY <1>1, <1>2, ProofType, TablesType DEF Admitted, Trusted
<1>4. ExecutedOnceOrClosed'
  BY <1>1, <1>2 DEF Remembered, ExecutedOnceOrClosed
<1>5. CASE p.on \in file.markers /\ UNCHANGED file
  <2>1. FinalityTypeOK' /\ NothingYet' /\ GoneForGood'
    BY <1>1, <1>2, <1>3, <1>5 DEF NothingYet, GoneForGood, HasTables
  <2>2. Remembered' /\ FinalityIsProven'
    BY <1>1, <1>2, <1>5 DEF Remembered, FinalityIsProven, HasTables
  <2> QED BY <1>4, <2>1, <2>2
<1>6. CASE /\ \A q \in file.proofs : q.id # p.id /\ q.on # p.on
           /\ file' = [file EXCEPT !.proofs = @ \cup {p}, !.markers = @ \cup {p.on}]
  <2>1. /\ file' \in Files /\ HasTables'
        /\ file'.authority = file.authority /\ file'.profile = file.profile
        /\ file'.claims = file.claims /\ file'.markers = file.markers \cup {p.on}
        /\ file'.proofs = file.proofs \cup {p}
    BY <1>2, <1>3, <1>6, FilesHaveTables DEF Files
  <2>2. Remembered'
    BY <1>1, <1>2, <2>1 DEF Remembered
  <2>3. FinalityIsProven'
    BY <1>1, <1>2, <1>3, <1>6, <2>1 DEF FinalityIsProven
  <2>4. FinalityTypeOK'
    BY <1>1, <1>3, <2>1
  <2>5. NothingYet' /\ GoneForGood'
    BY <1>1, <1>2, <2>1 DEF NothingYet, GoneForGood
  <2> QED BY <1>4, <2>2, <2>3, <2>4, <2>5
<1> QED BY <1>1, <1>5, <1>6

LEMMA ClaimFinalityKeeps ==
  ASSUME FinalityInv, NEW s \in Stores, NEW t \in TransactionIds, ClaimFinality(s, t)
  PROVE  FinalityInv'
<1> USE DEF FinalityInv, FinalityTypeOK
<1>1. /\ Usable(s) /\ t \notin file.markers /\ t \notin file.claims
      /\ \A p \in file.proofs : p.on # t
      /\ file' = [file EXCEPT !.claims = @ \cup {t}]
      /\ executed' = [executed EXCEPT ![t] = @ + 1] \/ UNCHANGED executed
      /\ UNCHANGED <<object, commissioned, lost, closed>>
  BY DEF ClaimFinality
<1>2. file \in Files /\ HasTables /\ commissioned
  BY <1>1, UsableType
<1>3. /\ file' \in Files /\ HasTables'
      /\ file'.authority = file.authority /\ file'.profile = file.profile
      /\ file'.claims = file.claims \cup {t} /\ file'.markers = file.markers
      /\ file'.proofs = file.proofs
  BY <1>1, <1>2, FilesHaveTables DEF Files
<1>4. executed[t] = 0 /\ t \notin closed
  BY <1>1, <1>2 DEF Remembered
<1>5. /\ executed' \in [TransactionIds -> Nat]
      /\ executed'[t] \in {0, 1} /\ \A u \in TransactionIds \ {t} : executed'[u] = executed[u]
  BY <1>1, <1>4
<1>6. Remembered'
  BY <1>1, <1>2, <1>3, <1>5 DEF Remembered
<1>7. ExecutedOnceOrClosed'
  BY <1>1, <1>4, <1>5 DEF ExecutedOnceOrClosed
<1>8. FinalityIsProven'
  BY <1>1, <1>2, <1>3 DEF FinalityIsProven
<1> QED BY <1>1, <1>2, <1>3, <1>5, <1>6, <1>7, <1>8 DEF NothingYet, GoneForGood

LEMMA LoseFileKeeps == ASSUME FinalityInv, LoseFile PROVE FinalityInv'
<1> USE DEF FinalityInv, FinalityTypeOK
<1>1. /\ file' = NoFile /\ commissioned /\ lost' = lost + 1 /\ lost < MaxLosses
      /\ \A s \in Stores : object[s].step = "opening" => object[s].config.existing
      /\ UNCHANGED <<object, commissioned, executed, closed>>
  BY DEF LoseFile
<1>2. lost' \in 0 .. MaxLosses
  BY <1>1, FinalityAssumption
<1> QED BY <1>1, <1>2
        DEF NothingYet, GoneForGood, Remembered, ExecutedOnceOrClosed, FinalityIsProven, HasTables

LEMMA FinalityInvNext == FinalityInv /\ [FinalityNext]_finalityVars => FinalityInv'
<1> SUFFICES ASSUME FinalityInv, [FinalityNext]_finalityVars PROVE FinalityInv'
  OBVIOUS
<1>1. CASE UNCHANGED finalityVars
  BY <1>1
  DEF finalityVars, FinalityInv, FinalityTypeOK, NothingYet, GoneForGood, Remembered,
      ExecutedOnceOrClosed, FinalityIsProven, HasTables
<1>2. CASE FinalityNext
  BY <1>2, OpenBeginKeeps, OpenCommitKeeps, EndsKeeps, RecordNotAppliedKeeps, RecordVerifiedKeeps,
     ClaimFinalityKeeps, LoseFileKeeps DEF FinalityNext
<1> QED BY <1>1, <1>2

LEMMA FinalityInvariant == FinalitySpec => []FinalityInv
BY FinalityInvInit, FinalityInvNext, PTL DEF FinalitySpec

-----------------------------------------------------------------------------
(* Theorems *)

\* The database and the objects keep their types, whichever objects are opened on it.
THEOREM FinalityTypeCorrect == FinalitySpec => []FinalityTypeOK
<1>1. FinalityInv => FinalityTypeOK
  BY DEF FinalityInv
<1> QED BY FinalityInvariant, <1>1, PTL

\* No transaction is given to execution twice, and none that was recorded as not applied.
THEOREM AtMostOneExecution == FinalitySpec => []ExecutedOnceOrClosed
<1>1. FinalityInv => ExecutedOnceOrClosed
  BY DEF FinalityInv
<1> QED BY FinalityInvariant, <1>1, PTL

\* In a verified store every closed transaction has its one proof from the store's authority.
THEOREM ProofForEveryRecord == FinalitySpec => []FinalityIsProven
<1>1. FinalityInv => FinalityIsProven
  BY DEF FinalityInv
<1> QED BY FinalityInvariant, <1>1, PTL

-----------------------------------------------------------------------------
(* The model cache *)

Users(k) == {t \in CacheThreads : Is(t, "using") /\ thread[t].model = k}

\* An entry counts its users, and has none while its model is unloaded.
UsersAreCounted ==
  \A k \in DOMAIN entries :
    /\ entries[k].users = Cardinality(Users(k))
    /\ entries[k].unloading => entries[k].users = 0

\* Only models of the cache are used and unloaded, each unloaded by one thread.
EntriesAreHeld ==
  /\ \A t \in CacheThreads : Is(t, "using") => thread[t].model \in DOMAIN entries
  /\ \A t \in CacheThreads :
       Is(t, "unloading") => thread[t].model \in DOMAIN entries /\ entries[thread[t].model].unloading
  /\ \A t, u \in CacheThreads :
       Is(t, "unloading") /\ Is(u, "unloading") /\ thread[t].model = thread[u].model => t = u

CacheInv == CacheTypeOK /\ UsersAreCounted /\ EntriesAreHeld

-----------------------------------------------------------------------------
(* Users *)

LEMMA UsersFinite == ASSUME NEW k PROVE IsFiniteSet(Users(k))
BY CacheAssumption, FS_Subset DEF Users

\* A model that has users in its entry has none only when no thread uses it.
LEMMA NoUsers ==
  ASSUME CacheInv, NEW k \in DOMAIN entries
  PROVE  entries[k].users = 0 <=> \A t \in CacheThreads : ~(Is(t, "using") /\ thread[t].model = k)
<1>1. entries[k].users = Cardinality(Users(k))
  BY DEF CacheInv, UsersAreCounted
<1>2. Cardinality(Users(k)) = 0 <=> Users(k) = {}
  BY UsersFinite, FS_EmptySet
<1> QED BY <1>1, <1>2 DEF Users

\* What a thread does next.
LEMMA BecomesType ==
  ASSUME CacheTypeOK, NEW t \in CacheThreads, NEW step \in Steps, NEW k, NEW enforces,
         Becomes(t, step, k, enforces)
  PROVE  /\ thread'[t].at = step /\ thread'[t].model = k
         /\ \A u \in CacheThreads \ {t} : thread'[u] = thread[u]
         /\ thread' = [u \in CacheThreads |-> thread'[u]]
         /\ \A u \in CacheThreads : thread'[u].at \in Steps
BY DEF CacheTypeOK, Becomes

\* A step that neither begins nor ends a use leaves the users as they are.
LEMMA SameUsers ==
  ASSUME NEW t \in CacheThreads, ~Is(t, "using"), ~Is(t, "using")',
         \A u \in CacheThreads \ {t} : thread'[u] = thread[u]
  PROVE  \A k : Users(k)' = Users(k)
BY DEF Users, Is

-----------------------------------------------------------------------------
(* The steps *)

LEMMA CacheInvInit == CacheInit => CacheInv
BY DEF CacheInit, CacheInv, CacheTypeOK, UsersAreCounted, EntriesAreHeld, Is, Steps

\* Steps of one thread that leave the entries alone and neither use nor unload.
LEMMA OutsideKeeps ==
  ASSUME CacheInv, NEW t \in CacheThreads, ~Is(t, "using"), UNCHANGED entries,
         NEW step \in {"idle", "enforcing", "evicting"}, NEW k, NEW enforces,
         Becomes(t, step, k, enforces)
  PROVE  CacheInv'
<1> USE DEF CacheInv
<1>1. /\ thread'[t].at = step
      /\ \A u \in CacheThreads \ {t} : thread'[u] = thread[u]
      /\ thread' = [u \in CacheThreads |-> thread'[u]]
      /\ \A u \in CacheThreads : thread'[u].at \in Steps
  BY BecomesType DEF Steps
<1>2. \A m : Users(m)' = Users(m)
  BY <1>1, SameUsers DEF Is
<1>3. CacheTypeOK'
  BY <1>1 DEF CacheTypeOK
<1>4. UsersAreCounted'
  BY <1>2 DEF UsersAreCounted
<1>5. EntriesAreHeld'
  BY <1>1 DEF EntriesAreHeld, Is
<1> QED BY <1>3, <1>4, <1>5

LEMMA RegisterKeeps ==
  ASSUME CacheInv, NEW t \in CacheThreads, NEW k \in Models, Register(t, k)
  PROVE  CacheInv'
<1> USE DEF CacheInv
<1>1. /\ Is(t, "idle") /\ k \notin DOMAIN entries
      /\ entries' = [m \in DOMAIN entries \cup {k} |->
                       IF m = k THEN [users |-> 0, unloading |-> FALSE] ELSE entries[m]]
      /\ Becomes(t, "enforcing", NoModel, FALSE)
  BY DEF Register
<1>2. /\ thread'[t].at = "enforcing"
      /\ \A u \in CacheThreads \ {t} : thread'[u] = thread[u]
      /\ thread' = [u \in CacheThreads |-> thread'[u]]
      /\ \A u \in CacheThreads : thread'[u].at \in Steps
  BY <1>1, BecomesType DEF Steps
<1>3. \A m : Users(m)' = Users(m)
  BY <1>1, <1>2, SameUsers DEF Is
<1>4. CacheTypeOK'
  BY <1>1, <1>2 DEF CacheTypeOK
<1>5. Users(k) = {}
  BY <1>1 DEF EntriesAreHeld, Users
<1>6. UsersAreCounted'
  BY <1>1, <1>3, <1>5, FS_EmptySet DEF UsersAreCounted
<1>7. EntriesAreHeld'
  BY <1>1, <1>2 DEF EntriesAreHeld, Is
<1> QED BY <1>4, <1>6, <1>7

LEMMA AcquireKeeps ==
  ASSUME CacheInv, NEW t \in CacheThreads, NEW k \in Models, AcquireModel(t, k)
  PROVE  CacheInv'
<1> USE DEF CacheInv
<1>1. /\ Is(t, "idle") /\ k \in DOMAIN entries /\ ~entries[k].unloading
      /\ entries' = [entries EXCEPT ![k].users = @ + 1]
      /\ Becomes(t, "using", k, FALSE)
  BY DEF AcquireModel
<1>2. /\ thread'[t].at = "using" /\ thread'[t].model = k
      /\ \A u \in CacheThreads \ {t} : thread'[u] = thread[u]
      /\ thread' = [u \in CacheThreads |-> thread'[u]]
      /\ \A u \in CacheThreads : thread'[u].at \in Steps
  BY <1>1, BecomesType DEF Steps
<1>3. /\ DOMAIN entries' = DOMAIN entries
      /\ entries' \in [DOMAIN entries -> [users : Nat, unloading : BOOLEAN]]
      /\ entries'[k].users = entries[k].users + 1 /\ ~entries'[k].unloading
      /\ \A m \in DOMAIN entries \ {k} : entries'[m] = entries[m]
  BY <1>1 DEF CacheTypeOK
<1>4. /\ Users(k)' = Users(k) \cup {t} /\ t \notin Users(k)
      /\ \A m \in DOMAIN entries \ {k} : Users(m)' = Users(m)
  BY <1>1, <1>2 DEF Users, Is
<1>5. Cardinality(Users(k)') = Cardinality(Users(k)) + 1
  BY <1>4, UsersFinite, FS_AddElement
<1>6. UsersAreCounted'
  <2>1. entries'[k].users = Cardinality(Users(k)')
    BY <1>1, <1>3, <1>5 DEF UsersAreCounted
  <2>2. \A m \in DOMAIN entries \ {k} : entries'[m].users = Cardinality(Users(m)')
    BY <1>3, <1>4 DEF UsersAreCounted
  <2> QED BY <1>3, <2>1, <2>2 DEF UsersAreCounted
<1>7. EntriesAreHeld'
  BY <1>1, <1>2, <1>3 DEF EntriesAreHeld, Is
<1>8. CacheTypeOK'
  BY <1>2, <1>3 DEF CacheTypeOK
<1> QED BY <1>6, <1>7, <1>8

LEMMA ReleaseKeeps ==
  ASSUME CacheInv, NEW t \in CacheThreads, Release(t)
  PROVE  CacheInv'
<1> USE DEF CacheInv
<1>0. PICK k : k = thread[t].model
  OBVIOUS
<1>1. /\ Is(t, "using")
      /\ entries' = [entries EXCEPT ![k].users = @ - 1]
      /\ Becomes(t, "enforcing", NoModel, FALSE)
  BY <1>0 DEF Release
<1>2. /\ thread'[t].at = "enforcing"
      /\ \A u \in CacheThreads \ {t} : thread'[u] = thread[u]
      /\ thread' = [u \in CacheThreads |-> thread'[u]]
      /\ \A u \in CacheThreads : thread'[u].at \in Steps
  BY <1>1, BecomesType DEF Steps
<1>3. k \in DOMAIN entries /\ entries[k].users # 0 /\ ~entries[k].unloading
  BY <1>0, <1>1, NoUsers DEF EntriesAreHeld, UsersAreCounted
<1>4. /\ DOMAIN entries' = DOMAIN entries
      /\ entries' \in [DOMAIN entries -> [users : Nat, unloading : BOOLEAN]]
      /\ entries'[k].users = entries[k].users - 1 /\ ~entries'[k].unloading
      /\ \A m \in DOMAIN entries \ {k} : entries'[m] = entries[m]
  <2>1. /\ entries \in [DOMAIN entries -> [users : Nat, unloading : BOOLEAN]]
        /\ entries[k].users - 1 \in Nat
    BY <1>3 DEF CacheTypeOK
  <2>2. entries' = [entries EXCEPT ![k].users = entries[k].users - 1]
    BY <1>1
  <2>3. [entries[k] EXCEPT !.users = entries[k].users - 1] =
          [users |-> entries[k].users - 1, unloading |-> entries[k].unloading]
    BY <1>3, <2>1
  <2> QED BY <1>3, <2>1, <2>2, <2>3
<1>5. /\ Users(k)' = Users(k) \ {t} /\ t \in Users(k)
      /\ \A m \in DOMAIN entries \ {k} : Users(m)' = Users(m)
  BY <1>0, <1>1, <1>2 DEF Users, Is
<1>6. Cardinality(Users(k)') = Cardinality(Users(k)) - 1
  BY <1>5, UsersFinite, FS_RemoveElement
<1>7. UsersAreCounted'
  <2>1. entries'[k].users = Cardinality(Users(k)')
    BY <1>3, <1>4, <1>6 DEF UsersAreCounted
  <2>2. \A m \in DOMAIN entries \ {k} : entries'[m].users = Cardinality(Users(m)')
    BY <1>4, <1>5 DEF UsersAreCounted
  <2> QED BY <1>4, <2>1, <2>2 DEF UsersAreCounted
<1>8. EntriesAreHeld'
  BY <1>0, <1>1, <1>2, <1>3, <1>4 DEF EntriesAreHeld, Is
<1>9. CacheTypeOK'
  BY <1>2, <1>4 DEF CacheTypeOK
<1> QED BY <1>7, <1>8, <1>9

LEMMA EvictKeeps ==
  ASSUME CacheInv, NEW t \in CacheThreads, Evict(t)
  PROVE  CacheInv'
<1> USE DEF CacheInv
<1>0. PICK k : k = thread[t].model
  OBVIOUS
<1>1. /\ Is(t, "evicting")
      /\ k \in DOMAIN entries /\ entries[k].users = 0 /\ ~entries[k].unloading
      /\ entries' = [entries EXCEPT ![k].unloading = TRUE]
      /\ Becomes(t, "unloading", k, thread[t].enforces)
  BY <1>0 DEF Evict, Evictable, Candidates
<1>2. /\ thread'[t].at = "unloading" /\ thread'[t].model = k
      /\ \A u \in CacheThreads \ {t} : thread'[u] = thread[u]
      /\ thread' = [u \in CacheThreads |-> thread'[u]]
      /\ \A u \in CacheThreads : thread'[u].at \in Steps
  BY <1>1, BecomesType DEF Steps
<1>3. \A m : Users(m)' = Users(m)
  BY <1>1, <1>2, SameUsers DEF Is
<1>4. /\ DOMAIN entries' = DOMAIN entries
      /\ entries' \in [DOMAIN entries -> [users : Nat, unloading : BOOLEAN]]
      /\ entries'[k].users = 0 /\ entries'[k].unloading
      /\ \A m \in DOMAIN entries \ {k} : entries'[m] = entries[m]
  BY <1>1 DEF CacheTypeOK
<1>5. UsersAreCounted'
  BY <1>1, <1>3, <1>4 DEF UsersAreCounted
<1>6. EntriesAreHeld'
  BY <1>0, <1>1, <1>2, <1>4 DEF EntriesAreHeld, Is
<1>7. CacheTypeOK'
  BY <1>2, <1>4 DEF CacheTypeOK
<1> QED BY <1>5, <1>6, <1>7

LEMMA UnloadedKeeps ==
  ASSUME CacheInv, NEW t \in CacheThreads, Unloaded(t)
  PROVE  CacheInv'
<1> USE DEF CacheInv
<1>0. PICK k : k = thread[t].model
  OBVIOUS
<1>1. /\ Is(t, "unloading")
      /\ entries' = [m \in DOMAIN entries \ {k} |-> entries[m]]
      /\ Becomes(t, "idle", NoModel, FALSE) \/ Becomes(t, "enforcing", NoModel, FALSE)
  BY <1>0 DEF Unloaded
<1>2. /\ thread'[t].at \in {"idle", "enforcing"}
      /\ \A u \in CacheThreads \ {t} : thread'[u] = thread[u]
      /\ thread' = [u \in CacheThreads |-> thread'[u]]
      /\ \A u \in CacheThreads : thread'[u].at \in Steps
  BY <1>1, BecomesType DEF Steps
<1>3. k \in DOMAIN entries /\ entries[k].users = 0
  BY <1>0, <1>1 DEF EntriesAreHeld, UsersAreCounted
<1>4. \A u \in CacheThreads \ {t} :
        Is(u, "using") \/ Is(u, "unloading") => thread[u].model # k
  BY <1>0, <1>1, <1>3, NoUsers DEF EntriesAreHeld
<1>5. \A m : Users(m)' = Users(m)
  BY <1>1, <1>2, SameUsers DEF Is
<1>6. UsersAreCounted'
  BY <1>1, <1>5 DEF UsersAreCounted
<1>7. EntriesAreHeld'
  BY <1>0, <1>1, <1>2, <1>4 DEF EntriesAreHeld, Is
<1>8. CacheTypeOK'
  BY <1>1, <1>2 DEF CacheTypeOK
<1> QED BY <1>6, <1>7, <1>8

LEMMA CacheInvNext == CacheInv /\ [CacheNext]_cacheVars => CacheInv'
<1> SUFFICES ASSUME CacheInv, [CacheNext]_cacheVars PROVE CacheInv'
  OBVIOUS
<1>1. CASE UNCHANGED cacheVars
  BY <1>1 DEF cacheVars, CacheInv, CacheTypeOK, UsersAreCounted, EntriesAreHeld, Users, Is
<1>2. ASSUME NEW t \in CacheThreads,
             \/ \E k \in Models : AskToEvict(t, k)
             \/ \E b \in Budgets \cup {NoBudget} : SetMemoryBudget(t, b)
             \/ EnforceBudget(t) \/ EvictRefused(t) \/ UnloadRaises(t)
      PROVE  CacheInv'
  <2>1. /\ ~Is(t, "using") /\ UNCHANGED entries
        /\ \E step \in {"idle", "enforcing", "evicting"} :
             \E k, enforces : Becomes(t, step, k, enforces)
    BY <1>2 DEF AskToEvict, SetMemoryBudget, EnforceBudget, EvictRefused, UnloadRaises, Is
  <2> QED BY <2>1, OutsideKeeps
<1> QED BY <1>1, <1>2, RegisterKeeps, AcquireKeeps, ReleaseKeeps, EvictKeeps, UnloadedKeeps
        DEF CacheNext

-----------------------------------------------------------------------------

\* No model is unloaded or dropped while a thread uses it, and no model is unloaded by two
\* threads, whatever evictions, uses and budgets meet while the lock is free.
THEOREM ModelsInUseStay == CacheSpec => []UsedIsLoaded
<1>1. CacheInv => UsedIsLoaded
  BY NoUsers DEF CacheInv, UsersAreCounted, EntriesAreHeld, UsedIsLoaded
<1> QED BY <1>1, CacheInvInit, CacheInvNext, PTL DEF CacheSpec


-----------------------------------------------------------------------------
(* The budget *)

\* The call of t will enforce the budget, or will be found to have met a model whose
\* eviction was asked for directly.
Awaited(t) ==
  \/ Is(t, "using") \/ Is(t, "enforcing")
  \/ Is(t, "unloading") /\ thread[t].enforces
  \/ /\ Is(t, "evicting") /\ thread[t].enforces
     /\ thread[t].model \in Candidates \cup direct

\* A budget that is exceeded although something can be evicted is somebody's concern.
BudgetIsAwaited ==
  \/ resident <= budget \/ Candidates = {} \/ yielded \/ broken # {}
  \/ \E t \in CacheThreads : Awaited(t)

BudgetInv ==
  /\ resident \in Int /\ budget \in Nat
  /\ BudgetIsAwaited

LEMMA BudgetInvInit == CacheInit => BudgetInv
BY CacheAssumption DEF CacheInit, BudgetInv, BudgetIsAwaited, Candidates

\* The step of a thread whose call is not awaited, and that frees no model.
LEMMA UnawaitedKeeps ==
  ASSUME BudgetIsAwaited, NEW t \in CacheThreads, ~Awaited(t),
         \A u \in CacheThreads \ {t} : thread'[u] = thread[u],
         Candidates' \subseteq Candidates,
         Candidates \cup direct \subseteq Candidates' \cup direct',
         resident <= budget => resident' <= budget',
         yielded => yielded', broken # {} => broken' # {}
  PROVE  BudgetIsAwaited'
<1>1. \A u \in CacheThreads \ {t} : Awaited(u) => Awaited(u)'
  BY DEF Awaited, Is
<1> QED BY <1>1 DEF BudgetIsAwaited

\* A thread that begins to use, to register or to enforce is awaited itself.
LEMMA BeginningKeeps ==
  ASSUME CacheTypeOK, NEW t \in CacheThreads, NEW step \in {"using", "enforcing"}, NEW k,
         Becomes(t, step, k, FALSE)
  PROVE  BudgetIsAwaited'
<1>1. thread'[t].at = step
  BY BecomesType DEF Steps
<1> QED BY <1>1 DEF BudgetIsAwaited, Awaited, Is

LEMMA EnforceKeepsBudget ==
  ASSUME CacheInv, BudgetInv, NEW t \in CacheThreads, EnforceBudget(t)
  PROVE  BudgetInv'
<1>1. /\ UNCHANGED <<entries, resident, budget, direct, yielded, broken>>
      /\ Candidates' = Candidates
  BY DEF EnforceBudget, Candidates
<1>2. CASE resident <= budget \/ Candidates = {}
  BY <1>1, <1>2 DEF BudgetInv, BudgetIsAwaited
<1>3. CASE ~(resident <= budget \/ Candidates = {})
  <2>1. PICK i \in DOMAIN recent :
          recent[i] \in Candidates /\ Becomes(t, "evicting", recent[i], TRUE)
    BY <1>3 DEF EnforceBudget
  <2>2. thread' = [thread EXCEPT ![t] = [at |-> "evicting", model |-> recent[i], enforces |-> TRUE]]
    BY <2>1 DEF Becomes
  <2>3. thread'[t] = [at |-> "evicting", model |-> recent[i], enforces |-> TRUE]
    BY <2>2 DEF CacheInv, CacheTypeOK
  <2>4. Awaited(t)'
    BY <1>1, <2>1, <2>3 DEF Awaited, Is
  <2> QED BY <1>1, <2>4 DEF BudgetInv, BudgetIsAwaited
<1> QED BY <1>2, <1>3

LEMMA EvictKeepsBudget ==
  ASSUME CacheInv, BudgetInv, NEW t \in CacheThreads, Evict(t)
  PROVE  BudgetInv'
<1>0. PICK k : k = thread[t].model
  OBVIOUS
<1>1. /\ Is(t, "evicting") /\ k \in Candidates
      /\ entries' = [entries EXCEPT ![k].unloading = TRUE]
      /\ direct' = IF thread[t].enforces THEN direct \ {k} ELSE direct \cup {k}
      /\ Becomes(t, "unloading", k, thread[t].enforces)
      /\ UNCHANGED <<resident, budget, yielded, broken>>
  BY <1>0 DEF Evict, Evictable
<1>2. thread' = [thread EXCEPT ![t] =
                   [at |-> "unloading", model |-> k, enforces |-> thread[t].enforces]]
  BY <1>1 DEF Becomes
<1>3. /\ thread'[t] = [at |-> "unloading", model |-> k, enforces |-> thread[t].enforces]
      /\ \A u \in CacheThreads \ {t} : thread'[u] = thread[u]
  BY <1>2 DEF CacheInv, CacheTypeOK
<1>4. CASE thread[t].enforces
  <2>1. Awaited(t)'
    BY <1>3, <1>4 DEF Awaited, Is
  <2> QED BY <1>1, <2>1 DEF BudgetInv, BudgetIsAwaited
<1>5. CASE ~thread[t].enforces
  <2>1. Candidates' = Candidates \ {k}
    <3>1. /\ DOMAIN entries' = DOMAIN entries /\ entries'[k].unloading
          /\ \A m \in DOMAIN entries \ {k} : entries'[m] = entries[m]
      BY <1>1 DEF CacheInv, CacheTypeOK, Candidates
    <3> QED BY <3>1 DEF Candidates
  <2>2. ~Awaited(t)
    BY <1>1, <1>5 DEF Awaited, Is
  <2> QED BY <1>1, <1>3, <1>5, <2>1, <2>2, UnawaitedKeeps DEF BudgetInv
<1> QED BY <1>4, <1>5

LEMMA EvictRefusedKeepsBudget ==
  ASSUME CacheInv, BudgetInv, NEW t \in CacheThreads, EvictRefused(t)
  PROVE  BudgetInv'
<1>1. /\ Is(t, "evicting") /\ thread[t].model \notin Candidates
      /\ UNCHANGED <<entries, resident, budget, direct, broken>>
      /\ yielded' = (yielded \/ (thread[t].enforces /\ thread[t].model \in direct))
      /\ Becomes(t, "idle", NoModel, FALSE)
      /\ Candidates' = Candidates
  BY DEF EvictRefused, Evictable, Candidates
<1>2. \A u \in CacheThreads \ {t} : thread'[u] = thread[u]
  BY <1>1, BecomesType DEF CacheInv, Steps
<1>3. CASE thread[t].enforces /\ thread[t].model \in direct
  BY <1>1, <1>3 DEF BudgetInv, BudgetIsAwaited
<1>4. CASE ~(thread[t].enforces /\ thread[t].model \in direct)
  <2>1. ~Awaited(t)
    BY <1>1, <1>4 DEF Awaited, Is
  <2> QED BY <1>1, <1>2, <2>1, UnawaitedKeeps DEF BudgetInv
<1> QED BY <1>3, <1>4

LEMMA UnloadedKeepsBudget ==
  ASSUME CacheInv, BudgetInv, NEW t \in CacheThreads, Unloaded(t)
  PROVE  BudgetInv'
<1>0. PICK k : k = thread[t].model
  OBVIOUS
<1>1. /\ Is(t, "unloading")
      /\ entries' = [m \in DOMAIN entries \ {k} |-> entries[m]]
      /\ resident' = resident - Megabytes[k]
      /\ IF thread[t].enforces THEN Becomes(t, "enforcing", NoModel, FALSE)
                               ELSE Becomes(t, "idle", NoModel, FALSE)
      /\ UNCHANGED <<budget, direct, yielded, broken>>
  BY <1>0 DEF Unloaded
<1>2. /\ k \in DOMAIN entries /\ entries[k].unloading
      /\ Megabytes[k] \in Nat
  BY <1>0, <1>1, CacheAssumption DEF CacheInv, CacheTypeOK, EntriesAreHeld
<1>3. /\ resident' \in Int /\ budget' \in Nat
      /\ resident <= budget => resident' <= budget'
  BY <1>1, <1>2 DEF BudgetInv
<1>4. CASE thread[t].enforces
  BY <1>1, <1>3, <1>4, BeginningKeeps DEF BudgetInv, CacheInv
<1>5. CASE ~thread[t].enforces
  <2>1. Candidates' = Candidates
    BY <1>1, <1>2 DEF Candidates
  <2>2. \A u \in CacheThreads \ {t} : thread'[u] = thread[u]
    BY <1>1, <1>5, BecomesType DEF CacheInv, Steps
  <2>3. ~Awaited(t)
    BY <1>1, <1>5 DEF Awaited, Is
  <2> QED BY <1>1, <1>3, <2>1, <2>2, <2>3, UnawaitedKeeps DEF BudgetInv
<1> QED BY <1>4, <1>5

LEMMA BudgetInvNext == CacheInv /\ BudgetInv /\ [CacheNext]_cacheVars => BudgetInv'
<1> SUFFICES ASSUME CacheInv, BudgetInv, [CacheNext]_cacheVars PROVE BudgetInv'
  OBVIOUS
<1>1. CASE UNCHANGED cacheVars
  BY <1>1 DEF cacheVars, BudgetInv, BudgetIsAwaited, Candidates, Awaited, Is
<1>2. ASSUME NEW t \in CacheThreads, NEW k \in Models, Register(t, k)
      PROVE  BudgetInv'
  <2>1. resident' \in Int /\ budget' \in Nat
    BY <1>2, CacheAssumption DEF Register, BudgetInv
  <2> QED BY <1>2, <2>1, BeginningKeeps DEF Register, BudgetInv, CacheInv
<1>3. ASSUME NEW t \in CacheThreads, NEW k \in Models, AcquireModel(t, k)
      PROVE  BudgetInv'
  BY <1>3, BeginningKeeps DEF AcquireModel, BudgetInv, CacheInv
<1>4. ASSUME NEW t \in CacheThreads, Release(t)
      PROVE  BudgetInv'
  BY <1>4, BeginningKeeps DEF Release, BudgetInv, CacheInv
<1>5. ASSUME NEW t \in CacheThreads, NEW b \in Budgets \cup {NoBudget}, SetMemoryBudget(t, b)
      PROVE  BudgetInv'
  <2>1. resident' \in Int /\ budget' \in Nat
    BY <1>5, CacheAssumption DEF SetMemoryBudget, BudgetInv
  <2> QED BY <1>5, <2>1, BeginningKeeps DEF SetMemoryBudget, BudgetInv, CacheInv
<1>6. ASSUME NEW t \in CacheThreads, NEW k \in Models, AskToEvict(t, k)
      PROVE  BudgetInv'
  <2>1. /\ Is(t, "idle") /\ Becomes(t, "evicting", k, FALSE)
        /\ UNCHANGED <<entries, resident, budget, direct, yielded, broken>>
        /\ Candidates' = Candidates
    BY <1>6 DEF AskToEvict, Candidates
  <2>2. \A u \in CacheThreads \ {t} : thread'[u] = thread[u]
    BY <2>1, BecomesType DEF CacheInv, Steps
  <2>3. ~Awaited(t)
    BY <2>1 DEF Awaited, Is
  <2> QED BY <2>1, <2>2, <2>3, UnawaitedKeeps DEF BudgetInv
<1>7. ASSUME NEW t \in CacheThreads, UnloadRaises(t)
      PROVE  BudgetInv'
  BY <1>7 DEF UnloadRaises, BudgetInv, BudgetIsAwaited
<1> QED BY <1>1, <1>2, <1>3, <1>4, <1>5, <1>6, <1>7, EnforceKeepsBudget, EvictKeepsBudget,
           EvictRefusedKeepsBudget, UnloadedKeepsBudget DEF CacheNext

-----------------------------------------------------------------------------

\* Once every call has returned, the memory is within the budget or there is nothing to
\* evict, for any number of threads, models and budgets, except after an unloading raised
\* or an enforcement met a model whose eviction was asked for directly.
THEOREM BudgetHoldsAtRest == CacheSpec => []WithinBudgetAtRest
<1>1. BudgetInv => WithinBudgetAtRest
  BY DEF BudgetInv, BudgetIsAwaited, WithinBudgetAtRest, Awaited, Is
<1> QED BY <1>1, CacheInvInit, CacheInvNext, BudgetInvInit, BudgetInvNext, PTL DEF CacheSpec

-----------------------------------------------------------------------------
(* The choices of TVs *)

\* The events that may be delivered as a batch.
Events == {f \in Feedback : f.id \in EventIds}

\* One choice that was posted at once.
Single(body) == \E f \in Feedback : f.id = NoEvent /\ body = <<f>>

\* An answer is to a page and of one of the two kinds.
Addressed(a) == a = Answer(a.to, a.kind) /\ a.to \in Pages /\ a.kind \in {"submit", "sync"}

\* What is queued and sent consists of events, and what is posted at once has no identifier.
FeedbackTyped ==
  /\ outbox \in Seq(Events)
  /\ \A p \in Pages : posted[p] = <<>> \/ Single(posted[p])
  /\ \A p \in Pages : flushing[p] \in Seq(Events)
  /\ DOMAIN posted = Pages /\ DOMAIN flushing = Pages
  /\ \A r \in wire :
       /\ r = Request(r.from, r.kind, r.body) /\ r.from \in Pages \cup {NoPage}
       /\ \/ r.kind = "submit" /\ Single(r.body)
          \/ r.kind = "sync" /\ r.body \in Seq(Events)
  /\ \A a \in answers : Addressed(a)
  /\ rows \in Seq(Feedback)
  /\ DOMAIN receipts = EventIds
  /\ used \subseteq PageIds /\ acknowledged \subseteq EventIds

\* A page that awaits the answer to a flush sent what it remembers, and an answer that is
\* on its way says that all of it is stored.
FlushesAreTrue ==
  /\ \A r \in wire : r.kind = "sync" /\ r.from \in Pages =>
       flushing[r.from] = r.body /\ r.body # <<>>
  /\ \A p \in Pages : Answer(p, "sync") \in answers =>
       /\ flushing[p] # <<>>
       /\ \A i \in DOMAIN flushing[p] : receipts[flushing[p][i].id] # <<>>

FeedbackInv == FeedbackTyped /\ FlushesAreTrue /\ StoredOnce

-----------------------------------------------------------------------------
(* What is picked from a sequence *)

\* The place of k among the places of a finite set.
Rank(k, places) == Cardinality({j \in places : j <= k})

\* Every place is at some rank, and no two at the same: the ranks are as many as the places.
LEMMA Ranks ==
  ASSUME NEW n \in Nat, NEW places \in SUBSET (1 .. n)
  PROVE  /\ Cardinality(places) \in Nat
         /\ \A k \in places : Rank(k, places) \in 1 .. Cardinality(places)
         /\ \A k, l \in places : k < l => Rank(k, places) < Rank(l, places)
         /\ \A i \in 1 .. Cardinality(places) : \E k \in places : Rank(k, places) = i
<1> DEFINE upto(k) == {j \in places : j <= k}
           N == Cardinality(places)
<1>1. IsFiniteSet(places) /\ N \in Nat
  <2>1. IsFiniteSet(1 .. n)
    BY FS_Interval
  <2>2. IsFiniteSet(places)
    BY <2>1, FS_Subset
  <2> QED BY <2>2, FS_CardinalityType
<1> USE <1>1
<1>0. \A j \in places : j \in Int
  OBVIOUS
<1>2. ASSUME NEW k \in places
      PROVE  /\ IsFiniteSet(upto(k)) /\ Rank(k, places) = Cardinality(upto(k))
             /\ Rank(k, places) \in 1 .. N
  <2>1. upto(k) \in SUBSET places
    OBVIOUS
  <2>2. IsFiniteSet(upto(k)) /\ Cardinality(upto(k)) <= N
    BY <1>1, <2>1, FS_Subset
  <2>3. Cardinality(upto(k)) \in Nat
    BY <2>2, FS_CardinalityType
  <2>4. k \in upto(k)
    OBVIOUS
  <2>5. Cardinality(upto(k)) # 0
    BY <2>2, <2>4, FS_EmptySet
  <2> QED BY <1>1, <2>2, <2>3, <2>5 DEF Rank
<1>3. ASSUME NEW k \in places, NEW l \in places, k < l
      PROVE  Rank(k, places) < Rank(l, places)
  <2>0. k \in Int /\ l \in Int /\ k < l
    BY <1>0, <1>3
  <2>1. upto(k) \in SUBSET upto(l) /\ l \in upto(l) /\ l \notin upto(k)
    <3>1. ASSUME NEW j \in places, j <= k PROVE j <= l
      <4>1. j \in Int
        BY <1>0
      <4> QED BY <2>0, <3>1, <4>1
    <3>2. l <= l /\ ~(l <= k)
      BY <2>0
    <3> QED BY <3>1, <3>2
  <2>2. IsFiniteSet(upto(l)) /\ IsFiniteSet(upto(k))
    BY <1>2
  <2>3. /\ Cardinality(upto(k)) <= Cardinality(upto(l))
        /\ Cardinality(upto(l)) = Cardinality(upto(k)) => upto(l) = upto(k)
    BY <2>1, <2>2, FS_Subset
  <2>4. Cardinality(upto(k)) \in Nat /\ Cardinality(upto(l)) \in Nat
    BY <2>2, FS_CardinalityType
  <2>5. Cardinality(upto(l)) # Cardinality(upto(k))
    BY <2>1, <2>3
  <2> QED BY <1>2, <2>3, <2>4, <2>5
<1> DEFINE f == [k \in places |-> Rank(k, places)]
<1>4. f \in [places -> 1 .. N]
  BY <1>2
<1>5. ASSUME NEW k \in places, NEW l \in places, f[k] = f[l] PROVE k = l
  <2>1. k \in Int /\ l \in Int
    OBVIOUS
  <2>2. f[k] = Rank(k, places) /\ f[l] = Rank(l, places)
    OBVIOUS
  <2>3. Rank(k, places) \in 1 .. N
    BY <1>2
  <2>4. Rank(k, places) = Rank(l, places)
    BY <1>5, <2>2, Zenon
  <2>5. ~(Rank(k, places) < Rank(l, places)) /\ ~(Rank(l, places) < Rank(k, places))
    BY <1>1, <2>3, <2>4
  <2>6. ~(k < l) /\ ~(l < k)
    BY <1>3, <2>5
  <2> QED BY <2>1, <2>6
<1>6. IsFiniteSet(1 .. N) /\ Cardinality(1 .. N) = N
  BY <1>1, FS_Interval
<1>7. ASSUME NEW i \in 1 .. N PROVE \E k \in places : Rank(k, places) = i
  <2> SUFFICES ASSUME \A k \in places : Rank(k, places) # i PROVE FALSE
    OBVIOUS
  <2> DEFINE others == (1 .. N) \ {i}
  <2>1. IsFiniteSet(others) /\ Cardinality(others) = N - 1
    BY <1>6, FS_RemoveElement
  <2>2. f \in [places -> others]
    BY <1>4
  <2>3. Cardinality(others) < Cardinality(places)
    BY <1>1, <2>1
  <2> HIDE DEF f, others
  <2>4. PICK k, l \in places : k # l /\ f[k] = f[l]
    BY <1>1, <2>1, <2>2, <2>3, FS_PigeonHole
  <2> QED BY <1>5, <2>4
<1> QED BY <1>1, <1>2, <1>3, <1>7

\* The place that is picked at position i.
Place(i, places) == CHOOSE k \in places : Rank(k, places) = i

\* What is picked comes from the places, each once, and from all of them.
LEMMA PickedPlaces ==
  ASSUME NEW s, NEW n \in Nat, NEW places \in SUBSET (1 .. n)
  PROVE  /\ Cardinality(places) \in Nat
         /\ DOMAIN Picked(s, places) = 1 .. Cardinality(places)
         /\ \A i \in 1 .. Cardinality(places) :
              Place(i, places) \in places /\ Picked(s, places)[i] = s[Place(i, places)]
         /\ \A i, j \in 1 .. Cardinality(places) :
              Place(i, places) = Place(j, places) => i = j
         /\ \A k \in places : \E i \in 1 .. Cardinality(places) : Place(i, places) = k
<1> DEFINE N == Cardinality(places)
<1>1. /\ N \in Nat
      /\ \A k \in places : Rank(k, places) \in 1 .. N
      /\ \A k, l \in places : k < l => Rank(k, places) < Rank(l, places)
      /\ \A i \in 1 .. N : \E k \in places : Rank(k, places) = i
  BY Ranks
<1>2. \A i \in 1 .. N : Place(i, places) \in places /\ Rank(Place(i, places), places) = i
  BY <1>1 DEF Place
<1>3. Picked(s, places) = [i \in 1 .. N |-> s[Place(i, places)]]
  BY DEF Picked, Rank, Place
<1>4. \A i, j \in 1 .. N : Place(i, places) = Place(j, places) => i = j
  BY <1>2
<1>5. ASSUME NEW k \in places PROVE \E i \in 1 .. N : Place(i, places) = k
  <2>1. Rank(k, places) \in 1 .. N
    BY <1>1
  <2>2. PICK i \in 1 .. N : i = Rank(k, places)
    BY <2>1
  <2>3. PICK l \in places : l = Place(i, places) /\ Rank(l, places) = i
    BY <1>2
  <2>4. i \in Int /\ ~(i < i)
    OBVIOUS
  <2>5. ~(l < k) /\ ~(k < l)
    BY <1>1, <2>2, <2>3, <2>4
  <2>6. l \in Int /\ k \in Int
    OBVIOUS
  <2>7. l = k
    BY <2>5, <2>6
  <2> QED BY <2>3, <2>7
<1>6. DOMAIN Picked(s, places) = 1 .. N /\ \A i \in 1 .. N : Picked(s, places)[i] = s[Place(i, places)]
  BY <1>3
<1> QED BY <1>1, <1>2, <1>4, <1>5, <1>6

LEMMA PickedIsSeq ==
  ASSUME NEW S, NEW s \in Seq(S), NEW places \in SUBSET DOMAIN s
  PROVE  Picked(s, places) \in Seq(S)
<1> DEFINE picked == Picked(s, places)
           N == Cardinality(places)
<1>1. Len(s) \in Nat /\ DOMAIN s = 1 .. Len(s)
  OBVIOUS
<1>2. N \in Nat /\ DOMAIN picked = 1 .. N
  BY <1>1, PickedPlaces
<1>3. \A i \in 1 .. N : Place(i, places) \in places /\ picked[i] = s[Place(i, places)]
  BY <1>1, PickedPlaces
<1>4. \A i \in 1 .. N : picked[i] \in S
  BY <1>1, <1>3
<1>5. picked = [i \in 1 .. N |-> picked[i]]
  BY DEF Picked
<1> HIDE DEF picked, N
<1>6. picked \in [1 .. N -> S]
  BY <1>4, <1>5
<1>7. picked \in Seq(S)
  BY <1>2, <1>6
<1> QED BY <1>7 DEF picked

\* Of the places where something is, one is the first.
LEMMA FirstPlace ==
  ASSUME NEW n \in Nat, NEW places \in SUBSET (1 .. n), places # {}
  PROVE  \E k \in places : \A j \in places : k <= j
<1>1. /\ Cardinality(places) \in Nat
      /\ \A k \in places : Rank(k, places) \in 1 .. Cardinality(places)
      /\ \A k, l \in places : k < l => Rank(k, places) < Rank(l, places)
      /\ \A i \in 1 .. Cardinality(places) : \E k \in places : Rank(k, places) = i
  BY Ranks
<1>2. 1 \in 1 .. Cardinality(places)
  <2>1. PICK l \in places : TRUE
    OBVIOUS
  <2>2. Rank(l, places) \in 1 .. Cardinality(places)
    BY <1>1
  <2> QED BY <1>1, <2>2
<1>3. PICK k \in places : Rank(k, places) = 1
  BY <1>1, <1>2
<1>4. ASSUME NEW j \in places PROVE k <= j
  <2>1. Rank(j, places) \in 1 .. Cardinality(places)
    BY <1>1
  <2>2. ~(Rank(j, places) < 1)
    BY <1>1, <2>1
  <2>3. ~(j < k)
    BY <1>1, <1>3, <2>2
  <2> QED BY <2>3
<1> QED BY <1>4

-----------------------------------------------------------------------------
(* The store *)

\* The events of a batch that are stored are those without a receipt, each once.
LEMMA UnseenIs ==
  ASSUME NEW batch \in Seq(Events)
  PROVE  LET new == Unseen(batch) IN
         /\ new \in Seq(Events)
         /\ \A i, j \in DOMAIN new : new[i].id = new[j].id => i = j
         /\ \A i \in DOMAIN new : \E k \in DOMAIN batch : new[i] = batch[k]
         /\ \A i \in DOMAIN new : receipts[new[i].id] = <<>>
         /\ \A k \in DOMAIN batch : receipts[batch[k].id] = <<>> =>
              \E i \in DOMAIN new : new[i].id = batch[k].id
<1> DEFINE first == {i \in DOMAIN batch :
                       receipts[batch[i].id] = <<>> /\ \A j \in 1 .. i - 1 : batch[j].id # batch[i].id}
           new == Unseen(batch)
           N == Cardinality(first)
<1>1. Len(batch) \in Nat /\ DOMAIN batch = 1 .. Len(batch)
  OBVIOUS
<1>2. first \in SUBSET (1 .. Len(batch))
  BY <1>1
<1>3. new = Picked(batch, first)
  BY DEF Unseen
<1>4. new \in Seq(Events)
  BY <1>1, <1>2, <1>3, PickedIsSeq
<1>5. N \in Nat /\ DOMAIN Picked(batch, first) = 1 .. N
  BY <1>1, <1>2, PickedPlaces
<1>6. /\ \A i \in 1 .. N : Place(i, first) \in first /\ Picked(batch, first)[i] = batch[Place(i, first)]
      /\ \A i, j \in 1 .. N : Place(i, first) = Place(j, first) => i = j
      /\ \A k \in first : \E i \in 1 .. N : Place(i, first) = k
  <2> HIDE DEF first
  <2> QED BY <1>1, <1>2, PickedPlaces
<1>7. \A k, l \in first : batch[k].id = batch[l].id => k = l
  <2> SUFFICES ASSUME NEW k \in first, NEW l \in first, batch[k].id = batch[l].id PROVE k = l
    OBVIOUS
  <2>1. k \in Int /\ l \in Int /\ k >= 1 /\ l >= 1
    BY <1>1
  <2>2. CASE k < l
    <3>1. k \in 1 .. l - 1
      BY <2>1, <2>2
    <3> QED BY <3>1
  <2>3. CASE l < k
    <3>1. l \in 1 .. k - 1
      BY <2>1, <2>3
    <3> QED BY <3>1
  <2> QED BY <2>1, <2>2, <2>3
<1>8. ASSUME NEW k \in DOMAIN batch, receipts[batch[k].id] = <<>>
      PROVE  \E l \in first : batch[l].id = batch[k].id
  <2> DEFINE same == {i \in DOMAIN batch : batch[i].id = batch[k].id}
  <2>1. same \in SUBSET (1 .. Len(batch)) /\ same # {}
    BY <1>1
  <2>2. PICK l \in same : \A j \in same : l <= j
    BY <1>1, <2>1, FirstPlace
  <2>3. l \in DOMAIN batch /\ batch[l].id = batch[k].id
    OBVIOUS
  <2>4. ASSUME NEW j \in 1 .. l - 1 PROVE batch[j].id # batch[l].id
    <3>1. j \in DOMAIN batch /\ ~(l <= j)
      BY <1>1, <2>3
    <3> QED BY <2>2, <2>3, <3>1
  <2> QED BY <1>8, <2>3, <2>4
<1>9. \A i \in first : receipts[batch[i].id] = <<>> /\ i \in DOMAIN batch
  OBVIOUS
<1> HIDE DEF first, N
<1>10. DOMAIN new = 1 .. N /\ \A i \in 1 .. N : new[i] = batch[Place(i, first)] /\ Place(i, first) \in first
  BY <1>3, <1>5, <1>6
<1> HIDE DEF new
<1>11. \A i, j \in DOMAIN new : new[i].id = new[j].id => i = j
  BY <1>6, <1>7, <1>10
<1>12. \A i \in DOMAIN new : receipts[new[i].id] = <<>> /\ \E k \in DOMAIN batch : new[i] = batch[k]
  BY <1>9, <1>10
<1>13. ASSUME NEW k \in DOMAIN batch, receipts[batch[k].id] = <<>>
       PROVE  \E i \in DOMAIN new : new[i].id = batch[k].id
  <2>1. PICK l \in first : batch[l].id = batch[k].id
    BY <1>8, <1>13
  <2>2. PICK i \in 1 .. N : Place(i, first) = l
    BY <1>6
  <2> QED BY <1>10, <2>1, <2>2
<1> QED BY <1>4, <1>11, <1>12, <1>13 DEF new

\* What is stored once stays so when rows without an identifier, or of events that have
\* no receipt yet, are added.
LEMMA RowsAdded ==
  ASSUME FeedbackTyped, StoredOnce, NEW new \in Seq(Feedback), rows' = rows \o new,
         DOMAIN receipts' = EventIds,
         \A i, j \in DOMAIN new : new[i].id = new[j].id => i = j \/ new[i].id = NoEvent,
         \A i \in DOMAIN new : new[i].id # NoEvent =>
           receipts[new[i].id] = <<>> /\ receipts'[new[i].id] # <<>>,
         \A e \in EventIds : receipts[e] # <<>> => receipts'[e] # <<>>,
         \A e \in EventIds : receipts'[e] # <<>> =>
           receipts[e] # <<>> \/ \E i \in DOMAIN new : new[i].id = e,
         \A e \in acknowledged' : e \in EventIds /\ receipts'[e] # <<>>
  PROVE  StoredOnce' /\ rows' \in Seq(Feedback)
<1> DEFINE L == Len(rows)
           M == Len(new)
<1>1. L \in Nat /\ M \in Nat /\ rows \in Seq(Feedback)
      /\ DOMAIN rows = 1 .. L /\ DOMAIN new = 1 .. M
  BY DEF FeedbackTyped
<1>2. /\ rows' \in Seq(Feedback) /\ Len(rows') = L + M
      /\ \A i \in 1 .. L + M : rows'[i] = IF i <= L THEN rows[i] ELSE new[i - L]
  BY <1>1, ConcatProperties
<1>3. DOMAIN rows' = 1 .. L + M
  BY <1>2
<1> HIDE DEF L, M
<1>4. \A i \in 1 .. L + M :
        \/ i \in 1 .. L /\ rows'[i] = rows[i]
        \/ \E a \in 1 .. M : i = L + a /\ rows'[i] = new[a]
  <2> SUFFICES ASSUME NEW i \in 1 .. L + M, ~(i \in 1 .. L)
               PROVE  \E a \in 1 .. M : i = L + a /\ rows'[i] = new[a]
    BY <1>1, <1>2
  <2>1. i - L \in 1 .. M /\ i = L + (i - L) /\ ~(i <= L)
    BY <1>1
  <2> QED BY <1>2, <2>1
<1>5. \A i \in 1 .. L : rows[i].id # NoEvent => receipts[rows[i].id] # <<>>
  <2> SUFFICES ASSUME NEW i \in 1 .. L, rows[i].id # NoEvent PROVE receipts[rows[i].id] # <<>>
    OBVIOUS
  <2>1. rows[i] \in Feedback
    BY <1>1
  <2>2. rows[i].id \in EventIds
    BY <2>1 DEF Feedback
  <2> QED BY <1>1, <2>2 DEF StoredOnce
<1>6. ASSUME NEW i \in 1 .. L + M, NEW j \in 1 .. L + M, rows'[i].id = rows'[j].id
      PROVE  i = j \/ rows'[i].id = NoEvent
  <2>1. CASE i \in 1 .. L /\ rows'[i] = rows[i] /\ j \in 1 .. L /\ rows'[j] = rows[j]
    <3>1. i \in DOMAIN rows /\ j \in DOMAIN rows /\ rows[i].id = rows[j].id
      BY <1>1, <1>6, <2>1
    <3>2. i = j \/ rows[i].id = NoEvent
      BY <3>1 DEF StoredOnce
    <3> QED BY <2>1, <3>2
  <2>2. ASSUME NEW a \in 1 .. M, i = L + a, rows'[i] = new[a],
               NEW b \in 1 .. M, j = L + b, rows'[j] = new[b]
        PROVE  i = j \/ rows'[i].id = NoEvent
    <3>1. new[a].id = new[b].id /\ a \in DOMAIN new /\ b \in DOMAIN new
      BY <1>1, <1>6, <2>2
    <3>2. a = b \/ new[a].id = NoEvent
      BY <3>1
    <3> QED BY <2>2, <3>2
  <2>3. ASSUME i \in 1 .. L, rows'[i] = rows[i], NEW b \in 1 .. M, rows'[j] = new[b]
        PROVE  rows'[i].id = NoEvent
    <3>1. rows[i].id = new[b].id /\ b \in DOMAIN new
      BY <1>1, <1>6, <2>3
    <3>2. rows[i].id # NoEvent => receipts[rows[i].id] # <<>>
      BY <1>5, <2>3
    <3>3. new[b].id # NoEvent => receipts[new[b].id] = <<>>
      BY <3>1
    <3> QED BY <2>3, <3>1, <3>2, <3>3
  <2>4. ASSUME j \in 1 .. L, rows'[j] = rows[j], NEW a \in 1 .. M, rows'[i] = new[a]
        PROVE  rows'[i].id = NoEvent
    <3>1. rows[j].id = new[a].id /\ a \in DOMAIN new
      BY <1>1, <1>6, <2>4
    <3>2. rows[j].id # NoEvent => receipts[rows[j].id] # <<>>
      BY <1>5, <2>4
    <3>3. new[a].id # NoEvent => receipts[new[a].id] = <<>>
      BY <3>1
    <3> QED BY <2>4, <3>1, <3>2, <3>3
  <2> QED BY <1>4, <2>1, <2>2, <2>3, <2>4
<1>7. ASSUME NEW e \in EventIds
      PROVE  receipts'[e] # <<>> <=> \E i \in 1 .. L + M : rows'[i].id = e
  <2>1. e # NoEvent
    BY TvAssumption
  <2>2. ASSUME NEW i \in 1 .. L + M, rows'[i].id = e PROVE receipts'[e] # <<>>
    <3>1. CASE i \in 1 .. L /\ rows'[i] = rows[i]
      BY <1>5, <2>1, <2>2, <3>1
    <3>2. CASE \E a \in 1 .. M : rows'[i] = new[a]
      BY <1>1, <2>1, <2>2, <3>2
    <3> QED BY <1>4, <3>1, <3>2
  <2>3. ASSUME receipts'[e] # <<>> PROVE \E i \in 1 .. L + M : rows'[i].id = e
    <3>1. CASE receipts[e] # <<>>
      <4>1. PICK i \in 1 .. L : rows[i].id = e
        BY <1>1, <3>1 DEF StoredOnce
      <4>2. i \in 1 .. L + M /\ i <= L
        BY <1>1
      <4> QED BY <1>2, <4>1, <4>2
    <3>2. CASE \E i \in DOMAIN new : new[i].id = e
      <4>1. PICK i \in 1 .. M : new[i].id = e
        BY <1>1, <3>2
      <4>2. L + i \in 1 .. L + M /\ ~(L + i <= L) /\ (L + i) - L = i
        BY <1>1
      <4>3. rows'[L + i] = new[i]
        BY <1>2, <4>2
      <4> QED BY <4>1, <4>2, <4>3
    <3> QED BY <2>3, <3>1, <3>2
  <2> QED BY <2>2, <2>3
<1>8. StoredOnce'
  BY <1>3, <1>6, <1>7 DEF StoredOnce
<1> QED BY <1>2, <1>8

\* Storing a batch keeps every event stored once, and leaves all its events with a receipt.
LEMMA BatchIsStored ==
  ASSUME FeedbackTyped, StoredOnce, NEW batch \in Seq(Events), StoreBatch(batch),
         acknowledged' = acknowledged
  PROVE  /\ StoredOnce' /\ rows' \in Seq(Feedback) /\ DOMAIN receipts' = EventIds
         /\ \A e \in EventIds : receipts[e] # <<>> => receipts'[e] # <<>>
         /\ \A k \in DOMAIN batch : receipts'[batch[k].id] # <<>>
<1> DEFINE new == Unseen(batch)
           delivered(e) == \E i \in DOMAIN batch : batch[i].id = e
<1>1. rows' = rows \o new
  BY DEF StoreBatch, StoreFeedback
<1>2. receipts' = [e \in EventIds |->
        IF delivered(e)
        THEN <<batch[CHOOSE i \in DOMAIN batch : batch[i].id = e]>> ELSE receipts[e]]
  BY DEF StoreBatch
<1>3. /\ DOMAIN receipts' = EventIds
      /\ \A e \in EventIds : delivered(e) => receipts'[e] # <<>>
      /\ \A e \in EventIds : ~delivered(e) => receipts'[e] = receipts[e]
  BY <1>2
<1>4. \A k \in DOMAIN batch : batch[k].id \in EventIds /\ delivered(batch[k].id)
  <2>1. \A k \in DOMAIN batch : batch[k] \in Events
    OBVIOUS
  <2> QED BY <2>1 DEF Events
<1>5. /\ new \in Seq(Events)
      /\ \A i, j \in DOMAIN new : new[i].id = new[j].id => i = j
      /\ \A i \in DOMAIN new : \E k \in DOMAIN batch : new[i] = batch[k]
      /\ \A i \in DOMAIN new : receipts[new[i].id] = <<>>
      /\ \A k \in DOMAIN batch : receipts[batch[k].id] = <<>> =>
           \E i \in DOMAIN new : new[i].id = batch[k].id
  BY UnseenIs
<1> HIDE DEF new
<1>6. new \in Seq(Feedback)
  <2>1. Events \subseteq Feedback
    BY DEF Events
  <2> QED BY <1>5, <2>1
<1>7. \A i \in DOMAIN new : receipts'[new[i].id] # <<>>
  <2> SUFFICES ASSUME NEW i \in DOMAIN new PROVE receipts'[new[i].id] # <<>>
    OBVIOUS
  <2>1. PICK k \in DOMAIN batch : new[i] = batch[k]
    BY <1>5
  <2> HIDE DEF delivered
  <2> QED BY <1>3, <1>4, <2>1
<1>8. \A e \in EventIds : receipts'[e] # <<>> =>
        receipts[e] # <<>> \/ \E i \in DOMAIN new : new[i].id = e
  <2> SUFFICES ASSUME NEW e \in EventIds, receipts'[e] # <<>>, receipts[e] = <<>>
               PROVE  \E i \in DOMAIN new : new[i].id = e
    OBVIOUS
  <2>1. delivered(e)
    <3> HIDE DEF delivered
    <3> QED BY <1>3
  <2>2. PICK k \in DOMAIN batch : batch[k].id = e
    BY <2>1
  <2> QED BY <1>5, <2>2
<1>9. \A e \in EventIds : receipts[e] # <<>> => receipts'[e] # <<>>
  <2> HIDE DEF delivered
  <2> QED BY <1>3
<1>10. \A e \in acknowledged' : e \in EventIds /\ receipts'[e] # <<>>
  BY <1>9 DEF FeedbackTyped, StoredOnce
<1> HIDE DEF delivered
<1>11. StoredOnce' /\ rows' \in Seq(Feedback)
  BY <1>1, <1>3, <1>5, <1>6, <1>7, <1>8, <1>9, <1>10, RowsAdded
<1> QED BY <1>3, <1>4, <1>9, <1>11

\* A choice that was posted at once is a row without an identifier.
LEMMA ChoiceIsStored ==
  ASSUME FeedbackTyped, StoredOnce, NEW body, Single(body), StoreFeedback(body),
         UNCHANGED <<receipts, acknowledged>>
  PROVE  StoredOnce' /\ rows' \in Seq(Feedback)
<1>1. PICK f \in Feedback : f.id = NoEvent /\ body = <<f>>
  BY DEF Single
<1>2. body \in Seq(Feedback) /\ \A i \in DOMAIN body : body[i].id = NoEvent
  BY <1>1
<1>3. rows' = rows \o body
  BY DEF StoreFeedback
<1>4. /\ DOMAIN receipts' = EventIds
      /\ \A e \in EventIds : receipts'[e] = receipts[e]
      /\ \A e \in acknowledged' : e \in EventIds /\ receipts'[e] # <<>>
  BY DEF FeedbackTyped, StoredOnce
<1> QED BY <1>2, <1>3, <1>4, RowsAdded

-----------------------------------------------------------------------------
(* The steps *)

\* A page that stops waiting leaves no request and no answer of the kinds it waited for.
LEMMA ForgetKeeps ==
  ASSUME FeedbackTyped, NEW p \in Pages, NEW kinds, Forget(p, kinds)
  PROVE  /\ \A r \in wire' :
              /\ r = Request(r.from, r.kind, r.body) /\ r.from \in Pages \cup {NoPage}
              /\ \/ r.kind = "submit" /\ Single(r.body)
                 \/ r.kind = "sync" /\ r.body \in Seq(Events)
         /\ \A r \in wire' : r.from \in Pages => r \in wire /\ ~(r.from = p /\ r.kind \in kinds)
         /\ answers' \subseteq answers
         /\ \A k \in kinds : Answer(p, k) \notin answers'
<1>1. wire' = {IF r.from = p /\ r.kind \in kinds THEN [r EXCEPT !.from = NoPage] ELSE r :
                 r \in wire}
  BY DEF Forget
<1>2. answers' = {a \in answers : ~(a.to = p /\ a.kind \in kinds)}
  BY DEF Forget
<1>3. \A k \in kinds : Answer(p, k) \notin answers'
  BY <1>2 DEF Answer
<1>4. ASSUME NEW r \in wire'
      PROVE  /\ r = Request(r.from, r.kind, r.body) /\ r.from \in Pages \cup {NoPage}
             /\ \/ r.kind = "submit" /\ Single(r.body)
                \/ r.kind = "sync" /\ r.body \in Seq(Events)
             /\ r.from \in Pages => r \in wire /\ ~(r.from = p /\ r.kind \in kinds)
  <2>1. PICK q \in wire :
          r = IF q.from = p /\ q.kind \in kinds THEN [q EXCEPT !.from = NoPage] ELSE q
    BY <1>1
  <2>2. /\ q = Request(q.from, q.kind, q.body) /\ q.from \in Pages \cup {NoPage}
        /\ \/ q.kind = "submit" /\ Single(q.body)
           \/ q.kind = "sync" /\ q.body \in Seq(Events)
    BY DEF FeedbackTyped
  <2>3. CASE q.from = p /\ q.kind \in kinds
    <3>1. r.from = NoPage /\ r.kind = q.kind /\ r.body = q.body /\ r = Request(NoPage, q.kind, q.body)
      BY <2>1, <2>2, <2>3 DEF Request
    <3>2. NoPage \notin Pages
      BY TvAssumption
    <3> QED BY <2>2, <3>1, <3>2
  <2>4. CASE ~(q.from = p /\ q.kind \in kinds)
    BY <2>1, <2>2, <2>4
  <2> QED BY <2>3, <2>4
<1> QED BY <1>2, <1>3, <1>4

\* Forgetting only what was posted, a page keeps what it knows of its flush.
LEMMA ForgetSubmits ==
  ASSUME FeedbackTyped, FlushesAreTrue, NEW p \in Pages, Forget(p, {"submit"}),
         UNCHANGED <<flushing, receipts>>
  PROVE  FlushesAreTrue'
<1>1. /\ \A r \in wire' : r.from \in Pages => r \in wire
      /\ answers' \subseteq answers
  BY ForgetKeeps
<1> QED BY <1>1 DEF FlushesAreTrue

\* Forgetting its flush, a page no longer waits for an answer to it.
LEMMA ForgetFlush ==
  ASSUME FeedbackTyped, FlushesAreTrue, NEW p \in Pages, NEW kinds, "sync" \in kinds,
         Forget(p, kinds), flushing' = [flushing EXCEPT ![p] = <<>>], UNCHANGED receipts
  PROVE  /\ FlushesAreTrue'
         /\ DOMAIN flushing' = Pages /\ \A q \in Pages : flushing'[q] \in Seq(Events)
<1>1. /\ \A r \in wire' : r.from \in Pages => r \in wire /\ ~(r.from = p /\ r.kind \in kinds)
      /\ answers' \subseteq answers
      /\ Answer(p, "sync") \notin answers'
  BY ForgetKeeps
<1>2. DOMAIN flushing = Pages /\ \A q \in Pages : flushing[q] \in Seq(Events)
  BY DEF FeedbackTyped
<1>3. /\ DOMAIN flushing' = Pages
      /\ flushing'[p] = <<>>
      /\ \A q \in Pages : q # p => flushing'[q] = flushing[q]
  BY <1>2
<1>4. \A q \in Pages : flushing'[q] \in Seq(Events)
  <2>1. <<>> \in Seq(Events)
    OBVIOUS
  <2> QED BY <1>2, <1>3, <2>1
<1>5. \A r \in wire' : r.kind = "sync" /\ r.from \in Pages =>
        flushing'[r.from] = r.body /\ r.body # <<>>
  BY <1>1, <1>3 DEF FlushesAreTrue
<1>6. ASSUME NEW q \in Pages, Answer(q, "sync") \in answers'
      PROVE  /\ flushing'[q] # <<>>
             /\ \A i \in DOMAIN flushing'[q] : receipts'[flushing'[q][i].id] # <<>>
  <2>1. q # p
    BY <1>1, <1>6
  <2> QED BY <1>1, <1>3, <1>6, <2>1 DEF FlushesAreTrue
<1> QED BY <1>3, <1>4, <1>5, <1>6 DEF FlushesAreTrue

\* StoredOnce survives a step that leaves the store and what was acknowledged alone.
LEMMA StoreUntouched ==
  ASSUME StoredOnce, UNCHANGED <<rows, receipts, acknowledged>>
  PROVE  StoredOnce'
BY DEF StoredOnce

LEMMA ChooseKeeps ==
  ASSUME FeedbackInv, NEW p \in Pages, NEW f \in Offers[p], Choose(p, f)
  PROVE  FeedbackInv'
<1> USE DEF FeedbackInv
<1>1. /\ posted' = [posted EXCEPT ![p] = <<f>>]
      /\ wire' = wire \cup {Request(p, "submit", <<f>>)}
      /\ UNCHANGED <<rows, receipts, acknowledged, outbox, flushing, answers, used>>
  BY DEF Choose, storeVars
<1>2. StoredOnce'
  BY <1>1, StoreUntouched
<1>3. Single(<<f>>)
  BY TvAssumption DEF Single
<1> DEFINE q == Request(p, "submit", <<f>>)
<1>4. /\ q.from = p /\ q.kind = "submit" /\ q.body = <<f>>
      /\ q = Request(q.from, q.kind, q.body)
  BY DEF Request
<1> HIDE DEF q
<1>5. wire' = wire \cup {q}
  BY <1>1 DEF q
<1>6. FlushesAreTrue'
  BY <1>1, <1>4, <1>5 DEF FlushesAreTrue
<1>7. /\ DOMAIN posted = Pages
      /\ \A o \in Pages : posted[o] = <<>> \/ Single(posted[o])
  BY DEF FeedbackTyped
<1>8. DOMAIN posted' = Pages /\ \A o \in Pages : posted'[o] = <<>> \/ Single(posted'[o])
  BY <1>1, <1>3, <1>7
<1>9. \A r \in wire' :
        /\ r = Request(r.from, r.kind, r.body) /\ r.from \in Pages \cup {NoPage}
        /\ \/ r.kind = "submit" /\ Single(r.body)
           \/ r.kind = "sync" /\ r.body \in Seq(Events)
  BY <1>3, <1>4, <1>5 DEF FeedbackTyped
<1>10. FeedbackTyped'
  BY <1>1, <1>8, <1>9 DEF FeedbackTyped
<1> QED BY <1>2, <1>6, <1>10

\* A page that gives up what it posted, for whatever reason, and queues it or not.
LEMMA PostEnds ==
  ASSUME FeedbackInv, NEW p \in Pages, Forget(p, {"submit"}),
         posted' = [posted EXCEPT ![p] = <<>>],
         outbox' \in Seq(Events), used' \subseteq PageIds,
         UNCHANGED <<storeVars, flushing, acknowledged>>
  PROVE  FeedbackInv'
<1> USE DEF FeedbackInv
<1>1. UNCHANGED <<rows, receipts, acknowledged, flushing>>
  BY DEF storeVars
<1>2. StoredOnce'
  BY <1>1, StoreUntouched
<1>3. FlushesAreTrue'
  BY <1>1, ForgetSubmits
<1>4. /\ \A r \in wire' :
           /\ r = Request(r.from, r.kind, r.body) /\ r.from \in Pages \cup {NoPage}
           /\ \/ r.kind = "submit" /\ Single(r.body)
              \/ r.kind = "sync" /\ r.body \in Seq(Events)
      /\ answers' \subseteq answers
  BY ForgetKeeps
<1>5. DOMAIN posted = Pages /\ \A o \in Pages : posted[o] = <<>> \/ Single(posted[o])
  BY DEF FeedbackTyped
<1>6. DOMAIN posted' = Pages /\ \A o \in Pages : posted'[o] = <<>> \/ Single(posted'[o])
  BY <1>5
<1>7. FeedbackTyped'
  BY <1>1, <1>4, <1>6 DEF FeedbackTyped
<1> QED BY <1>2, <1>3, <1>7

LEMMA PostSucceedsKeeps ==
  ASSUME FeedbackInv, NEW p \in Pages, PostSucceeds(p) PROVE FeedbackInv'
<1>1. outbox' \in Seq(Events) /\ used' \subseteq PageIds
  BY DEF PostSucceeds, FeedbackInv, FeedbackTyped
<1> QED BY <1>1, PostEnds DEF PostSucceeds

LEMMA PostFailsKeeps ==
  ASSUME FeedbackInv, NEW p \in Pages, PostFails(p) PROVE FeedbackInv'
<1>1. PICK e \in PageIds \ used :
        /\ outbox' = Append(outbox, [posted[p][1] EXCEPT !.id = e])
        /\ used' = used \cup {e}
  BY DEF PostFails
<1>2. Single(posted[p])
  BY DEF PostFails, FeedbackInv, FeedbackTyped
<1>3. PICK f \in Feedback : posted[p] = <<f>>
  BY <1>2 DEF Single
<1>4. posted[p][1] = f /\ e \in EventIds
  BY <1>3 DEF PageIds
<1>5. [f EXCEPT !.id = e] \in Events
  BY <1>4 DEF Feedback, Events
<1>6. outbox' \in Seq(Events) /\ used' \subseteq PageIds
  BY <1>1, <1>4, <1>5 DEF FeedbackInv, FeedbackTyped
<1> QED BY <1>6, PostEnds DEF PostFails

LEMMA BeginFlushKeeps ==
  ASSUME FeedbackInv, NEW p \in Pages, BeginFlush(p) PROVE FeedbackInv'
<1> USE DEF FeedbackInv
<1> DEFINE q == Request(p, "sync", outbox)
<1>1. /\ flushing[p] = <<>> /\ outbox # <<>>
      /\ flushing' = [flushing EXCEPT ![p] = outbox]
      /\ wire' = wire \cup {q}
      /\ UNCHANGED <<rows, receipts, acknowledged, outbox, posted, answers, used>>
  BY DEF BeginFlush, storeVars
<1>2. StoredOnce'
  BY <1>1, StoreUntouched
<1>3. /\ q.from = p /\ q.kind = "sync" /\ q.body = outbox
      /\ q = Request(q.from, q.kind, q.body)
  BY DEF Request
<1> HIDE DEF q
<1>4. /\ outbox \in Seq(Events)
      /\ DOMAIN flushing = Pages /\ \A o \in Pages : flushing[o] \in Seq(Events)
  BY DEF FeedbackTyped
<1>5. /\ DOMAIN flushing' = Pages /\ flushing'[p] = outbox
      /\ \A o \in Pages : o # p => flushing'[o] = flushing[o]
  BY <1>1, <1>4
<1>6. \A r \in wire : r.kind = "sync" => r.from # p
  BY <1>1 DEF FlushesAreTrue
<1>7. \A r \in wire' : r.kind = "sync" /\ r.from \in Pages =>
        flushing'[r.from] = r.body /\ r.body # <<>>
  <2> SUFFICES ASSUME NEW r \in wire', r.kind = "sync", r.from \in Pages
               PROVE  flushing'[r.from] = r.body /\ r.body # <<>>
    OBVIOUS
  <2>1. CASE r = q
    BY <1>1, <1>3, <1>5, <2>1
  <2>2. CASE r \in wire
    BY <1>5, <1>6, <2>2 DEF FlushesAreTrue
  <2> QED BY <1>1, <2>1, <2>2
<1>8. ASSUME NEW o \in Pages, Answer(o, "sync") \in answers'
      PROVE  /\ flushing'[o] # <<>>
             /\ \A i \in DOMAIN flushing'[o] : receipts'[flushing'[o][i].id] # <<>>
  <2>1. Answer(o, "sync") \in answers
    BY <1>1, <1>8
  <2>2. /\ flushing[o] # <<>>
        /\ \A i \in DOMAIN flushing[o] : receipts[flushing[o][i].id] # <<>>
    BY <2>1 DEF FlushesAreTrue
  <2>3. o # p
    BY <1>1, <2>2
  <2>4. flushing'[o] = flushing[o] /\ receipts' = receipts
    BY <1>1, <1>5, <2>3
  <2> QED BY <2>2, <2>4
<1>9. FlushesAreTrue'
  BY <1>7, <1>8 DEF FlushesAreTrue
<1>10. \A r \in wire' :
         /\ r = Request(r.from, r.kind, r.body) /\ r.from \in Pages \cup {NoPage}
         /\ \/ r.kind = "submit" /\ Single(r.body)
            \/ r.kind = "sync" /\ r.body \in Seq(Events)
  BY <1>1, <1>3, <1>4 DEF FeedbackTyped
<1>11. \A o \in Pages : flushing'[o] \in Seq(Events)
  BY <1>4, <1>5
<1>12. FeedbackTyped'
  BY <1>1, <1>5, <1>10, <1>11 DEF FeedbackTyped
<1> QED BY <1>2, <1>9, <1>12

\* The answer a page takes says that all it posted is stored, so it may be removed.
LEMMA EndFlushKeeps ==
  ASSUME FeedbackInv, NEW p \in Pages, EndFlush(p) PROVE FeedbackInv'
<1> USE DEF FeedbackInv
<1> DEFINE told == {flushing[p][i].id : i \in DOMAIN flushing[p]}
<1>1. /\ Answer(p, "sync") \in answers
      /\ outbox' = Remaining(p, told)
      /\ acknowledged' = acknowledged \cup told
      /\ flushing' = [flushing EXCEPT ![p] = <<>>]
      /\ Forget(p, {"sync"})
      /\ UNCHANGED <<rows, receipts, posted, used>>
  BY DEF EndFlush, storeVars
<1>2. flushing[p] \in Seq(Events)
  BY DEF FeedbackTyped
<1>3. \A i \in DOMAIN flushing[p] : receipts[flushing[p][i].id] # <<>>
  BY <1>1 DEF FlushesAreTrue
<1>4. told \subseteq EventIds /\ \A e \in told : receipts[e] # <<>>
  <2>1. \A i \in DOMAIN flushing[p] : flushing[p][i] \in Events
    BY <1>2
  <2> QED BY <1>3, <2>1 DEF Events
<1>5. outbox' \in Seq(Events)
  BY <1>1, <1>2, PickedIsSeq DEF Remaining
<1> HIDE DEF told
<1>6. StoredOnce'
  BY <1>1, <1>4 DEF StoredOnce
<1>7. /\ FlushesAreTrue'
      /\ DOMAIN flushing' = Pages /\ \A q \in Pages : flushing'[q] \in Seq(Events)
  BY <1>1, ForgetFlush
<1>8. /\ \A r \in wire' :
           /\ r = Request(r.from, r.kind, r.body) /\ r.from \in Pages \cup {NoPage}
           /\ \/ r.kind = "submit" /\ Single(r.body)
              \/ r.kind = "sync" /\ r.body \in Seq(Events)
      /\ answers' \subseteq answers
  BY <1>1, ForgetKeeps
<1>9. FeedbackTyped'
  BY <1>1, <1>4, <1>5, <1>7, <1>8 DEF FeedbackTyped
<1> QED BY <1>6, <1>7, <1>9

\* A page that gives up its flush, and perhaps what it posted.
LEMMA FlushEnds ==
  ASSUME FeedbackInv, NEW p \in Pages, NEW kinds, "sync" \in kinds, Forget(p, kinds),
         flushing' = [flushing EXCEPT ![p] = <<>>],
         posted' \in {posted, [posted EXCEPT ![p] = <<>>]},
         UNCHANGED <<storeVars, outbox, used, acknowledged>>
  PROVE  FeedbackInv'
<1> USE DEF FeedbackInv
<1>1. UNCHANGED <<rows, receipts, acknowledged, outbox, used>>
  BY DEF storeVars
<1>2. StoredOnce'
  BY <1>1, StoreUntouched
<1>3. /\ FlushesAreTrue'
      /\ DOMAIN flushing' = Pages /\ \A q \in Pages : flushing'[q] \in Seq(Events)
  BY <1>1, ForgetFlush
<1>4. /\ \A r \in wire' :
           /\ r = Request(r.from, r.kind, r.body) /\ r.from \in Pages \cup {NoPage}
           /\ \/ r.kind = "submit" /\ Single(r.body)
              \/ r.kind = "sync" /\ r.body \in Seq(Events)
      /\ answers' \subseteq answers
  BY ForgetKeeps
<1>5. DOMAIN posted = Pages /\ \A o \in Pages : posted[o] = <<>> \/ Single(posted[o])
  BY DEF FeedbackTyped
<1>6. DOMAIN posted' = Pages /\ \A o \in Pages : posted'[o] = <<>> \/ Single(posted'[o])
  BY <1>5
<1>7. FeedbackTyped'
  BY <1>1, <1>3, <1>4, <1>6 DEF FeedbackTyped
<1> QED BY <1>2, <1>3, <1>7

LEMMA FlushFailsKeeps ==
  ASSUME FeedbackInv, NEW p \in Pages, FlushFails(p) PROVE FeedbackInv'
BY FlushEnds DEF FlushFails

LEMMA ClosePageKeeps ==
  ASSUME FeedbackInv, NEW p \in Pages, ClosePage(p) PROVE FeedbackInv'
BY FlushEnds DEF ClosePage

\* Requests that are gone change nothing for those that stay.
LEMMA RefuseRequestKeeps ==
  ASSUME FeedbackInv, NEW r \in wire, RefuseRequest(r) PROVE FeedbackInv'
<1>1. /\ wire' \subseteq wire
      /\ UNCHANGED <<outbox, posted, flushing, used, acknowledged, rows, receipts, answers>>
  BY DEF RefuseRequest, clientVars, storeVars
<1>2. StoredOnce'
  BY <1>1, StoreUntouched DEF FeedbackInv
<1>3. FlushesAreTrue'
  BY <1>1 DEF FeedbackInv, FlushesAreTrue
<1>4. FeedbackTyped'
  BY <1>1 DEF FeedbackInv, FeedbackTyped
<1> QED BY <1>2, <1>3, <1>4 DEF FeedbackInv

\* The answer to a request is for the page that waits for it.
LEMMA ReplyIs ==
  ASSUME FeedbackTyped, NEW r \in wire, Reply(r)
  PROVE  /\ \A a \in answers' : Addressed(a)
         /\ \A p \in Pages : Answer(p, "sync") \in answers' =>
              Answer(p, "sync") \in answers \/ (r.from = p /\ r.kind = "sync")
<1>1. answers' = IF r.from = NoPage THEN answers ELSE answers \cup {Answer(r.from, r.kind)}
  BY DEF Reply
<1>2. r.from \in Pages \cup {NoPage} /\ r.kind \in {"submit", "sync"}
  BY DEF FeedbackTyped
<1> DEFINE new == Answer(r.from, r.kind)
<1>3. new.to = r.from /\ new.kind = r.kind /\ new = Answer(new.to, new.kind)
  BY DEF Answer
<1>4. \A p : Answer(p, "sync") = new => p = r.from /\ r.kind = "sync"
  BY DEF Answer
<1> HIDE DEF new
<1>5. \A a \in answers' : a \in answers \/ (r.from # NoPage /\ a = new)
  BY <1>1 DEF new
<1>6. \A a \in answers' : Addressed(a)
  BY <1>2, <1>3, <1>5 DEF FeedbackTyped, Addressed
<1>7. \A p \in Pages : Answer(p, "sync") \in answers' =>
        Answer(p, "sync") \in answers \/ (r.from = p /\ r.kind = "sync")
  BY <1>4, <1>5
<1> QED BY <1>6, <1>7

LEMMA SubmitKeeps ==
  ASSUME FeedbackInv, NEW r \in wire, Submit(r) PROVE FeedbackInv'
<1> USE DEF FeedbackInv
<1>1. /\ r.kind = "submit" /\ wire' = wire \ {r}
      /\ StoreFeedback(r.body) /\ Reply(r)
      /\ UNCHANGED <<outbox, posted, flushing, used, acknowledged, receipts>>
  BY DEF Submit, clientVars
<1>2. Single(r.body)
  BY <1>1 DEF FeedbackTyped
<1>3. StoredOnce' /\ rows' \in Seq(Feedback)
  BY <1>1, <1>2, ChoiceIsStored
<1>4. /\ \A a \in answers' : Addressed(a)
      /\ \A p \in Pages : Answer(p, "sync") \in answers' => Answer(p, "sync") \in answers
  BY <1>1, ReplyIs
<1>5. FlushesAreTrue'
  BY <1>1, <1>4 DEF FlushesAreTrue
<1>6. FeedbackTyped'
  BY <1>1, <1>3, <1>4 DEF FeedbackTyped
<1> QED BY <1>3, <1>5, <1>6

LEMMA SyncKeeps ==
  ASSUME FeedbackInv, NEW r \in wire, Sync(r) PROVE FeedbackInv'
<1> USE DEF FeedbackInv
<1>1. /\ r.kind = "sync" /\ wire' = wire \ {r}
      /\ StoreBatch(r.body) /\ Reply(r)
      /\ UNCHANGED <<outbox, posted, flushing, used, acknowledged>>
  BY DEF Sync, clientVars
<1>2. r.body \in Seq(Events)
  BY <1>1 DEF FeedbackTyped
<1>3. /\ StoredOnce' /\ rows' \in Seq(Feedback) /\ DOMAIN receipts' = EventIds
      /\ \A e \in EventIds : receipts[e] # <<>> => receipts'[e] # <<>>
      /\ \A k \in DOMAIN r.body : receipts'[r.body[k].id] # <<>>
  BY <1>1, <1>2, BatchIsStored
<1>4. /\ \A a \in answers' : Addressed(a)
      /\ \A p \in Pages : Answer(p, "sync") \in answers' =>
           Answer(p, "sync") \in answers \/ r.from = p
  BY <1>1, ReplyIs
<1>5. ASSUME NEW p \in Pages, Answer(p, "sync") \in answers'
      PROVE  /\ flushing[p] # <<>>
             /\ \A i \in DOMAIN flushing[p] : receipts'[flushing[p][i].id] # <<>>
  <2>1. CASE r.from = p
    <3>1. flushing[p] = r.body /\ r.body # <<>>
      BY <1>1, <2>1 DEF FlushesAreTrue
    <3> QED BY <1>3, <3>1
  <2>2. CASE Answer(p, "sync") \in answers
    <3>1. /\ flushing[p] # <<>>
          /\ \A i \in DOMAIN flushing[p] : receipts[flushing[p][i].id] # <<>>
      BY <2>2 DEF FlushesAreTrue
    <3>2. flushing[p] \in Seq(Events)
      BY DEF FeedbackTyped
    <3>3. \A i \in DOMAIN flushing[p] : flushing[p][i].id \in EventIds
      <4>1. \A i \in DOMAIN flushing[p] : flushing[p][i] \in Events
        BY <3>2
      <4> QED BY <4>1 DEF Events
    <3> QED BY <1>3, <3>1, <3>3
  <2> QED BY <1>4, <1>5, <2>1, <2>2
<1>6. FlushesAreTrue'
  BY <1>1, <1>5 DEF FlushesAreTrue
<1>7. FeedbackTyped'
  BY <1>1, <1>3, <1>4 DEF FeedbackTyped
<1> QED BY <1>3, <1>6, <1>7

LEMMA NativeSyncKeeps ==
  ASSUME FeedbackInv, NEW batch \in NativeBatches, NativeSync(batch) PROVE FeedbackInv'
<1> USE DEF FeedbackInv
<1>1. /\ StoreBatch(batch)
      /\ UNCHANGED <<outbox, posted, flushing, used, acknowledged, wire, answers>>
  BY DEF NativeSync, clientVars
<1>2. batch \in Seq(Events)
  BY TvAssumption DEF Events
<1>3. /\ StoredOnce' /\ rows' \in Seq(Feedback) /\ DOMAIN receipts' = EventIds
      /\ \A e \in EventIds : receipts[e] # <<>> => receipts'[e] # <<>>
  BY <1>1, <1>2, BatchIsStored
<1>4. ASSUME NEW p \in Pages, Answer(p, "sync") \in answers
      PROVE  /\ flushing[p] # <<>>
             /\ \A i \in DOMAIN flushing[p] : receipts'[flushing[p][i].id] # <<>>
  <2>1. /\ flushing[p] # <<>>
        /\ \A i \in DOMAIN flushing[p] : receipts[flushing[p][i].id] # <<>>
    BY <1>4 DEF FlushesAreTrue
  <2>2. flushing[p] \in Seq(Events)
    BY DEF FeedbackTyped
  <2>3. \A i \in DOMAIN flushing[p] : flushing[p][i].id \in EventIds
    <3>1. \A i \in DOMAIN flushing[p] : flushing[p][i] \in Events
      BY <2>2
    <3> QED BY <3>1 DEF Events
  <2> QED BY <1>3, <2>1, <2>3
<1>5. FlushesAreTrue'
  BY <1>1, <1>4 DEF FlushesAreTrue
<1>6. FeedbackTyped'
  BY <1>1, <1>3 DEF FeedbackTyped
<1> QED BY <1>3, <1>5, <1>6

\* The settings do not touch what was stored of the choices.
LEMMA SavePreferenceKeeps ==
  ASSUME FeedbackInv, NEW p \in Saves, SavePreference(p) PROVE FeedbackInv'
<1>1. UNCHANGED <<outbox, posted, flushing, used, acknowledged, rows, receipts, wire, answers>>
  BY DEF SavePreference, clientVars
<1>2. StoredOnce'
  BY <1>1, StoreUntouched DEF FeedbackInv
<1>3. FlushesAreTrue'
  BY <1>1 DEF FeedbackInv, FlushesAreTrue
<1>4. FeedbackTyped'
  BY <1>1 DEF FeedbackInv, FeedbackTyped
<1> QED BY <1>2, <1>3, <1>4 DEF FeedbackInv

LEMMA FeedbackStart == TvInit => FeedbackInv
<1> SUFFICES ASSUME TvInit PROVE FeedbackInv
  OBVIOUS
<1>1. <<>> \in Seq(Events) /\ <<>> \in Seq(Feedback)
  OBVIOUS
<1>2. FeedbackTyped
  BY <1>1 DEF TvInit, FeedbackTyped
<1>3. FlushesAreTrue
  BY DEF TvInit, FlushesAreTrue
<1>4. StoredOnce
  BY DEF TvInit, StoredOnce
<1> QED BY <1>2, <1>3, <1>4 DEF FeedbackInv

LEMMA FeedbackStep == FeedbackInv /\ [TvNext]_tvVars => FeedbackInv'
<1> SUFFICES ASSUME FeedbackInv, [TvNext]_tvVars PROVE FeedbackInv'
  OBVIOUS
<1>1. ASSUME NEW p \in Saves, SavePreference(p) PROVE FeedbackInv'
  BY <1>1, SavePreferenceKeeps
<1>2. ASSUME NEW p \in Pages, NEW f \in Offers[p], Choose(p, f) PROVE FeedbackInv'
  BY <1>2, ChooseKeeps
<1>3. ASSUME NEW p \in Pages,
             \/ PostSucceeds(p) \/ PostFails(p) \/ BeginFlush(p)
             \/ EndFlush(p) \/ FlushFails(p) \/ ClosePage(p)
      PROVE  FeedbackInv'
  BY <1>3, PostSucceedsKeeps, PostFailsKeeps, BeginFlushKeeps, EndFlushKeeps, FlushFailsKeeps,
     ClosePageKeeps
<1>4. ASSUME NEW r \in wire, Submit(r) \/ Sync(r) \/ RefuseRequest(r) PROVE FeedbackInv'
  BY <1>4, SubmitKeeps, SyncKeeps, RefuseRequestKeeps
<1>5. ASSUME NEW batch \in NativeBatches, NativeSync(batch) PROVE FeedbackInv'
  BY <1>5, NativeSyncKeeps
<1>6. CASE UNCHANGED tvVars
  <2>1. UNCHANGED <<outbox, posted, flushing, used, acknowledged, rows, receipts, wire, answers>>
    BY <1>6 DEF tvVars
  <2>2. StoredOnce'
    BY <2>1, StoreUntouched DEF FeedbackInv
  <2>3. FlushesAreTrue'
    BY <2>1 DEF FeedbackInv, FlushesAreTrue
  <2>4. FeedbackTyped'
    BY <2>1 DEF FeedbackInv, FeedbackTyped
  <2> QED BY <2>2, <2>3, <2>4 DEF FeedbackInv
<1> QED BY <1>1, <1>2, <1>3, <1>4, <1>5, <1>6 DEF TvNext

\* However often an event is delivered, by whichever page or native client, it is stored
\* once, and an event whose storage a page was told of, and which it therefore removed from
\* the outbox, is stored.
THEOREM EventsAreStoredOnce == TvSpec => []StoredOnce
<1>1. TvInit => FeedbackInv
  BY FeedbackStart
<1>2. FeedbackInv /\ [TvNext]_tvVars => FeedbackInv'
  BY FeedbackStep
<1>3. FeedbackInv => StoredOnce
  BY DEF FeedbackInv
<1> QED BY <1>1, <1>2, <1>3, PTL DEF TvSpec

-----------------------------------------------------------------------------
(* The policy *)

\* What a choice settles: the TV to keep, or only that nothing is switched to unasked.
Governs(f, policy) ==
  IF f.choice = "keep_this_tv" THEN policy = [mode |-> "keep_this_tv", tv |-> f.tv]
  ELSE policy.mode = "ask_before_switching"

\* A policy agrees with the last choice among the rows from b + 1 to n.
Followed(policy, s, b, n) ==
  \A i \in b + 1 .. n :
    s[i].choice # "rating" /\ (\A j \in i + 1 .. n : s[j].choice = "rating")
      => Governs(s[i], policy)

PolicyInv ==
  /\ FeedbackInv
  /\ preference \in Preferences
  /\ saved.before \in 0 .. Len(rows)
  /\ Followed(preference, rows, saved.before, Len(rows))

\* The recursive function of Outcome exists: where it would first fail it can be extended.
LEMMA OutcomeInSteps ==
  ASSUME NEW policy, NEW new \in Seq(Feedback)
  PROVE  \E after : /\ after[0] = policy
                    /\ \A i \in 1 .. Len(new) : after[i] = Effect(after[i - 1], new[i])
                    /\ Outcome(policy, new) = after[Len(new)]
<1> DEFINE n == Len(new)
           F(f, m) == [i \in 0 .. m |-> IF i = 0 THEN policy ELSE Effect(f[i - 1], new[i])]
           bad == {m \in 1 .. n : \A f : f # F(f, m)}
<1>1. n \in Nat
  OBVIOUS
<1> HIDE DEF n
<1>2. \E f : f = F(f, 0)
  <2> DEFINE g == [i \in 0 .. 0 |-> policy]
  <2>1. g = F(g, 0)
    OBVIOUS
  <2> QED BY <2>1
<1>3. bad = {}
  <2> SUFFICES ASSUME bad # {} PROVE FALSE
    OBVIOUS
  <2>1. bad \in SUBSET (1 .. n)
    OBVIOUS
  <2>2. PICK m \in bad : \A k \in bad : m <= k
    BY <1>1, <2>1, FirstPlace
  <2>3. m \in 1 .. n /\ \A f : f # F(f, m)
    OBVIOUS
  <2> HIDE DEF F
  <2>4. \E g : g = F(g, m - 1)
    <3>1. CASE m - 1 = 0
      BY <1>2, <3>1
    <3>2. CASE m - 1 # 0
      <4>1. m - 1 \in 1 .. n /\ ~(m <= m - 1)
        BY <1>1, <2>3, <3>2
      <4>2. m - 1 \notin bad
        BY <2>2, <4>1
      <4> QED BY <4>1, <4>2
    <3> QED BY <3>1, <3>2
  <2>5. PICK g : g = F(g, m - 1)
    BY <2>4
  <2> DEFINE h == F(g, m)
  <2> USE DEF F
  <2>6. g[0] = policy /\ \A i \in 1 .. m - 1 : g[i] = Effect(g[i - 1], new[i])
    <3>1. \A i \in 0 .. m - 1 : g[i] = IF i = 0 THEN policy ELSE Effect(g[i - 1], new[i])
      BY <2>5
    <3>2. 0 \in 0 .. m - 1 /\ \A i \in 1 .. m - 1 : i \in 0 .. m - 1 /\ i # 0
      BY <1>1, <2>3
    <3> QED BY <3>1, <3>2
  <2>7. h[0] = policy /\ \A i \in 1 .. m : h[i] = Effect(g[i - 1], new[i])
    <3>1. \A i \in 0 .. m : h[i] = IF i = 0 THEN policy ELSE Effect(g[i - 1], new[i])
      OBVIOUS
    <3>2. 0 \in 0 .. m /\ \A i \in 1 .. m : i \in 0 .. m /\ i # 0
      BY <1>1, <2>3
    <3> QED BY <3>1, <3>2
  <2>8. \A i \in 0 .. m - 1 : h[i] = g[i]
    <3> SUFFICES ASSUME NEW i \in 0 .. m - 1 PROVE h[i] = g[i]
      OBVIOUS
    <3>1. CASE i = 0
      BY <2>6, <2>7, <3>1
    <3>2. CASE i # 0
      <4>1. i \in 1 .. m - 1 /\ i \in 1 .. m
        BY <1>1, <2>3, <3>2
      <4> HIDE DEF h
      <4> QED BY <2>6, <2>7, <4>1
    <3> QED BY <3>1, <3>2
  <2>9. h = F(h, m)
    <3>1. \A i \in 0 .. m : i = 0 \/ Effect(g[i - 1], new[i]) = Effect(h[i - 1], new[i])
      <4> SUFFICES ASSUME NEW i \in 0 .. m, i # 0 PROVE g[i - 1] = h[i - 1]
        OBVIOUS
      <4>1. i - 1 \in 0 .. m - 1
        BY <1>1, <2>3
      <4> QED BY <2>8, <4>1
    <3>2. h = [i \in 0 .. m |-> IF i = 0 THEN policy ELSE Effect(g[i - 1], new[i])]
      OBVIOUS
    <3> HIDE DEF h
    <3> QED BY <3>1, <3>2
  <2> QED BY <2>3, <2>9
<1>4. \E f : f = F(f, n)
  <2>1. CASE n = 0
    BY <1>2, <2>1
  <2>2. CASE n # 0
    <3>1. n \in 1 .. n
      BY <1>1, <2>2
    <3> QED BY <1>3, <3>1
  <2> QED BY <2>1, <2>2
<1> DEFINE after == CHOOSE f : f = F(f, n)
<1>5. after = F(after, n)
  BY <1>4
<1>6. Outcome(policy, new) = after[n]
  BY DEF Outcome, n
<1> HIDE DEF after
<1>7. \A i \in 0 .. n : after[i] = IF i = 0 THEN policy ELSE Effect(after[i - 1], new[i])
  BY <1>5
<1>8. 0 \in 0 .. n /\ \A i \in 1 .. n : i \in 0 .. n /\ i # 0
  BY <1>1
<1>9. after[0] = policy /\ \A i \in 1 .. n : after[i] = Effect(after[i - 1], new[i])
  BY <1>7, <1>8
<1> QED BY <1>6, <1>9 DEF n

LEMMA EffectIs ==
  ASSUME NEW policy \in Preferences, NEW f \in Feedback
  PROVE  /\ Effect(policy, f) \in Preferences
         /\ f.choice # "rating" => Governs(f, Effect(policy, f))
         /\ f.choice = "rating" => Effect(policy, f) = policy
<1>1. f.tv \in Tvs /\ f.tv # NoTv /\ f.choice \in ChoiceKinds
  BY TvAssumption DEF Feedback
<1>2. CASE f.choice = "keep_this_tv"
  BY <1>1, <1>2 DEF Effect, Governs, Preferences, Modes
<1>3. CASE f.choice = "never_switch_automatically"
  BY <1>3 DEF Effect, Governs, Preferences, Modes
<1>4. CASE f.choice = "rating"
  BY <1>4 DEF Effect
<1> QED BY <1>1, <1>2, <1>3, <1>4 DEF ChoiceKinds

\* One choice more, and the policy still agrees with the last one.
LEMMA FollowedOnce ==
  ASSUME NEW s, NEW b \in Nat, NEW n \in Nat, NEW policy \in Preferences,
         s[n + 1] \in Feedback, Followed(policy, s, b, n)
  PROVE  Followed(Effect(policy, s[n + 1]), s, b, n + 1)
<1> DEFINE q == Effect(policy, s[n + 1])
<1>1. /\ s[n + 1].choice # "rating" => Governs(s[n + 1], q)
      /\ s[n + 1].choice = "rating" => q = policy
  BY EffectIs
<1> HIDE DEF q
<1>2. SUFFICES ASSUME NEW i \in b + 1 .. n + 1, s[i].choice # "rating",
                      \A j \in i + 1 .. n + 1 : s[j].choice = "rating"
               PROVE  Governs(s[i], q)
  BY DEF Followed, q
<1>3. CASE i = n + 1
  BY <1>1, <1>2, <1>3
<1>4. CASE i # n + 1
  <2>1. i \in b + 1 .. n /\ n + 1 \in i + 1 .. n + 1 /\ \A j \in i + 1 .. n : j \in i + 1 .. n + 1
    BY <1>4
  <2>2. s[n + 1].choice = "rating" /\ \A j \in i + 1 .. n : s[j].choice = "rating"
    BY <1>2, <2>1
  <2>3. Governs(s[i], policy)
    BY <1>2, <2>1, <2>2 DEF Followed
  <2> QED BY <1>1, <2>2, <2>3
<1> QED BY <1>3, <1>4

\* And after any number of them: where it would first fail, the one before did not.
LEMMA OutcomeFollows ==
  ASSUME NEW s, NEW b \in Nat, NEW l \in Nat, NEW new \in Seq(Feedback),
         \A i \in 1 .. Len(new) : s[l + i] = new[i],
         NEW policy \in Preferences, Followed(policy, s, b, l)
  PROVE  /\ Outcome(policy, new) \in Preferences
         /\ Followed(Outcome(policy, new), s, b, l + Len(new))
<1> DEFINE n == Len(new)
<1>1. n \in Nat /\ \A i \in 1 .. n : s[l + i] = new[i] /\ new[i] \in Feedback
  OBVIOUS
<1>2. PICK after : /\ after[0] = policy
                   /\ \A i \in 1 .. n : after[i] = Effect(after[i - 1], new[i])
                   /\ Outcome(policy, new) = after[n]
  BY OutcomeInSteps
<1> HIDE DEF n
<1> DEFINE Holds(i) == after[i] \in Preferences /\ Followed(after[i], s, b, l + i)
           bad == {i \in 1 .. n : ~Holds(i)}
<1>3. Holds(0)
  <2>1. l + 0 = l
    OBVIOUS
  <2> QED BY <1>2, <2>1
<1>4. ASSUME NEW i \in 1 .. n, Holds(i - 1) PROVE Holds(i)
  <2>1. PICK k \in Nat : k = l + (i - 1)
    BY <1>1
  <2>2. k + 1 = l + i
    BY <1>1, <2>1
  <2>3. s[k + 1] = new[i] /\ new[i] \in Feedback
    BY <1>1, <2>2
  <2>4. after[i] = Effect(after[i - 1], s[k + 1])
    BY <1>2, <2>3
  <2>5. after[i - 1] \in Preferences /\ Followed(after[i - 1], s, b, k)
    BY <1>4, <2>1
  <2>6. Effect(after[i - 1], s[k + 1]) \in Preferences
    BY <2>3, <2>5, EffectIs
  <2>7. Followed(Effect(after[i - 1], s[k + 1]), s, b, k + 1)
    BY <2>3, <2>5, FollowedOnce
  <2> QED BY <2>2, <2>4, <2>6, <2>7
<1>5. bad = {}
  <2> SUFFICES ASSUME bad # {} PROVE FALSE
    OBVIOUS
  <2>1. bad \in SUBSET (1 .. n)
    OBVIOUS
  <2>2. PICK m \in bad : \A k \in bad : m <= k
    BY <1>1, <2>1, FirstPlace
  <2>3. m \in 1 .. n /\ ~Holds(m)
    OBVIOUS
  <2> HIDE DEF Holds
  <2>4. CASE m - 1 = 0
    BY <1>3, <1>4, <2>3, <2>4
  <2>5. CASE m - 1 # 0
    <3>1. m - 1 \in 1 .. n /\ ~(m <= m - 1)
      BY <1>1, <2>3, <2>5
    <3>2. Holds(m - 1)
      BY <2>2, <3>1
    <3> QED BY <1>4, <2>3, <3>2
  <2> QED BY <2>4, <2>5
<1>6. Holds(n)
  <2> HIDE DEF Holds
  <2>1. n = 0 \/ n \in 1 .. n
    BY <1>1
  <2> QED BY <1>3, <1>5, <2>1
<1> QED BY <1>2, <1>6 DEF n

\* What is stored of a batch or of one choice is followed.
LEMMA StoredIsFollowed ==
  ASSUME FeedbackTyped, preference \in Preferences, saved.before \in 0 .. Len(rows),
         Followed(preference, rows, saved.before, Len(rows)),
         NEW new \in Seq(Feedback), StoreFeedback(new), UNCHANGED saved
  PROVE  /\ preference' \in Preferences
         /\ saved'.before \in 0 .. Len(rows')
         /\ Followed(preference', rows', saved'.before, Len(rows'))
<1> DEFINE l == Len(rows)
           b == saved.before
           n == Len(new)
<1>1. rows \in Seq(Feedback) /\ l \in Nat /\ n \in Nat /\ b \in Nat /\ b <= l
  BY DEF FeedbackTyped
<1>2. rows' = rows \o new /\ preference' = Outcome(preference, new)
  BY DEF StoreFeedback
<1>3. /\ Len(rows') = l + n
      /\ \A i \in 1 .. l : rows'[i] = rows[i]
      /\ \A i \in 1 .. n : rows'[l + i] = new[i]
  <2>1. Len(rows') = l + n /\ \A i \in 1 .. l + n : rows'[i] = IF i <= l THEN rows[i] ELSE new[i - l]
    BY <1>1, <1>2, ConcatProperties
  <2> HIDE DEF l, n
  <2>2. \A i \in 1 .. l : i \in 1 .. l + n /\ i <= l
    BY <1>1
  <2>3. \A i \in 1 .. n : l + i \in 1 .. l + n /\ ~(l + i <= l) /\ (l + i) - l = i
    BY <1>1
  <2> QED BY <2>1, <2>2, <2>3
<1> HIDE DEF l, b, n
<1>4. Followed(preference, rows', b, l)
  <2>1. Followed(preference, rows, b, l)
    BY DEF b, l
  <2>2. \A i \in b + 1 .. l : i \in 1 .. l /\ \A j \in i + 1 .. l : j \in 1 .. l
    BY <1>1
  <2> QED BY <1>3, <2>1, <2>2 DEF Followed
<1>5. /\ preference' \in Preferences
      /\ Followed(preference', rows', b, l + n)
  BY <1>1, <1>2, <1>3, <1>4, OutcomeFollows DEF n
<1>6. saved'.before = b /\ b \in 0 .. Len(rows')
  BY <1>1, <1>3 DEF b
<1> QED BY <1>3, <1>5, <1>6

LEMMA PolicyUntouched ==
  ASSUME PolicyInv, FeedbackInv', UNCHANGED storeVars
  PROVE  PolicyInv'
BY DEF PolicyInv, storeVars

LEMMA PolicyStart == TvInit => PolicyInv
<1> SUFFICES ASSUME TvInit PROVE PolicyInv
  OBVIOUS
<1>1. FeedbackInv
  BY FeedbackStart
<1>2. preference \in Preferences
  BY DEF TvInit, NoPreference, Preferences, Modes
<1>3. rows = <<>> /\ saved.before = 0 /\ Len(<<>>) = 0
  BY DEF TvInit
<1>4. Followed(preference, rows, saved.before, Len(rows))
  <2>1. 0 + 1 .. 0 = {}
    OBVIOUS
  <2> QED BY <1>3, <2>1 DEF Followed
<1> QED BY <1>1, <1>2, <1>3, <1>4 DEF PolicyInv

LEMMA PolicyStep == PolicyInv /\ [TvNext]_tvVars => PolicyInv'
<1> SUFFICES ASSUME PolicyInv, [TvNext]_tvVars PROVE PolicyInv'
  OBVIOUS
<1>0. FeedbackInv /\ FeedbackInv' /\ FeedbackTyped
  BY FeedbackStep DEF PolicyInv, FeedbackInv
<1>1. ASSUME NEW p \in Saves, SavePreference(p) PROVE PolicyInv'
  <2>1. /\ preference' = p /\ rows' = rows /\ saved'.before = Len(rows)
    BY <1>1 DEF SavePreference
  <2>2. p \in Preferences
    BY TvAssumption
  <2>3. Len(rows) \in Nat
    BY <1>0 DEF FeedbackTyped
  <2>4. Followed(preference', rows', Len(rows), Len(rows))
    <3>1. Len(rows) + 1 .. Len(rows) = {}
      BY <2>3
    <3> QED BY <3>1 DEF Followed
  <2> QED BY <1>0, <2>1, <2>2, <2>3, <2>4 DEF PolicyInv
<1>2. ASSUME NEW p \in Pages, NEW f \in Offers[p], Choose(p, f) PROVE PolicyInv'
  <2>1. UNCHANGED storeVars
    BY <1>2 DEF Choose
  <2> QED BY <1>0, <2>1, PolicyUntouched
<1>3. ASSUME NEW p \in Pages,
             \/ PostSucceeds(p) \/ PostFails(p) \/ BeginFlush(p)
             \/ EndFlush(p) \/ FlushFails(p) \/ ClosePage(p)
      PROVE  PolicyInv'
  <2>1. UNCHANGED storeVars
    BY <1>3 DEF PostSucceeds, PostFails, BeginFlush, EndFlush, FlushFails, ClosePage
  <2> QED BY <1>0, <2>1, PolicyUntouched
<1>4. ASSUME NEW r \in wire, Submit(r) PROVE PolicyInv'
  <2>1. Single(r.body)
    BY <1>0, <1>4 DEF Submit, FeedbackTyped
  <2>2. r.body \in Seq(Feedback)
    BY <2>1 DEF Single
  <2>3. StoreFeedback(r.body) /\ UNCHANGED saved
    BY <1>4 DEF Submit
  <2> QED BY <1>0, <2>2, <2>3, StoredIsFollowed DEF PolicyInv
<1>5. ASSUME NEW batch \in Seq(Events), StoreBatch(batch), UNCHANGED saved PROVE PolicyInv'
  <2>1. Unseen(batch) \in Seq(Events)
    BY UnseenIs
  <2>2. Unseen(batch) \in Seq(Feedback)
    <3>1. Events \subseteq Feedback
      BY DEF Events
    <3> QED BY <2>1, <3>1
  <2>3. StoreFeedback(Unseen(batch))
    BY <1>5 DEF StoreBatch
  <2> QED BY <1>0, <1>5, <2>2, <2>3, StoredIsFollowed DEF PolicyInv
<1>6. ASSUME NEW r \in wire, Sync(r) PROVE PolicyInv'
  <2>1. r.body \in Seq(Events)
    BY <1>0, <1>6 DEF Sync, FeedbackTyped
  <2> QED BY <1>5, <1>6, <2>1 DEF Sync
<1>7. ASSUME NEW r \in wire, RefuseRequest(r) PROVE PolicyInv'
  <2>1. UNCHANGED storeVars
    BY <1>7 DEF RefuseRequest
  <2> QED BY <1>0, <2>1, PolicyUntouched
<1>8. ASSUME NEW batch \in NativeBatches, NativeSync(batch) PROVE PolicyInv'
  <2>1. batch \in Seq(Events)
    BY TvAssumption DEF Events
  <2> QED BY <1>5, <1>8, <2>1 DEF NativeSync
<1>9. CASE UNCHANGED tvVars
  <2>1. UNCHANGED storeVars
    BY <1>9 DEF tvVars, storeVars
  <2> QED BY <1>0, <2>1, PolicyUntouched
<1> QED BY <1>1, <1>2, <1>3, <1>4, <1>6, <1>7, <1>8, <1>9 DEF TvNext

\* The last choice decides: what it says of the policy is what is decided by.
LEMMA LastChoiceDecides ==
  PolicyInv => PolicyFollowsChoices
<1> SUFFICES ASSUME PolicyInv PROVE PolicyFollowsChoices
  OBVIOUS
<1> DEFINE b == saved.before
           asked == {i \in DOMAIN rows : i > b /\ rows[i].choice # "rating"}
<1>1. /\ Len(rows) \in Nat /\ b \in Nat /\ DOMAIN rows = 1 .. Len(rows)
      /\ Followed(preference, rows, b, Len(rows))
  BY DEF PolicyInv, FeedbackInv, FeedbackTyped
<1>2. SUFFICES ASSUME NEW last \in asked, \A i \in asked : i <= last,
                      NEW nearest \in Tvs \cup {NoTv}, NEW eligible \in SUBSET Tvs
               PROVE  LET target == Decision(nearest, eligible).target
                      IN IF rows[last].choice = "keep_this_tv"
                         THEN target = IF rows[last].tv \in eligible THEN rows[last].tv ELSE NoTv
                         ELSE /\ target \in {NoTv, preference.tv}
                              /\ preference.mode = "ask_before_switching"
  BY Zenon DEF PolicyFollowsChoices
<1>3. last \in b + 1 .. Len(rows)
  BY <1>1
<1>4. \A j \in last + 1 .. Len(rows) : rows[j].choice = "rating"
  <2> SUFFICES ASSUME NEW j \in last + 1 .. Len(rows) PROVE rows[j].choice = "rating"
    OBVIOUS
  <2>1. j \in DOMAIN rows /\ j > b /\ ~(j <= last)
    BY <1>1, <1>3
  <2> QED BY <1>2, <2>1
<1>5. Governs(rows[last], preference)
  BY <1>1, <1>3, <1>4 DEF Followed
<1> QED BY <1>5 DEF Governs, Decision

\* The policy is what the choices stored since the settings were last saved make of it,
\* however the deliveries of their events are repeated, lost and ordered: with the last
\* choice to keep a TV that TV is used, and with the last one not to switch none is
\* switched to.
THEOREM PolicyIsWhatWasChosen == TvSpec => []PolicyFollowsChoices
<1>1. TvInit => PolicyInv
  BY PolicyStart
<1>2. PolicyInv /\ [TvNext]_tvVars => PolicyInv'
  BY PolicyStep
<1>3. PolicyInv => PolicyFollowsChoices
  BY LastChoiceDecides
<1> QED BY <1>1, <1>2, <1>3, PTL DEF TvSpec

=============================================================================
