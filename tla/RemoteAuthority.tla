---------------------------- MODULE RemoteAuthority ----------------------------
(***************************************************************************)
(* IdempotentRemoteControllerAuthority: the lease authority behind request *)
(* identifiers, so that a request that is repeated has one effect.         *)
(*                                                                         *)
(* Any number of instances share one file.  A method takes the file lock,  *)
(* loads the file, replaces it as a whole, and answers.  When the save     *)
(* fails before the file is replaced, memory is rolled back and nothing    *)
(* has happened.  When it fails afterwards, or the process dies, the file  *)
(* is the new one and the caller has no answer: it may only ask again.     *)
(* Memory is replaced by the file at every call, so the file is the state. *)
(*                                                                         *)
(* The wrapped authority's own file is not used, and its reauthorizations  *)
(* are not offered.                                                        *)
(***************************************************************************)
EXTENDS ControllerLease

CONSTANTS
  Requests,        \* request identifiers
  ControllerKeys,  \* controller keys
  Challenges,      \* challenges of protocol requests
  NoRecord         \* nothing is on record for the request

VARIABLES
  committed,   \* _committed_requests
  keyOf,       \* _grant_key_bindings
  results,     \* _protocol_results
  directives,  \* _handoff_directives: the requests that have one
  answered,    \* history: the leases callers were answered with
  grants       \* history: the grants they were given

fileVars == <<committed, keyOf, results, directives>>
remoteVars == <<leaseVars, fileVars, answered, grants>>

\* The fingerprint of a request; prior is the lease a handoff starts from.
Fingerprints ==
  [op : {"acquire", "handoff"}, prior : Leases \cup {NoLease},
   on : Resources, holder : Controllers, now : LeaseTimes, ttl : Ttls]

Commits == [print : Fingerprints, lease : Leases]

\* AtomicControllerRequest
ProtocolRequests ==
  [op : {"acquire", "handoff"}, id : Requests, on : Resources, holder : Controllers,
   key : ControllerKeys, current : 0 .. MaxToken, ttl : Ttls, challenge : Challenges]

\* SignedAtomicControllerResult: the request whose digest it carries, key and lease.
Results == [request : ProtocolRequests, key : ControllerKeys, lease : Leases]

ASSUME NoRecordAssumption ==
  NoRecord \notin Commits /\ NoRecord \notin ControllerKeys /\ NoRecord \notin Results

RemoteTypeOK ==
  /\ LeaseTypeOK
  /\ committed \in [Requests -> Commits \cup {NoRecord}]
  /\ keyOf \in [Requests -> ControllerKeys \cup {NoRecord}]
  /\ results \in [Requests -> Results \cup {NoRecord}]
  /\ directives \subseteq Requests
  /\ answered \subseteq [id : Requests, lease : Leases]
  /\ grants \subseteq [id : Requests, key : ControllerKeys, lease : Leases]

RemoteInit ==
  /\ LeaseInit
  /\ committed = [q \in Requests |-> NoRecord]
  /\ keyOf = [q \in Requests |-> NoRecord]
  /\ results = [q \in Requests |-> NoRecord]
  /\ directives = {}
  /\ answered = {}
  /\ grants = {}

-----------------------------------------------------------------------------
(* acquire, handoff *)

Fingerprint(op, prior, r, c, now, ttl) ==
  [op |-> op, prior |-> prior, on |-> r, holder |-> c, now |-> now, ttl |-> ttl]

Answer(q, lease) == answered' = answered \cup {[id |-> q, lease |-> lease]}

\* Faulty variant: a request that is repeated is served like a new one.
NewOrRepeated(q) == TRUE

New(q) == committed[q] = NoRecord

\* The request and its lease go into the file together; the answer may be lost.
Commit(q, print, lease) ==
  /\ committed' = [committed EXCEPT ![q] = [print |-> print, lease |-> lease]]
  /\ Answer(q, lease) \/ UNCHANGED answered
  /\ UNCHANGED <<keyOf, results, directives, grants>>

RemoteAcquire(q, r, c, now, ttl) ==
  /\ New(q)
  /\ Acquire(r, c, now, ttl)
  /\ Commit(q, Fingerprint("acquire", NoLease, r, c, now, ttl), active'[r])

RemoteHandoff(q, lease, c, now, ttl) ==
  /\ New(q)
  /\ Handoff(lease, c, now, ttl)
  /\ Commit(q, Fingerprint("handoff", lease, lease.on, c, now, ttl), active'[lease.on])

\* The same request again, from any instance: the committed lease, whatever became of it.
Repeat(q, print) ==
  /\ ~New(q)
  /\ committed[q].print = print
  /\ Answer(q, committed[q].lease)
  /\ UNCHANGED <<leaseVars, fileVars, grants>>

-----------------------------------------------------------------------------
(* issue_grant, issue_protocol_result, issue_fence_directive *)

\* The request is bound to no other key.
Bindable(q, key) == keyOf[q] \in {NoRecord, key}

\* A grant for a committed acquisition whose lease is still in force; a handoff's
\* grant waits for the endpoint.  The grant may get lost, its key stays bound.
IssueRemoteGrant(q, key, now) ==
  /\ ~New(q)
  /\ Bindable(q, key)
  /\ committed[q].print.op = "acquire"
  /\ Verdict(committed[q].lease, now) = "ALLOW"
  /\ keyOf' = [keyOf EXCEPT ![q] = key]
  /\ \/ grants' = grants \cup {[id |-> q, key |-> key, lease |-> committed[q].lease]}
     \/ UNCHANGED grants
  /\ UNCHANGED <<leaseVars, committed, results, directives, answered>>

\* The protocol request describes the committed acquisition.
Matches(request, commit) ==
  /\ request.op = "acquire" /\ commit.print.op = "acquire"
  /\ request.on = commit.print.on /\ request.holder = commit.print.holder
  /\ request.current = 0
  /\ request.ttl = commit.print.ttl

Bind(q, key) == keyOf' = [keyOf EXCEPT ![q] = key]

\* The result is signed once and saved; every later call returns the saved one.
IssueResult(q, request) ==
  /\ ~New(q) /\ request.id = q
  /\ Matches(request, committed[q])
  /\ results[q] = NoRecord
  /\ Bindable(q, request.key)
  /\ Bind(q, request.key)
  /\ results' = [results EXCEPT ![q] =
       [request |-> request, key |-> request.key, lease |-> committed[q].lease]]
  /\ UNCHANGED <<leaseVars, committed, directives, answered, grants>>

\* The lease follows the one that was handed over.
Successor(commit) ==
  /\ commit.print.op = "handoff"
  /\ commit.lease.token = commit.print.prior.token + 1

IssueDirective(q, now) ==
  /\ ~New(q)
  /\ Successor(committed[q])
  /\ committed[q].print.prior.holder # committed[q].lease.holder
  /\ Verdict(committed[q].lease, now) = "ALLOW"
  /\ directives' = directives \cup {q}
  /\ UNCHANGED <<leaseVars, committed, keyOf, results, answered, grants>>

RemoteNext ==
  \/ \E q \in Requests, now \in LeaseTimes, ttl \in Ttls :
       \/ \E r \in Resources, c \in Controllers : RemoteAcquire(q, r, c, now, ttl)
       \/ \E lease \in issued, c \in Controllers : RemoteHandoff(q, lease, c, now, ttl)
  \/ \E q \in Requests : ~New(q) /\ Repeat(q, committed[q].print)
  \/ \E q \in Requests, key \in ControllerKeys, now \in LeaseTimes : IssueRemoteGrant(q, key, now)
  \/ \E request \in ProtocolRequests : IssueResult(request.id, request)
  \/ \E q \in Requests, now \in LeaseTimes : IssueDirective(q, now)

RemoteSpec == RemoteInit /\ [][RemoteNext]_remoteVars

-----------------------------------------------------------------------------
(* What a start accepts *)

LeaseLoads(r) ==
  active[r] # NoLease =>
    /\ active[r].on = r
    /\ active[r].from < active[r].until
    /\ active[r].token <= highest[r]

RequestLoads(q) ==
  committed[q] # NoRecord =>
    LET print == committed[q].print
        lease == committed[q].lease
    IN /\ print.on = lease.on /\ print.holder = lease.holder /\ print.now = lease.from
       /\ print.ttl > 0 /\ lease.until = lease.from + print.ttl
       /\ print.op = "handoff" =>
            print.prior.token > 0 /\ print.prior.from < print.prior.until
       /\ lease.token <= highest[lease.on]

ResultLoads(q) ==
  results[q] # NoRecord =>
    /\ committed[q] # NoRecord
    /\ results[q].lease = committed[q].lease
    /\ results[q].key = keyOf[q]

\* _load_state, which refuses the whole file if any record of it is refused.
Loads ==
  /\ \A r \in Resources : LeaseLoads(r)
  /\ \A q \in Requests :
       /\ RequestLoads(q)
       /\ keyOf[q] # NoRecord => committed[q] # NoRecord
       /\ ResultLoads(q)
       /\ q \in directives => committed[q] # NoRecord /\ Successor(committed[q])

\* RemoteControllerResultVerifier.validate
ResultVerdict(result, request, now) ==
  CASE result.request # request \/ result.key # request.key
         \/ result.lease.on # request.on \/ result.lease.holder # request.holder
         -> "REQUEST_DIGEST_MISMATCH"
    [] OTHER ->
       IF \/ request.op = "acquire" /\ request.current # 0
          \/ request.op = "handoff" /\ request.current = 0
          \/ result.lease.token <= request.current
          \/ result.lease.until > result.lease.from + request.ttl
       THEN "MALFORMED"
       ELSE IF now < result.lease.from THEN "NOT_YET_VALID"
       ELSE IF now >= result.lease.until THEN "EXPIRED" ELSE "ALLOW"

-----------------------------------------------------------------------------
(* Properties *)

\* A request has one effect: whoever repeats it, on whichever instance, after whatever
\* failure, is answered with the lease of the first time, and no other request is
\* ever answered with that lease (acquire, handoff).
OneLeasePerRequest ==
  \A a, b \in answered : a.id = b.id <=> a.lease = b.lease

\* Grants and protocol results of one request all name the same controller key, in
\* whichever order they are asked for (issue_grant, issue_protocol_result).
OneKeyPerRequest ==
  \A g \in grants :
    /\ \A h \in grants : h.id = g.id => h.key = g.key
    /\ results[g.id] # NoRecord => results[g.id].key = g.key

\* Whatever was saved, the next start loads it: no sequence of calls writes a file that
\* the authority itself refuses (_save_state, _load_state).
SavedFileLoads == Loads

\* The verifier at the gate accepts a result for its request during the term of the
\* lease, and at no other time and for no other request (issue_protocol_result,
\* RemoteControllerResultVerifier).
ResultVerifies ==
  \A q \in Requests : results[q] # NoRecord =>
    \A now \in LeaseTimes :
      /\ ResultVerdict(results[q], results[q].request, now) = "ALLOW"
           <=> results[q].lease.from <= now /\ now < results[q].lease.until
      /\ \A p \in Requests \ {q} : results[p] # NoRecord =>
           ResultVerdict(results[q], results[p].request, now) # "ALLOW"

\* A request has one answer, whichever instance is asked and whatever failed before: one
\* lease, one controller key, and a result that stands for that request alone; and the
\* answers survive, since what was saved is loaded by the next start (acquire, handoff,
\* issue_grant, issue_protocol_result, _save_state, _load_state).
OneAnswerPerRequest == OneLeasePerRequest /\ OneKeyPerRequest /\ ResultVerifies /\ SavedFileLoads

=============================================================================
