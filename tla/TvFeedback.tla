------------------------------ MODULE TvFeedback ------------------------------
(***************************************************************************)
(* The choices a person makes about which TV to use: the pages that take   *)
(* them, the outbox the pages of one browser share, the server that stores *)
(* them, and the policy that is read back from the store.                  *)
(*                                                                         *)
(* A page posts a choice at once.  When that fails it puts the choice in   *)
(* the outbox under an identifier of its own, and posts the whole outbox   *)
(* when it is loaded or the browser is online again.  The server works on  *)
(* several requests at a time, each in one transaction of the database; it *)
(* may refuse any of them (the database is locked, the body is too long)   *)
(* and its answer may be lost, as may the request.  A request that its     *)
(* page has given up may still be served.                                  *)
(*                                                                         *)
(* One profile, the one the server is bound to.  A rating has no effect on *)
(* the policy, so good and bad ratings are one choice.  The store keeps    *)
(* the last 100 rows of feedback; no policy is read from them, and the     *)
(* model keeps them all.                                                   *)
(***************************************************************************)
EXTENDS Naturals, Sequences, FiniteSets

CONSTANTS
  Pages,          \* the open pages of one browser
  NoPage,         \* nobody waits for the answer
  Tvs,
  NoTv,
  Offers,         \* the choices each page's person makes, of those its menus offer
  Saves,          \* the policies people save in the settings
  EventIds,       \* identifiers a page or a native client gives an event
  NoEvent,        \* a choice that was posted at once has no identifier
  NativeBatches,  \* the batches native clients post
  MaxChoices,     \* bound: how many choices are made on pages
  MaxBatch,       \* how many events fit the longest body the server reads
  MaxStray        \* bound: how many requests nobody waits for are under way

ChoiceKinds == {"rating", "keep_this_tv", "never_switch_automatically"}
Modes == {"ask_before_switching", "keep_this_tv", "follow_nearest"}
Feedback == [id : EventIds \cup {NoEvent}, tv : Tvs, choice : ChoiceKinds]

\* A page draws identifiers that nobody else uses.
PageIds ==
  {e \in EventIds : \A batch \in NativeBatches : \A i \in DOMAIN batch : batch[i].id # e}

\* A KEEP policy names the TV it keeps.
Preferences ==
  {p \in [mode : Modes, tv : Tvs \cup {NoTv}] : p.mode = "keep_this_tv" => p.tv # NoTv}

NoPreference == [mode |-> "ask_before_switching", tv |-> NoTv]

ASSUME TvAssumption ==
  /\ Offers \in [Pages -> SUBSET {f \in Feedback : f.id = NoEvent}]
  /\ Saves \subseteq Preferences
  /\ NoEvent \notin EventIds
  /\ NoPage \notin Pages
  /\ NoTv \notin Tvs
  /\ NativeBatches \subseteq Seq({f \in Feedback : f.id \in EventIds})

VARIABLES
  outbox,        \* the outbox in the browser's storage
  posted,        \* per page: the choice it has posted and awaits an answer to
  flushing,      \* per page: what it read from the outbox and has posted
  wire,          \* requests that have not been served
  answers,       \* answers, of success, on their way to a page
  preference,    \* the stored policy
  receipts,      \* the stored receipt of each event
  rows,          \* the feedback rows ever stored
  saved,         \* history: the policy last saved in the settings, and the rows before it
  used,          \* the identifiers pages have given out
  acknowledged,  \* history: the events whose storage a page was told of
  made           \* how many choices were made on pages

tvVars == <<outbox, posted, flushing, wire, answers, preference, receipts, rows,
            saved, used, acknowledged, made>>
clientVars == <<outbox, posted, flushing, used, acknowledged, made>>
storeVars == <<preference, receipts, rows, saved>>

TvInit ==
  /\ outbox = <<>>
  /\ posted = [p \in Pages |-> <<>>]
  /\ flushing = [p \in Pages |-> <<>>]
  /\ wire = {}
  /\ answers = {}
  /\ preference = NoPreference
  /\ receipts = [e \in EventIds |-> <<>>]
  /\ rows = <<>>
  /\ saved = [preference |-> NoPreference, before |-> 0]
  /\ used = {}
  /\ acknowledged = {}
  /\ made = 0

-----------------------------------------------------------------------------
(* The store. *)

\* What one choice makes of the policy.  Never switching keeps the TV that was stored.
Effect(policy, f) ==
  CASE f.choice = "keep_this_tv" -> [mode |-> "keep_this_tv", tv |-> f.tv]
    [] f.choice = "never_switch_automatically" ->
         [policy EXCEPT !.mode = "ask_before_switching"]
    [] f.choice = "rating" -> policy

\* What choices, one after the other, make of it.
Outcome(policy, new) ==
  LET after[i \in 0 .. Len(new)] ==
        IF i = 0 THEN policy ELSE Effect(after[i - 1], new[i])
  IN after[Len(new)]

StoreFeedback(new) ==
  /\ rows' = rows \o new
  /\ preference' = Outcome(preference, new)

\* Faulty variant: an event is known only by its place in the batch, not by its receipt.
UnseenByPlace(batch) == batch

\* What a sequence has at some places, in its order.
Picked(s, places) ==
  [i \in 1 .. Cardinality(places) |->
     s[CHOOSE k \in places : Cardinality({j \in places : j <= k}) = i]]

\* The events of a batch that have no receipt, each where it first occurs.
Unseen(batch) ==
  Picked(batch, {i \in DOMAIN batch :
                   receipts[batch[i].id] = <<>> /\ \A j \in 1 .. i - 1 : batch[j].id # batch[i].id})

\* An identifier stands for two different payloads: the transaction is rolled back.
Collides(batch) ==
  \E i \in DOMAIN batch :
    \/ receipts[batch[i].id] \notin {<<>>, <<batch[i]>>}
    \/ \E j \in 1 .. i - 1 : batch[j].id = batch[i].id /\ batch[j] # batch[i]

\* Faulty variant: the policy is set for every event, and only the row is kept back.
StoreBatchAgain(batch) ==
  /\ rows' = rows \o Unseen(batch)
  /\ preference' = Outcome(preference, batch)
  /\ receipts' = [e \in EventIds |->
       IF \E i \in DOMAIN batch : batch[i].id = e
       THEN <<batch[CHOOSE i \in DOMAIN batch : batch[i].id = e]>> ELSE receipts[e]]

StoreBatch(batch) ==
  /\ StoreFeedback(Unseen(batch))
  /\ receipts' = [e \in EventIds |->
       IF \E i \in DOMAIN batch : batch[i].id = e
       THEN <<batch[CHOOSE i \in DOMAIN batch : batch[i].id = e]>> ELSE receipts[e]]

\* The TV that is used, and the one that is proposed to the person.
Decision(nearest, eligible) ==
  LET retained == IF preference.tv \in eligible THEN preference.tv ELSE NoTv
      candidate == IF nearest \in eligible THEN nearest ELSE NoTv
  IN [target |-> IF preference.mode = "follow_nearest" THEN candidate ELSE retained,
      suggested |-> IF preference.mode = "ask_before_switching" /\ candidate # retained
                    THEN candidate ELSE NoTv]

\* The policy is set outright, in the settings.
SavePreference(p) ==
  /\ preference # p
  /\ Len(rows) > saved.before
  /\ preference' = p
  /\ saved' = [preference |-> p, before |-> Len(rows)]
  /\ UNCHANGED <<clientVars, wire, answers, receipts, rows>>

-----------------------------------------------------------------------------
(* The pages. *)

Request(p, kind, body) == [from |-> p, kind |-> kind, body |-> body]
Answer(p, kind) == [to |-> p, kind |-> kind]

Choose(p, f) ==
  /\ posted[p] = <<>> /\ made < MaxChoices
  /\ posted' = [posted EXCEPT ![p] = <<f>>]
  /\ wire' = wire \cup {Request(p, "submit", <<f>>)}
  /\ made' = made + 1
  /\ UNCHANGED <<storeVars, outbox, flushing, answers, used, acknowledged>>

\* The page stops waiting; a request still on its way is nobody's.
Forget(p, kinds) ==
  /\ wire' = {IF r.from = p /\ r.kind \in kinds THEN [r EXCEPT !.from = NoPage] ELSE r : r \in wire}
  /\ Cardinality({r \in wire' : r.from = NoPage}) <= MaxStray
  /\ answers' = {a \in answers : ~(a.to = p /\ a.kind \in kinds)}

PostSucceeds(p) ==
  /\ Answer(p, "submit") \in answers
  /\ posted' = [posted EXCEPT ![p] = <<>>]
  /\ Forget(p, {"submit"})
  /\ UNCHANGED <<storeVars, outbox, flushing, used, acknowledged, made>>

\* Refused, or no answer came: the choice is queued as an event of its own.
PostFails(p) ==
  /\ posted[p] # <<>>
  /\ \E e \in PageIds \ used :
       /\ outbox' = Append(outbox, [posted[p][1] EXCEPT !.id = e])
       /\ used' = used \cup {e}
  /\ posted' = [posted EXCEPT ![p] = <<>>]
  /\ Forget(p, {"submit"})
  /\ UNCHANGED <<storeVars, flushing, acknowledged, made>>

\* The page is loaded or comes online: it reads the outbox and posts all of it.
BeginFlush(p) ==
  /\ flushing[p] = <<>> /\ outbox # <<>>
  /\ flushing' = [flushing EXCEPT ![p] = outbox]
  /\ wire' = wire \cup {Request(p, "sync", outbox)}
  /\ UNCHANGED <<storeVars, outbox, posted, answers, used, acknowledged, made>>

\* What was posted and not acknowledged replaces the outbox.
Remaining(p, told) ==
  Picked(flushing[p], {i \in DOMAIN flushing[p] : flushing[p][i].id \notin told})

EndFlush(p) ==
  LET told == {flushing[p][i].id : i \in DOMAIN flushing[p]}
  IN /\ Answer(p, "sync") \in answers
     /\ outbox' = Remaining(p, told)
     /\ acknowledged' = acknowledged \cup told
     /\ flushing' = [flushing EXCEPT ![p] = <<>>]
     /\ Forget(p, {"sync"})
     /\ UNCHANGED <<storeVars, posted, used, made>>

FlushFails(p) ==
  /\ flushing[p] # <<>>
  /\ flushing' = [flushing EXCEPT ![p] = <<>>]
  /\ Forget(p, {"sync"})
  /\ UNCHANGED <<storeVars, outbox, posted, used, acknowledged, made>>

\* The page is closed, or reloaded, with what it was waiting for.
ClosePage(p) ==
  /\ posted[p] # <<>>
  /\ posted' = [posted EXCEPT ![p] = <<>>]
  /\ flushing' = [flushing EXCEPT ![p] = <<>>]
  /\ Forget(p, {"submit", "sync"})
  /\ UNCHANGED <<storeVars, outbox, used, acknowledged, made>>

-----------------------------------------------------------------------------
(* The server. *)

Reply(r) ==
  answers' = IF r.from = NoPage THEN answers ELSE answers \cup {Answer(r.from, r.kind)}

Submit(r) ==
  /\ r \in wire /\ r.kind = "submit"
  /\ wire' = wire \ {r}
  /\ StoreFeedback(r.body)
  /\ Reply(r)
  /\ UNCHANGED <<clientVars, receipts, saved>>

Sync(r) ==
  /\ r \in wire /\ r.kind = "sync"
  /\ Len(r.body) <= MaxBatch /\ ~Collides(r.body)
  /\ wire' = wire \ {r}
  /\ StoreBatch(r.body)
  /\ Reply(r)
  /\ UNCHANGED <<clientVars, saved>>

\* The request is lost, or nothing is stored: the database is locked, the batch collides or
\* is too long.  To its page that is all the same, and PostFails and FlushFails do not wait.
RefuseRequest(r) ==
  /\ r \in wire
  /\ wire' = wire \ {r}
  /\ UNCHANGED <<clientVars, storeVars, answers>>

\* A native client delivers a batch; the outcome is its own to keep.
NativeSync(batch) ==
  /\ ~Collides(batch)
  /\ Unseen(batch) # <<>>
  /\ StoreBatch(batch)
  /\ UNCHANGED <<clientVars, wire, answers, saved>>

TvNext ==
  \/ \E p \in Saves : SavePreference(p)
  \/ \E p \in Pages : \E f \in Offers[p] : Choose(p, f)
  \/ \E p \in Pages : PostSucceeds(p) \/ PostFails(p) \/ BeginFlush(p) \/ EndFlush(p)
                        \/ FlushFails(p) \/ ClosePage(p)
  \/ \E r \in wire : Submit(r) \/ Sync(r) \/ RefuseRequest(r)
  \/ \E batch \in NativeBatches : NativeSync(batch)

TvSpec == TvInit /\ [][TvNext]_tvVars

-----------------------------------------------------------------------------
TvTypeOK ==
  /\ \A i \in DOMAIN outbox : outbox[i] \in Feedback
  /\ preference \in Preferences
  /\ saved.preference \in Preferences
  /\ \A i \in DOMAIN rows : rows[i] \in Feedback
  /\ used \subseteq PageIds /\ acknowledged \subseteq EventIds
  /\ made \in 0 .. MaxChoices

\* However often an event is delivered, by one page twice, by two pages at a time or again
\* after an answer was lost, it is stored once, with one payload; and an event a page was
\* told of is stored.
StoredOnce ==
  /\ \A i, j \in DOMAIN rows : rows[i].id = rows[j].id => i = j \/ rows[i].id = NoEvent
  /\ \A e \in EventIds : receipts[e] # <<>> <=> \E i \in DOMAIN rows : rows[i].id = e
  /\ \A e \in acknowledged : receipts[e] # <<>>

\* The policy is what the choices stored since the settings were last saved make of it, in
\* the order they were stored: a repeated delivery does not bring an older choice back, and
\* no decision moves to another TV after a choice not to.
PolicyFollowsChoices ==
  LET asked == {i \in DOMAIN rows : i > saved.before /\ rows[i].choice # "rating"}
  IN \A last \in asked : (\A i \in asked : i <= last) =>
       \A nearest \in Tvs \cup {NoTv}, eligible \in SUBSET Tvs :
         LET target == Decision(nearest, eligible).target
         IN IF rows[last].choice = "keep_this_tv"
            THEN target = IF rows[last].tv \in eligible THEN rows[last].tv ELSE NoTv
            ELSE target \in {NoTv, preference.tv} /\ preference.mode = "ask_before_switching"

\* A page removes only acknowledged events from the outbox.
RemovesOnlyAcknowledged ==
  [][\A i \in DOMAIN outbox :
       \/ outbox[i].id \in acknowledged'
       \/ \E j \in DOMAIN outbox' : outbox'[j] = outbox[i]]_tvVars

=============================================================================
