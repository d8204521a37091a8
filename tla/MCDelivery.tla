------------------------------ MODULE MCDelivery ------------------------------
(***************************************************************************)
(* The admission of intents, the endpoint's finality store, the choices of *)
(* TVs and the model cache, side by side as in MCParts: a behaviour        *)
(* belongs to one part, and the others rest in an initial state.           *)
(***************************************************************************)
EXTENDS IntentAdmission, EndpointFinality, TvFeedback, ModelCache, TLC

CONSTANTS t1, t2, i1, i2, k1, k2, p1, p2, e1, e2, n1, v1, v2

VARIABLE part

deliveryVars == <<part, intentVars, finalityVars, tvVars, cacheVars>>

DeliveryInit ==
  /\ part \in {"intents", "finality", "feedback", "cache"}
  /\ IntentInit
  /\ FinalityInit
  /\ TvInit
  /\ CacheInit
  /\ part # "cache" => budget = NoBudget

IntentsPart ==
  /\ part = "intents" /\ IntentNext
  /\ UNCHANGED <<part, finalityVars, tvVars, cacheVars>>

FinalityPart ==
  /\ part = "finality" /\ FinalityNext
  /\ UNCHANGED <<part, intentVars, tvVars, cacheVars>>

FeedbackPart ==
  /\ part = "feedback" /\ TvNext
  /\ UNCHANGED <<part, intentVars, finalityVars, cacheVars>>

CachePart ==
  /\ part = "cache" /\ CacheNext
  /\ UNCHANGED <<part, intentVars, finalityVars, tvVars>>

DeliveryNext == IntentsPart \/ FinalityPart \/ FeedbackPart \/ CachePart

DeliverySpec == DeliveryInit /\ [][DeliveryNext]_deliveryVars

-----------------------------------------------------------------------------
MCCapabilities == {[from |-> 0, until |-> 2]}

Proof(i, k, t, profile, until) ==
  [id |-> i, signer |-> k, on |-> t, profile |-> profile, from |-> 0, until |-> until]

\* One identifier for two transactions, one transaction proved by two authorities, and a
\* proof of the older profile that runs out.
MCProofs ==
  {Proof(i1, k1, t1, 2, 1), Proof(i1, k1, t2, 2, 1), Proof(i2, k1, t1, 1, 1),
   Proof(i2, k2, t1, 2, 1)}

Choice(e, tv, choice) == [id |-> e, tv |-> tv, choice |-> choice]

\* On one page a TV is kept, on the other switching is refused.
MCOffers ==
  p1 :> {Choice(NoEvent, v1, "keep_this_tv")}
    @@ p2 :> {Choice(NoEvent, v2, "never_switch_automatically")}

MCSaves == {[mode |-> "follow_nearest", tv |-> NoTv]}

\* An event twice in one batch, and its identifier again with another choice.
MCBatches ==
  {<<Choice(n1, v2, "keep_this_tv"), Choice(n1, v2, "keep_this_tv")>>,
   <<Choice(n1, v2, "rating")>>}

MCMegabytes == [k \in Models |-> 1]

\* The calls of one part and the events of pages of another are interchangeable; they
\* share their values.
DeliverySymmetry == Permutations(Callers)

=============================================================================
