---------------------- MODULE ConnectionContractProofs ----------------------
(***************************************************************************)
(* ConnectionContract for any documents: what was accepted apart is enough *)
(* for the evaluation that relies on it, what is allowed is within every   *)
(* document and the controls that count, and who has no authority learns   *)
(* nothing from the answer.                                                *)
(*                                                                         *)
(* The invariant is what each validation accepted.  The rest is about the  *)
(* evaluation alone: its answer is traced back through the gates, and what *)
(* each gate looks up is found by what was accepted.                       *)
(***************************************************************************)
EXTENDS ConnectionContract, TLAPS

-----------------------------------------------------------------------------
(* What was accepted *)

Accepted ==
  /\ stage \in {"PROFILE", "DECLARATION", "GRANT", "VERDICT"}
  /\ stage # "PROFILE" =>
       /\ ProfileAccepted(profile)
       /\ declaration \in Declarations /\ DeclarationAccepted(declaration, profile)
  /\ stage \in {"GRANT", "VERDICT"} => GrantAccepted(grant, declaration)

LEMMA AcceptedStep ==
  ASSUME Accepted, [Next]_vars
  PROVE  Accepted'
<1>1. CASE UNCHANGED vars
  BY <1>1 DEF vars, Accepted
<1>2. CASE Bind
  BY <1>2 DEF Bind, Accepted
<1>3. CASE IssueGrant
  BY <1>3 DEF IssueGrant, Accepted
<1>4. ASSUME stage = "GRANT", NEW i, NEW e, NEW load, NEW fe, NEW fc,
             EvaluateIntent(i, e, fe, fc, load)
      PROVE  Accepted'
  BY <1>4 DEF EvaluateIntent, Accepted
<1> QED
  BY <1>1, <1>2, <1>3, <1>4 DEF Next

\* An intent under an accepted grant, and the load it meets.
Authorised(i) ==
  /\ i.action \in grant.actions \cap declaration.actions
  /\ i.target \in grant.targets \cap declaration.targets
  /\ i.target \in declaration.bindings[i.action]

LEMMA AuthorisedIs ==
  ASSUME NEW i, Unauthorised(i) = "NONE"
  PROVE  Authorised(i)
BY DEF Unauthorised, Authorised

\* What an authorised action looks up is declared.
LEMMA Declared ==
  ASSUME Accepted, stage \in {"GRANT", "VERDICT"}, NEW i,
         i.action \in grant.actions \cap declaration.actions
  PROVE  /\ i.action \in DOMAIN profile.actions
         /\ i.action \in DOMAIN declaration.bindings
         /\ profile.actions[i.action].effect \in DOMAIN profile.effects
         /\ profile.actions[i.action].needs \subseteq DOMAIN profile.resources
         /\ profile.actions[i.action].needs \subseteq DOMAIN declaration.limits
         /\ declaration.bindings[i.action] \cap declaration.offLimits = {}
<1>1. /\ ActionsDeclared(profile) /\ ScopeWithin(declaration, profile)
      /\ CoversNeeds(declaration, profile) /\ TargetsOnLimits(declaration)
  BY DEF Accepted, ProfileAccepted, DeclarationAccepted, LimitsCover
<1>2. i.action \in declaration.actions /\ i.action \in DOMAIN profile.actions
      /\ i.action \in DOMAIN declaration.bindings
  BY <1>1 DEF ScopeWithin
<1>3. /\ profile.actions[i.action].effect \in DOMAIN profile.effects
      /\ profile.actions[i.action].needs \subseteq DOMAIN profile.resources
  BY <1>1, <1>2 DEF ActionsDeclared
<1>4. profile.actions[i.action].needs \subseteq DOMAIN declaration.limits
  BY <1>1, <1>2 DEF CoversNeeds
<1>5. declaration.bindings[i.action] \cap declaration.offLimits = {}
  BY <1>1, <1>2 DEF ScopeWithin, TargetsOnLimits
<1> QED
  BY <1>2, <1>3, <1>4, <1>5

-----------------------------------------------------------------------------
(* What the gates answer *)

LEMMA NoLookupMissedByAuthority ==
  ASSUME Accepted, stage \in {"GRANT", "VERDICT"}, NEW i
  PROVE  Unauthorised(i) # "LOOKUP_MISS"
BY Declared DEF Unauthorised

\* Why a resource of a claim is refused.
LEMMA ResourceGateIs ==
  ASSUME Accepted, stage \in {"GRANT", "VERDICT"}, NEW i \in Intents, NEW load \in Loads,
         i.action \in grant.actions \cap declaration.actions,
         NEW r \in DOMAIN i.claims, r \in profile.actions[i.action].needs
  PROVE  /\ ResourceGate(i, r, load) \notin {"LOOKUP_MISS", "ALLOW_ISSUED"}
         /\ ResourceGate(i, r, load) = "RESOURCE_WINDOW_LIMIT" => load.taken > 0
         /\ ResourceGate(i, r, load) = "NONE" => i.claims[r] <= declaration.limits[r].perWindow
<1> DEFINE amount == i.claims[r]
           limit  == declaration.limits[r]
           effect == profile.actions[i.action].effect
           breach == RuleBreach(r, amount, profile.effects[effect])
<1>1. r \in DOMAIN profile.resources /\ effect \in DOMAIN profile.effects
      /\ r \in DOMAIN declaration.limits
  BY Declared
<1>2. /\ amount \in Nat /\ limit.perIntent \in Nat /\ limit.perWindow \in Nat
      /\ load.taken \in Nat /\ limit.perIntent <= limit.perWindow
  BY <1>1, AmountAssumption DEF Accepted, DeclarationAccepted, LimitsCover, LimitOrdered
<1>3. ResourceGate(i, r, load) =
        IF breach # "NONE" THEN breach
        ELSE IF amount > limit.perIntent THEN "RESOURCE_PER_INTENT_LIMIT"
        ELSE IF load.taken + amount > limit.perWindow THEN "RESOURCE_WINDOW_LIMIT"
        ELSE "NONE"
  BY <1>1 DEF ResourceGate
<1>4. breach \in {"RESOURCE_MUST_BE_POSITIVE", "RESOURCE_MUST_BE_ZERO",
                  "EFFECTFUL_RESOURCE_MUST_BE_POSITIVE", "NONE"}
  BY DEF RuleBreach
<1> HIDE DEF amount, limit, breach
<1>5. load.taken + amount > limit.perWindow /\ ~(amount > limit.perIntent) => load.taken > 0
  BY <1>2
<1>6. ~(load.taken + amount > limit.perWindow) => amount <= limit.perWindow
  BY <1>2
<1>7. CASE breach # "NONE"
  BY <1>3, <1>4, <1>7
<1>8. CASE breach = "NONE"
  BY <1>3, <1>5, <1>6, <1>8 DEF amount, limit
<1> QED
  BY <1>7, <1>8

\* What passes authority, evidence and controls meets the gates.
LEMMA GatesAre ==
  ASSUME Accepted, stage \in {"GRANT", "VERDICT"}, NEW i \in Intents, NEW load \in Loads,
         i.action \in grant.actions \cap declaration.actions, NEW code \in Gates(i, load)
  PROVE  /\ code # "LOOKUP_MISS"
         /\ code = "RESOURCE_WINDOW_LIMIT" => load.taken > 0
         /\ code = "ALLOW_ISSUED" =>
              /\ DOMAIN i.claims = profile.actions[i.action].needs
              /\ \A r \in DOMAIN i.claims : i.claims[r] <= declaration.limits[r].perWindow
<1>1. CASE code = "STRUCTURAL_BUDGET_EXHAUSTED" \/ code = "RESOURCE_CLAIM_SET"
  BY <1>1
<1>2. CASE code # "STRUCTURAL_BUDGET_EXHAUSTED" /\ code # "RESOURCE_CLAIM_SET"
  <2>1. code \in EffectGate(i, load)
    BY <1>2 DEF Gates
  <2>6. profile.actions[i.action].effect \in DOMAIN profile.effects
    BY Declared
  <2> DEFINE codes == {ResourceGate(i, r, load) : r \in DOMAIN i.claims} \ {"NONE"}
  <2>2. /\ DOMAIN i.claims = profile.actions[i.action].needs
        /\ (codes = {} /\ code = "ALLOW_ISSUED") \/ code \in codes
    BY <1>2, <2>1, <2>6 DEF EffectGate
  <2>3. \A r \in DOMAIN i.claims :
          /\ ResourceGate(i, r, load) \notin {"LOOKUP_MISS", "ALLOW_ISSUED"}
          /\ ResourceGate(i, r, load) = "RESOURCE_WINDOW_LIMIT" => load.taken > 0
          /\ ResourceGate(i, r, load) = "NONE" => i.claims[r] <= declaration.limits[r].perWindow
    BY <2>2, ResourceGateIs
  <2>4. CASE code \in codes
    BY <2>3, <2>4
  <2>5. CASE codes = {} /\ code = "ALLOW_ISSUED"
    <3>1. \A r \in DOMAIN i.claims : ResourceGate(i, r, load) = "NONE"
      BY <2>5
    <3> QED
      BY <2>2, <2>3, <2>5, <3>1
  <2> QED
    BY <2>2, <2>4, <2>5
<1> QED
  BY <1>1, <1>2

\* What keeps an intent from the gates.
Holdings == {"AUTHORITATIVE_RESOLUTION_FAILED", "EVIDENCE_INVALID", "EVIDENCE_MISSING",
             "AMBIGUOUS_INTENT", "PREREQUISITE_FALSE", "HARD_BLOCK", "MANUAL_REVIEW_REQUIRED"}

LEMMA HeldBackIs ==
  ASSUME NEW i, NEW e, NEW c
  PROVE  /\ HeldBack(i, e, c) \in Holdings \cup {"NONE"}
         /\ HeldBack(i, e, c) = "NONE" =>
              /\ e # Failed /\ c # Failed
              /\ RequiredEvidence(i.action) \subseteq e.of.VALID
              /\ ~c.of.ambiguous
              /\ \A n \in DOMAIN c.of.prerequisites : c.of.prerequisites[n]
              /\ \A n \in DOMAIN c.of.blocks : ~c.of.blocks[n]
              /\ \A n \in DOMAIN c.of.reviews : ~c.of.reviews[n]
BY DEF HeldBack, Holdings

LEMMA JudgementIs ==
  ASSUME Accepted, stage \in {"GRANT", "VERDICT"}, NEW i \in Intents, NEW load \in Loads,
         NEW e, NEW c, NEW code \in Judgement(i, e, c, load)
  PROVE  /\ code # "LOOKUP_MISS"
         /\ code = "RESOURCE_WINDOW_LIMIT" => load.taken > 0
         /\ code = "ALLOW_ISSUED" =>
              /\ Authorised(i) /\ HeldBack(i, e, c) = "NONE"
              /\ DOMAIN i.claims = profile.actions[i.action].needs
              /\ \A r \in DOMAIN i.claims : i.claims[r] <= declaration.limits[r].perWindow
         /\ Unauthorised(i) # "NONE" => code = Unauthorised(i)
<1>1. CASE Unauthorised(i) # "NONE"
  <2>1. code = Unauthorised(i)
    BY <1>1 DEF Judgement
  <2>2. code # "LOOKUP_MISS"
    BY <2>1, NoLookupMissedByAuthority
  <2>3. code \notin {"RESOURCE_WINDOW_LIMIT", "ALLOW_ISSUED"}
    BY <2>1 DEF Unauthorised
  <2> QED
    BY <2>1, <2>2, <2>3
<1>2. CASE Unauthorised(i) = "NONE" /\ HeldBack(i, e, c) # "NONE"
  <2>1. code \in Holdings
    BY <1>2, HeldBackIs DEF Judgement
  <2> QED
    BY <1>2, <2>1 DEF Holdings
<1>3. CASE Unauthorised(i) = "NONE" /\ HeldBack(i, e, c) = "NONE"
  <2>1. code \in Gates(i, load) /\ Authorised(i)
    BY <1>3, AuthorisedIs DEF Judgement
  <2>2. i.action \in grant.actions \cap declaration.actions
    BY <2>1 DEF Authorised
  <2> QED
    BY <1>3, <2>1, <2>2, GatesAre
<1> QED
  BY <1>1, <1>2, <1>3

\* The fallback passes the gates with an empty claim, whatever the load.
LEMMA FallbackPasses ==
  ASSUME Accepted, stage = "GRANT"
  PROVE  FallbackOpen
<1> SUFFICES ASSUME NEW i \in Intents, NEW load \in Loads,
                    i.action = profile.fallback, DOMAIN i.claims = {}
             PROVE  Gates(i, load) = {"ALLOW_ISSUED"}
  BY DEF FallbackOpen
<1>1. /\ profile.actions[i.action].cost = 0 /\ profile.actions[i.action].needs = {}
      /\ profile.actions[i.action].effect \in DOMAIN profile.effects
  BY DEF Accepted, ProfileAccepted, FallbackIsSafe, ActionsDeclared
<1>2. ~(load.remaining < 0)
  BY AmountAssumption
<1>3. EffectGate(i, load) = {"ALLOW_ISSUED"}
  BY <1>1 DEF EffectGate
<1> QED
  BY <1>1, <1>2, <1>3 DEF Gates

-----------------------------------------------------------------------------
(* The verdict *)

Answered == LookupsHit /\ IdleWindowFits /\ AllowedIsGoverned /\ StrangersLearnNothing

\* What is allowed has its evidence, and its controls from who counts.
LEMMA EvidenceSuffices ==
  ASSUME Accepted, stage = "GRANT", NEW i, NEW e, NEW c, Authorised(i), HeldBack(i, e, c) = "NONE"
  PROVE  /\ \E r \in profile.requirements : i.action \in r.actions
         /\ \A r \in profile.requirements : i.action \in r.actions => r.types \subseteq e.of.VALID
<1>1. i.action \in DOMAIN profile.actions
  BY Declared DEF Authorised
<1>2. UNION {r.actions : r \in profile.requirements} = DOMAIN profile.actions
  BY DEF Accepted, ProfileAccepted, EvidenceCovers
<1>3. RequiredEvidence(i.action) \subseteq e.of.VALID
  BY HeldBackIs
<1> QED
  BY <1>1, <1>2, <1>3 DEF RequiredEvidence

LEMMA ControlsSuffice ==
  ASSUME NEW i, NEW e, NEW found, "CONTROLS" \in resolvers, ControlsFit(i.controls, profile),
         HeldBack(i, e, ControlsOf(i, found)) = "NONE"
  PROVE  /\ found # Failed
         /\ \A n \in profile.prerequisites : found.of.prerequisites[n]
         /\ \A n \in profile.blocks : ~found.of.blocks[n]
         /\ \A n \in profile.reviews : ~found.of.reviews[n]
         /\ ~found.of.ambiguous
<1> DEFINE c == ControlsOf(i, found)
<1>1. /\ c # Failed /\ ~c.of.ambiguous
      /\ \A n \in DOMAIN c.of.prerequisites : c.of.prerequisites[n]
      /\ \A n \in DOMAIN c.of.blocks : ~c.of.blocks[n]
      /\ \A n \in DOMAIN c.of.reviews : ~c.of.reviews[n]
  BY HeldBackIs
<1>2. c = found /\ found # Failed /\ SameControls(found.of, i.controls)
  BY <1>1 DEF ControlsOf
<1>3. /\ DOMAIN found.of.prerequisites = profile.prerequisites
      /\ DOMAIN found.of.blocks = profile.blocks
      /\ DOMAIN found.of.reviews = profile.reviews
  BY <1>2 DEF SameControls, ControlsFit
<1> QED
  BY <1>1, <1>2, <1>3

LEMMA VerdictStep ==
  ASSUME Accepted, stage = "GRANT", NEW i \in Intents, NEW e, NEW load \in Loads, NEW fe, NEW fc,
         EvaluateIntent(i, e, fe, fc, load)
  PROVE  Answered'
<1> DEFINE ev == EvidenceOf(e, fe)
           c  == ControlsOf(i, fc)
<1>1. /\ UNCHANGED <<profile, declaration, grant, resolvers>>
      /\ stage' = "VERDICT" /\ ControlsFit(i.controls, profile)
      /\ asked' = [intent |-> i, load |-> load, found |-> fc, evidence |-> ev]
      /\ verdict' \in Judgement(i, ev, c, load)
  BY DEF EvaluateIntent, IntentAccepted
<1>2. /\ asked'.intent = i /\ asked'.load = load /\ asked'.found = fc /\ asked'.evidence = ev
  BY <1>1
<1> HIDE DEF ev
<1>3. PICK code : code = verdict'
  OBVIOUS
<1>4. /\ code # "LOOKUP_MISS"
      /\ code = "RESOURCE_WINDOW_LIMIT" => load.taken > 0
      /\ code = "ALLOW_ISSUED" =>
           /\ Authorised(i) /\ HeldBack(i, ev, c) = "NONE"
           /\ DOMAIN i.claims = profile.actions[i.action].needs
           /\ \A r \in DOMAIN i.claims : i.claims[r] <= declaration.limits[r].perWindow
      /\ Unauthorised(i) # "NONE" => code = Unauthorised(i)
  BY <1>1, <1>3, JudgementIs
<1>5. (LookupsHit /\ IdleWindowFits)'
  BY <1>2, <1>3, <1>4 DEF LookupsHit, IdleWindowFits
<1>6. AllowedByDocuments'
  <2> SUFFICES ASSUME code = "ALLOW_ISSUED"
               PROVE  AllowedByDocuments'
    BY <1>3 DEF AllowedByDocuments
  <2>1. /\ i.action \in grant.actions /\ i.target \in grant.targets
        /\ i.target \in declaration.bindings[i.action] \ declaration.offLimits
    BY <1>4, Declared DEF Authorised
  <2>2. /\ \E r \in profile.requirements : i.action \in r.actions
        /\ \A r \in profile.requirements : i.action \in r.actions => r.types \subseteq ev.of.VALID
    BY <1>4, EvidenceSuffices
  <2> QED
    BY <1>1, <1>2, <1>4, <2>1, <2>2 DEF AllowedByDocuments
<1>7. ResolverDecides'
  BY <1>1, <1>2, <1>3, <1>4, ControlsSuffice DEF ResolverDecides
<1>8. StrangersLearnNothing'
  <2>1. (Unauthorised(asked.intent))' = Unauthorised(i)
    BY <1>1, <1>2 DEF Unauthorised
  <2>2. Unauthorised(i) \notin {"ALLOW_ISSUED", "AMBIGUOUS_INTENT", "MANUAL_REVIEW_REQUIRED"}
    BY DEF Unauthorised
  <2> QED
    BY <1>3, <1>4, <2>1, <2>2 DEF StrangersLearnNothing, PublicCode
<1> QED
  BY <1>5, <1>6, <1>7, <1>8 DEF Answered, AllowedIsGoverned

LEMMA AnsweredStep ==
  ASSUME Accepted, Answered, [Next]_vars
  PROVE  Answered'
<1>1. CASE UNCHANGED vars
  BY <1>1 DEF vars, Answered, LookupsHit, IdleWindowFits, AllowedIsGoverned, AllowedByDocuments,
     ResolverDecides, StrangersLearnNothing, Judged, Unauthorised
<1>2. CASE Bind \/ IssueGrant
  <2>1. stage' # "VERDICT"
    BY <1>2 DEF Bind, IssueGrant
  <2> QED
    BY <2>1 DEF Answered, LookupsHit, IdleWindowFits, AllowedIsGoverned, AllowedByDocuments,
       ResolverDecides, StrangersLearnNothing, Judged
<1> QED
  BY <1>1, <1>2, VerdictStep DEF Next

LEMMA Inductive == Spec => [](Accepted /\ Answered)
<1>1. Init => Accepted /\ Answered
  BY DEF Init, Accepted, Answered, LookupsHit, IdleWindowFits, AllowedIsGoverned,
     AllowedByDocuments, ResolverDecides, StrangersLearnNothing, Judged
<1>2. Accepted /\ Answered /\ [Next]_vars => (Accepted /\ Answered)'
  BY AcceptedStep, AnsweredStep
<1> QED
  BY <1>1, <1>2, PTL DEF Spec

\* What three validations accepted apart is enough for the evaluation that relies on
\* it: no lookup misses, the fallback stays open under any load, and a claim within its
\* limit fits an idle window.
THEOREM Sufficiency == Spec => []AcceptedSuffices
<1>1. Accepted /\ Answered => AcceptedSuffices
  <2>1. Accepted => FallbackOpen
    BY FallbackPasses DEF FallbackOpen
  <2> QED
    BY <2>1 DEF Answered, AcceptedSuffices
<1> QED
  BY <1>1, Inductive, PTL

\* An intent is allowed by every document and by the controls that count, or not.
THEOREM Governance == Spec => []AllowedIsGoverned
<1>1. Answered => AllowedIsGoverned
  BY DEF Answered
<1> QED
  BY <1>1, Inductive, PTL

\* A requester without authority is answered alike, whatever evidence and controls it
\* sends or the resolvers find.
THEOREM Reticence == Spec => []StrangersLearnNothing
<1>1. Answered => StrangersLearnNothing
  BY DEF Answered
<1> QED
  BY <1>1, Inductive, PTL
=============================================================================
