------------------------- MODULE ConnectionContract -------------------------
(***************************************************************************)
(* The documents of a connection and what the engine concludes from them:  *)
(* the profile, the declaration bound to it, a grant under the declaration *)
(* and the intents under the grant.  Each document is accepted on its own  *)
(* (validate_profile, validate_declaration, _validate_grant,               *)
(* _validate_intent); evaluate_intent looks things up in all of them at    *)
(* once and relies on what was accepted before.                            *)
(*                                                                         *)
(* Times, hashes and the state of permits are PermitLedger's; here the     *)
(* rules across documents are kept, and the load a gate meets is arbitrary.*)
(* A document that declares an identifier twice is refused, so what a      *)
(* document declares is a function of its identifiers.                     *)
(***************************************************************************)
EXTENDS Naturals, FiniteSets

CONSTANTS
  Profiles,      \* profiles submitted
  Declarations,  \* declarations submitted
  Grants,        \* grants submitted
  Intents,       \* intents submitted
  Bundles,       \* evidence: [VALID types, INVALID types]
  Controls,      \* results of controls: [prerequisites, blocks, reviews, ambiguous]
  Loads          \* [remaining budget, amount committed or reserved per resource]

\* Claims and limits are natural numbers (_require_non_negative_int); what is left of
\* the budget and what is taken of a window are differences and sums of them that the
\* gates keep natural (PermitLedger).
ASSUME AmountAssumption ==
  /\ \A load \in Loads : load.remaining \in Nat /\ load.taken \in Nat
  /\ \A i \in Intents : \A r \in DOMAIN i.claims : i.claims[r] \in Nat
  /\ \A d \in Declarations : \A r \in DOMAIN d.limits :
       d.limits[r].perIntent \in Nat /\ d.limits[r].perWindow \in Nat

Failed == [status |-> "FAILED"]
Resolved(x) == [status |-> "RESOLVED", of |-> x]

VARIABLES
  profile, declaration, grant,
  resolvers, \* "EVIDENCE", "CONTROLS": what a resolver finds replaces what is submitted
  stage,     \* the document accepted last
  asked,     \* the last intent with the evidence and controls it was judged on
  verdict    \* and its reason

vars == <<profile, declaration, grant, resolvers, stage, asked, verdict>>

-----------------------------------------------------------------------------
(* validate_profile *)

ActionsDeclared(p) ==
  /\ DOMAIN p.actions # {} /\ DOMAIN p.effects # {}
  /\ \A a \in DOMAIN p.actions :
       /\ p.actions[a].effect \in DOMAIN p.effects
       /\ p.actions[a].needs \subseteq DOMAIN p.resources

FallbackIsSafe(p) ==
  /\ p.fallback \in DOMAIN p.actions
  /\ p.actions[p.fallback].cost = 0
  /\ p.actions[p.fallback].needs = {}
  /\ ~p.effects[p.actions[p.fallback].effect]

ControlsApart(p) ==
  /\ p.prerequisites \cap p.blocks = {}
  /\ p.prerequisites \cap p.reviews = {}
  /\ p.blocks \cap p.reviews = {}

EvidenceCovers(p) ==
  /\ p.requirements # {}
  /\ \A r \in p.requirements : r.actions # {} /\ r.types # {}
  /\ UNION {r.actions : r \in p.requirements} = DOMAIN p.actions

WitnessCovers(p) ==
  /\ p.witness.actions = DOMAIN p.actions
  /\ p.witness.effects = DOMAIN p.effects

ProfileAccepted(p) ==
  /\ ActionsDeclared(p) /\ FallbackIsSafe(p) /\ ControlsApart(p)
  /\ EvidenceCovers(p) /\ WitnessCovers(p)

-----------------------------------------------------------------------------
(* validate_declaration *)

ScopeWithin(d, p) ==
  /\ d.actions # {} /\ d.actions \subseteq DOMAIN p.actions
  /\ DOMAIN d.bindings = d.actions
  /\ \A a \in d.actions : d.bindings[a] # {} /\ d.bindings[a] \subseteq d.targets
  /\ d.effects \subseteq DOMAIN p.effects
  /\ {p.actions[a].effect : a \in d.actions} \subseteq d.effects
  /\ DOMAIN d.constraints # {} /\ \A n \in DOMAIN d.constraints : d.constraints[n] # {}

LimitOrdered(limit) == limit.seconds # 0 /\ limit.perIntent <= limit.perWindow

\* Mutation: a limit is required for what the declaration limits.
CoversLimited(d, p) == TRUE

CoversNeeds(d, p) == UNION {p.actions[a].needs : a \in d.actions} \subseteq DOMAIN d.limits

LimitsCover(d, p) ==
  /\ DOMAIN d.limits \subseteq DOMAIN p.resources
  /\ \A r \in DOMAIN d.limits : LimitOrdered(d.limits[r])
  /\ CoversNeeds(d, p)

\* Mutation: a system may be a target and off limits at once.
TargetsAnyhow(d) == TRUE

TargetsOnLimits(d) == d.targets \cap d.offLimits = {}

DeclarationAccepted(d, p) ==
  /\ d.profile = p.id
  /\ ScopeWithin(d, p) /\ LimitsCover(d, p) /\ TargetsOnLimits(d)

-----------------------------------------------------------------------------
(* _validate_grant, _validate_intent and what resolves evidence and controls *)

GrantAccepted(g, d) ==
  /\ g.actions # {} /\ g.actions \subseteq d.actions
  /\ g.targets # {} /\ g.targets \subseteq d.targets

\* The controls an intent reports are those of the profile, no fewer and no more.
ControlsFit(c, p) ==
  /\ DOMAIN c.prerequisites = p.prerequisites
  /\ DOMAIN c.blocks = p.blocks
  /\ DOMAIN c.reviews = p.reviews

\* A bundle has one item of each type; a resolved one may be of any form.
EvidenceFits(e) == e.VALID \cup e.INVALID # {} /\ e.VALID \cap e.INVALID = {}

IntentAccepted(i, e) ==
  /\ ControlsFit(i.controls, profile)
  /\ EvidenceFits(e)

SameControls(c, d) ==
  /\ DOMAIN c.prerequisites = DOMAIN d.prerequisites
  /\ DOMAIN c.blocks = DOMAIN d.blocks
  /\ DOMAIN c.reviews = DOMAIN d.reviews

\* _resolve_controls: with a resolver only what it finds counts, and what it cannot
\* find, or finds for other controls, is a failure.
ControlsOf(i, found) ==
  IF "CONTROLS" \notin resolvers THEN Resolved(i.controls)
  ELSE IF found # Failed /\ SameControls(found.of, i.controls) THEN found ELSE Failed

EvidenceOf(e, found) ==
  IF "EVIDENCE" \notin resolvers THEN Resolved(e)
  ELSE IF found # Failed /\ EvidenceFits(found.of) THEN found ELSE Failed

-----------------------------------------------------------------------------
(* evaluate_intent *)

RequiredEvidence(a) == UNION {r.types : r \in {q \in profile.requirements : a \in q.actions}}

\* Why the intent is refused before evidence and controls are resolved.
Unauthorised(i) ==
  IF ~i.bound THEN "BINDING_MISMATCH"
  ELSE IF i.grant # grant.id THEN "AUTHORITY_UNKNOWN"
  ELSE IF i.requester # grant.subject THEN "AUTHORITY_SUBJECT_MISMATCH"
  ELSE IF i.action \notin grant.actions \cap declaration.actions THEN "ACTION_OUT_OF_SCOPE"
  ELSE IF i.target \notin grant.targets \cap declaration.targets THEN "TARGET_OUT_OF_SCOPE"
  ELSE IF i.action \notin DOMAIN profile.actions THEN "LOOKUP_MISS"
  ELSE IF i.action \notin DOMAIN declaration.bindings THEN "LOOKUP_MISS"
  ELSE IF i.target \notin declaration.bindings[i.action] THEN "ACTION_TARGET_MISMATCH"
  ELSE IF profile.actions[i.action].effect \notin declaration.effects THEN "EFFECT_OUT_OF_SCOPE"
  ELSE IF DOMAIN i.scope # DOMAIN declaration.constraints THEN "SCOPE_DIMENSION_MISMATCH"
  ELSE IF \E n \in DOMAIN i.scope : i.scope[n] \notin declaration.constraints[n]
       THEN "SCOPE_VALUE_OUT_OF_RANGE"
  ELSE "NONE"

\* Why evidence and controls, once resolved, keep the intent from the gates.
HeldBack(i, e, c) ==
  IF e = Failed \/ c = Failed THEN "AUTHORITATIVE_RESOLUTION_FAILED"
  ELSE IF e.of.INVALID # {} THEN "EVIDENCE_INVALID"
  ELSE IF ~(RequiredEvidence(i.action) \subseteq e.of.VALID) THEN "EVIDENCE_MISSING"
  ELSE IF c.of.ambiguous THEN "AMBIGUOUS_INTENT"
  ELSE IF \E n \in DOMAIN c.of.prerequisites : ~c.of.prerequisites[n] THEN "PREREQUISITE_FALSE"
  ELSE IF \E n \in DOMAIN c.of.blocks : c.of.blocks[n] THEN "HARD_BLOCK"
  ELSE IF \E n \in DOMAIN c.of.reviews : c.of.reviews[n] THEN "MANUAL_REVIEW_REQUIRED"
  ELSE "NONE"

RuleBreach(r, amount, effectful) ==
  IF profile.resources[r] = "POSITIVE" /\ amount = 0 THEN "RESOURCE_MUST_BE_POSITIVE"
  ELSE IF profile.resources[r] = "ZERO" /\ amount # 0 THEN "RESOURCE_MUST_BE_ZERO"
  ELSE IF profile.resources[r] = "POSITIVE_IF_EFFECTFUL" /\ effectful /\ amount = 0
       THEN "EFFECTFUL_RESOURCE_MUST_BE_POSITIVE"
  ELSE "NONE"

\* _effect_gate for one resource of the claim.
ResourceGate(i, r, load) ==
  LET effect == profile.actions[i.action].effect
      amount == i.claims[r]
  IN IF r \notin DOMAIN profile.resources THEN "LOOKUP_MISS"
     ELSE LET breach == RuleBreach(r, amount, profile.effects[effect]) IN
          IF breach # "NONE" THEN breach
          ELSE IF r \notin DOMAIN declaration.limits THEN "LOOKUP_MISS"
          ELSE IF amount > declaration.limits[r].perIntent THEN "RESOURCE_PER_INTENT_LIMIT"
          ELSE IF load.taken + amount > declaration.limits[r].perWindow
               THEN "RESOURCE_WINDOW_LIMIT"
          ELSE "NONE"

\* The codes a gate may answer with: the first resource that fails gives the code, and
\* the resources are looked at in no set order.
EffectGate(i, load) ==
  IF DOMAIN i.claims # profile.actions[i.action].needs THEN {"RESOURCE_CLAIM_SET"}
  ELSE IF profile.actions[i.action].effect \notin DOMAIN profile.effects THEN {"LOOKUP_MISS"}
  ELSE LET codes == {ResourceGate(i, r, load) : r \in DOMAIN i.claims} \ {"NONE"} IN
       IF codes = {} THEN {"ALLOW_ISSUED"} ELSE codes

\* Both gates are asked; an exhausted budget gives the code of the two.
Gates(i, load) ==
  LET exhausted == load.remaining < profile.actions[i.action].cost
  IN {IF exhausted /\ code # "LOOKUP_MISS" THEN "STRUCTURAL_BUDGET_EXHAUSTED" ELSE code :
        code \in EffectGate(i, load)}

\* Mutation: evidence and controls are resolved before the authority is looked at.
ResolvesFirst(i, e, c, load) ==
  IF HeldBack(i, e, c) # "NONE" THEN {HeldBack(i, e, c)}
  ELSE IF Unauthorised(i) # "NONE" THEN {Unauthorised(i)}
  ELSE Gates(i, load)

Judgement(i, e, c, load) ==
  IF Unauthorised(i) # "NONE" THEN {Unauthorised(i)}
  ELSE IF HeldBack(i, e, c) # "NONE" THEN {HeldBack(i, e, c)}
  ELSE Gates(i, load)

\* The operator's answer: three codes for all reasons.
PublicCode(reason) ==
  IF reason = "ALLOW_ISSUED" THEN "EXECUTION_AUTHORIZED"
  ELSE IF reason \in {"AMBIGUOUS_INTENT", "MANUAL_REVIEW_REQUIRED"} THEN "HUMAN_REVIEW_REQUIRED"
  ELSE "EXECUTION_DENIED"

-----------------------------------------------------------------------------
(* The documents come in one after the other *)

NoCase == Failed

Bind ==
  /\ stage = "PROFILE"
  /\ ProfileAccepted(profile)
  /\ \E d \in Declarations :
       /\ DeclarationAccepted(d, profile)
       /\ declaration' = d
  /\ stage' = "DECLARATION"
  /\ UNCHANGED <<profile, grant, resolvers, asked, verdict>>

IssueGrant ==
  /\ stage = "DECLARATION"
  /\ \E g \in Grants :
       /\ GrantAccepted(g, declaration)
       /\ grant' = g
  /\ stage' = "GRANT"
  /\ UNCHANGED <<profile, declaration, resolvers, asked, verdict>>

EvaluateIntent(i, e, foundEvidence, foundControls, load) ==
  /\ IntentAccepted(i, e)
  /\ asked' = [intent |-> i, load |-> load, found |-> foundControls,
               evidence |-> EvidenceOf(e, foundEvidence)]
  /\ verdict' \in Judgement(i, EvidenceOf(e, foundEvidence), ControlsOf(i, foundControls), load)
  /\ stage' = "VERDICT"
  /\ UNCHANGED <<profile, declaration, grant, resolvers>>

\* What a resolver may find: any of these, or nothing.  Without one nothing is asked.
Finds(of, values) ==
  IF of \in resolvers THEN {Failed} \cup {Resolved(x) : x \in values} ELSE {Failed}

Init ==
  /\ profile \in Profiles
  /\ declaration = "NONE" /\ grant = "NONE"
  /\ resolvers \in SUBSET {"EVIDENCE", "CONTROLS"}
  /\ stage = "PROFILE"
  /\ asked = NoCase /\ verdict = "NONE"

Next ==
  \/ Bind
  \/ IssueGrant
  \/ /\ stage = "GRANT"
     /\ \E i \in Intents, e \in Bundles, load \in Loads,
           fe \in Finds("EVIDENCE", Bundles), fc \in Finds("CONTROLS", Controls) :
          EvaluateIntent(i, e, fe, fc, load)

Spec == Init /\ [][Next]_vars

-----------------------------------------------------------------------------
(* Properties *)

Judged == stage = "VERDICT"

\* No evaluation looks up what an accepted document does not declare.
LookupsHit == Judged => verdict # "LOOKUP_MISS"

\* What is allowed is within all documents at once: an action and a target of grant and
\* declaration, on a system not off limits, with every required type of evidence valid
\* and each resource that the action needs claimed within a limit for it.
AllowedByDocuments ==
  Judged /\ verdict = "ALLOW_ISSUED" =>
    LET i == asked.intent
        a == profile.actions[i.action]
    IN /\ i.action \in grant.actions /\ i.target \in grant.targets
       /\ i.target \in declaration.bindings[i.action] \ declaration.offLimits
       /\ \E r \in profile.requirements : i.action \in r.actions
       /\ \A r \in profile.requirements :
            i.action \in r.actions => r.types \subseteq asked.evidence.of.VALID
       /\ DOMAIN i.claims = a.needs
       /\ \A r \in a.needs : i.claims[r] <= declaration.limits[r].perWindow

\* The fallback that every profile must name is always open: once the intent passes
\* evidence and controls with an empty claim, no gate refuses it, whatever the load.
FallbackOpen ==
  stage = "GRANT" => \A i \in Intents, load \in Loads :
    i.action = profile.fallback /\ Unauthorised(i) = "NONE" /\ DOMAIN i.claims = {} =>
      Gates(i, load) = {"ALLOW_ISSUED"}

\* A claim within its limit per intent is never too much for an idle connection.
IdleWindowFits ==
  Judged /\ verdict = "RESOURCE_WINDOW_LIMIT" => asked.load.taken > 0

\* What three validations accepted apart is enough for the evaluation that relies on
\* it: no gate looks up what nobody declared (the comment in _effect_gate that "the
\* lookup cannot miss on any input the constructor accepts"), the safe fallback stays
\* open under any load, and a claim within its limit fits an idle window.
AcceptedSuffices == LookupsHit /\ FallbackOpen /\ IdleWindowFits

\* With a resolver of controls nothing is allowed but what it found, and found free of
\* every flag the profile names: a connector gains nothing by breaking it.
ResolverDecides ==
  Judged /\ verdict = "ALLOW_ISSUED" /\ "CONTROLS" \in resolvers =>
    /\ asked.found # Failed
    /\ \A n \in profile.prerequisites : asked.found.of.prerequisites[n]
    /\ \A n \in profile.blocks : ~asked.found.of.blocks[n]
    /\ \A n \in profile.reviews : ~asked.found.of.reviews[n]
    /\ ~asked.found.of.ambiguous

\* An intent is allowed by every document and by the controls that count, or not.
AllowedIsGoverned == AllowedByDocuments /\ ResolverDecides

\* A requester without authority is answered alike, whatever evidence and controls
\* it sends or the resolvers find: the answer does not tell how far the intent came.
StrangersLearnNothing ==
  Judged /\ Unauthorised(asked.intent) # "NONE" => PublicCode(verdict) = "EXECUTION_DENIED"
=============================================================================
