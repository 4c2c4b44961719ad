------------------------ MODULE MCConnectionContract ------------------------
(* A payment and its fallback; every other document departs from a sound one. *)
EXTENDS ConnectionContract, TLC

Flag(name, up) == name :> up

P0 == [id |-> "pay", effects |-> "moves" :> TRUE @@ "rests" :> FALSE,
       resources |-> "sum" :> "POSITIVE_IF_EFFECTFUL",
       actions |-> "send" :> [effect |-> "moves", cost |-> 1, needs |-> {"sum"}]
                @@ "hold" :> [effect |-> "rests", cost |-> 0, needs |-> {}],
       prerequisites |-> {"checked"}, blocks |-> {"embargo"}, reviews |-> {"doubt"},
       fallback |-> "hold",
       requirements |-> {[actions |-> {"send", "hold"}, types |-> {"order"}]},
       witness |-> [actions |-> {"send", "hold"}, effects |-> {"moves", "rests"}]]

MCProfiles ==
  {[P0 EXCEPT !.resources["sum"] = rule, !.actions["hold"] = hold] :
     rule \in {"NON_NEGATIVE", "POSITIVE", "ZERO", "POSITIVE_IF_EFFECTFUL"},
     hold \in {P0.actions["hold"], [P0.actions["hold"] EXCEPT !.needs = {"sum"}]}}
  \cup {[P0 EXCEPT !.actions["hold"].cost = 1], [P0 EXCEPT !.effects["rests"] = TRUE],
        [P0 EXCEPT !.fallback = "send"], [P0 EXCEPT !.reviews = {"embargo"}],
        [P0 EXCEPT !.requirements = {[actions |-> {"send"}, types |-> {"order"}]}],
        [P0 EXCEPT !.witness.actions = {"hold"}],
        [P0 EXCEPT !.actions["send"].needs = {"sum", "weight"}]}

D0 == [profile |-> "pay", actions |-> {"send", "hold"}, effects |-> {"moves", "rests"},
       targets |-> {"bank"},
       bindings |-> "send" :> {"bank"} @@ "hold" :> {"bank"},
       constraints |-> "region" :> {"home"},
       limits |-> "sum" :> [perIntent |-> 1, perWindow |-> 1, seconds |-> 1],
       offLimits |-> {}]

MCDeclarations ==
  {[D0 EXCEPT !.bindings["send"] = b, !.targets = t, !.offLimits = o] :
     b \in {{"bank"}, {"archive"}}, t \in {{"bank"}, {"bank", "archive"}}, o \in {{}, {"archive"}}}
  \cup {[D0 EXCEPT !.limits["sum"] = [perIntent |-> m, perWindow |-> w, seconds |-> s]] :
          m \in 1..2, w \in 1..2, s \in 0..1}
  \cup {[D0 EXCEPT !.limits = <<>>], [D0 EXCEPT !.profile = "other"], [D0 EXCEPT !.effects = {"rests"}],
        [D0 EXCEPT !.actions = {"hold"}, !.bindings = "hold" :> {"bank"}, !.limits = <<>>]}

MCGrants ==
  [id : {"g"}, subject : {"ann"}, actions : {{"send", "hold"}, {"hold"}}, targets : {{"bank"}, {"bank", "archive"}}]

Told(checked, embargo, doubt, ambiguous) ==
  [prerequisites |-> Flag("checked", checked), blocks |-> Flag("embargo", embargo),
   reviews |-> Flag("doubt", doubt), ambiguous |-> ambiguous]

Clean == Told(TRUE, FALSE, FALSE, FALSE)

MCControls ==
  {Clean, Told(FALSE, FALSE, FALSE, FALSE), Told(TRUE, TRUE, FALSE, FALSE),
   Told(TRUE, FALSE, TRUE, FALSE), Told(TRUE, FALSE, FALSE, TRUE), [Clean EXCEPT !.blocks = <<>>]}

I0 == [bound |-> TRUE, grant |-> "g", requester |-> "ann", action |-> "send", target |-> "bank",
       scope |-> "region" :> "home", claims |-> "sum" :> 1, controls |-> Clean]

MCIntents ==
  {[I0 EXCEPT !.action = a, !.target = t, !.claims = c] :
     a \in {"send", "hold", "wipe"}, t \in {"bank", "archive"}, c \in {<<>>, "sum" :> 0, "sum" :> 1, "sum" :> 2}}
  \cup {[I0 EXCEPT !.controls = c] : c \in MCControls}
  \cup {[I0 EXCEPT !.bound = FALSE], [I0 EXCEPT !.grant = "h"], [I0 EXCEPT !.requester = "bob"],
        [I0 EXCEPT !.requester = "bob", !.controls = Told(TRUE, FALSE, FALSE, TRUE)],
        [I0 EXCEPT !.scope = "region" :> "away"], [I0 EXCEPT !.scope = "season" :> "home"]}

MCBundles == {[VALID |-> {"order"}, INVALID |-> {}], [VALID |-> {"note"}, INVALID |-> {}],
              [VALID |-> {}, INVALID |-> {"order"}], [VALID |-> {}, INVALID |-> {}]}

MCLoads == [remaining : 0..1, taken : 0..1]
=============================================================================
