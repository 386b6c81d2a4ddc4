------------------------ MODULE MCCampaignAdmission ------------------------
(* A community pack among seven contents: harmless abilities, active ones, one  *)
(* that would redefine a built-in id, ones that are out of bounds; campaigns    *)
(* with a chain, a diamond and a dependency on a later step; detection rules.   *)
EXTENDS CampaignAdmission

Ability(id, providers, types, network, changes, production, technique, prohibited) ==
    [id |-> id, formed |-> TRUE, supported_providers |-> providers, default_provider |-> "simulate",
     state_changes |-> changes, cleanup_ref |-> changes, network_access |-> network,
     allowed_target_types |-> types, production_allowed |-> production,
     requires_elevation |-> FALSE, technique |-> technique, prohibited |-> prohibited]

Safe(id)   == Ability(id, {"simulate"}, {"synthetic"}, "denied", FALSE, FALSE, "T1", 0)
Active(id) == Ability(id, {"simulate", "local", "docker"}, {"localhost", "container"}, "required",
                      TRUE, FALSE, "T2", 0)
Production(id) == Ability(id, {"simulate", "local"}, {"localhost", "cloud-account"}, "denied", FALSE, TRUE, "T2", 0)

Step(id, ability, depends, failure) ==
    [id |-> id, ability_id |-> ability, depends_on |-> depends, on_failure |-> failure]

Campaign(id, steps) == [id |-> id, formed |-> TRUE, steps |-> steps, prohibited |-> 0]

Rule(id, fields, required) ==
    [id |-> id, formed |-> TRUE, answers |-> FALSE, fields |-> fields, group_by |-> {"agent_id"},
     required_fields |-> required, prohibited |-> 0]

Pack(kind, items) ==
    [kind |-> kind, pack_id |-> "own", formed |-> TRUE, items |-> items, provenance |-> None,
     integrity |-> Checksum(items, None)]

MCBuiltinAbilities == Pack("ability-pack", <<Safe("b1"), Active("b2")>>)

MCOwnCampaigns ==
    Pack("campaign-pack",
         <<Campaign("own", <<Step("s1", "b1", {}, "continue"), Step("s2", "c1", {"s1"}, "continue"),
                             Step("s3", "b2", {"s2"}, "stop"), Step("s4", "c1", {"s1", "s3"}, "stop")>>)>>)

MCContents ==
    {[kind |-> "ability-pack", items |-> items] :
        items \in {<<Safe("c1")>>, <<Active("c1")>>, <<Safe("c1"), Active("b1")>>,
                   <<Active("c1"), Production("c2")>>,
                   <<[Safe("c1") EXCEPT !.prohibited = 1]>>,
                   <<[Active("c1") EXCEPT !.cleanup_ref = FALSE]>>, <<Production("c1")>>}}
    \union
    {[kind |-> "campaign-pack", items |-> <<Campaign("shared", steps)>>] :
        steps \in {<<Step("s1", "b2", {}, "stop"), Step("s2", "b1", {}, "stop"),
                     Step("s3", "b2", {"s1", "s2"}, "stop")>>,
                   <<Step("s1", "b1", {"s2"}, "continue"), Step("s2", "b2", {}, "continue")>>}}
    \union
    {[kind |-> "detection-pack", items |-> <<Rule("d1", {"event_type"}, required)>>] :
        required \in {{"event_type"}, {"event_type", "agent_id"}}}

Record(status, created, reviewed) ==
    [formed |-> TRUE, status |-> status, created |-> created, reviewed |-> reviewed]

MCProvenances == {Record("approved", 1, 2), Record("pending", 1, 1), Record("approved", 2, 1)}

MCBuiltinKeys == [id \in {"agentsim"} |-> "K0"]
MCSigners     == {<<"agentsim", "K0">>, <<"lab", "K1">>, <<"agentsim", "K1">>}
MCTrustStores == {[id \in {"lab"} |-> "K1"], [id \in {"agentsim"} |-> "K1"], [id \in {"lab"} |-> "K2"]}

Entry(uri) == [uri |-> uri, network |-> {}]

MCTargets ==
    {FromUri("synthetic", "ci", None), FromUri("localhost", "host", None),
     FromUri("ip", 7, None), FromUri("cloud", "account", None)}

MCManifests ==
    {[issued_at |-> 0, expires_at |-> 2, allowed_modes |-> {"simulate", "emulate"},
      allowed_targets |-> {Entry(t.uri) : t \in MCTargets}, allowed_ability_ids |-> {"*"},
      allow_network |-> TRUE, max_actions |-> 4],
     [issued_at |-> 0, expires_at |-> 9, allowed_modes |-> {"simulate", "lab"},
      allowed_targets |-> {Entry(<<"synthetic", "ci">>), [uri |-> <<"cidr", 7>>, network |-> {7}]},
      allowed_ability_ids |-> {"b1", "b2"}, allow_network |-> FALSE, max_actions |-> 3]}
=============================================================================
