---------------------------- MODULE SafetyPolicy ----------------------------
(* Targets, the authorization manifest, the policy's ordered checks, and the    *)
(* plan of a campaign (agentsim/safety, models/target.py, planner.py).  Times   *)
(* are numbers; an entry of the target allowlist has a uri and, where it is a   *)
(* cidr:// entry, the addresses of its network.                                *)
EXTENDS Naturals, FiniteSets, SequencesExt, FiniteSetsExt

CONSTANT None       \* what is not there

ModeProvider == [mode \in {"simulate", "emulate", "lab"} |->
    CASE mode = "simulate" -> "simulate" [] mode = "emulate" -> "local" [] mode = "lab" -> "docker"]

-----------------------------------------------------------------------------

TypeByScheme == [scheme \in {"synthetic", "localhost", "docker", "lab-agent", "ip", "cloud"} |->
    CASE scheme = "docker" -> "container" [] scheme = "ip" -> "ip-address"
      [] scheme = "cloud" -> "cloud-account" [] OTHER -> scheme]

\* TargetProfile.from_uri: the scheme gives the type, and the environment unless one is named.
FromUri(scheme, identifier, environment) ==
    [uri |-> <<scheme, identifier>>, target_type |-> TypeByScheme[scheme], identifier |-> identifier,
     environment |-> IF environment # None THEN environment
                     ELSE CASE scheme = "synthetic" -> "synthetic" [] scheme = "cloud" -> "production"
                            [] OTHER -> "lab"]

TargetIsAllowed(target, allowed) ==
    \E entry \in allowed :
        \/ entry.uri = target.uri
        \/ target.target_type = "ip-address" /\ target.identifier \in entry.network

\* AuthorizationManifest.from_mapping.
ManifestFormed(m) ==
    /\ m.issued_at < m.expires_at
    /\ m.allowed_modes # {} /\ m.allowed_modes \subseteq DOMAIN ModeProvider
    /\ m.allowed_targets # {} /\ m.allowed_ability_ids # {}
    /\ m.max_actions > 0

Expired(m, now) == now >= m.expires_at

\* SafetyPolicy.authorize: each check with the reason that it gives, in order.
Checks(a, mode, target, manifest, network, now) ==
    LET provider == IF mode \in DOMAIN ModeProvider THEN ModeProvider[mode] ELSE ""
    IN  << <<provider = "", "unsupported">>,
           <<Expired(manifest, now), "expired">>,
           <<mode \notin manifest.allowed_modes, "mode">>,
           <<~TargetIsAllowed(target, manifest.allowed_targets), "target">>,
           <<manifest.allowed_ability_ids \intersect {"*", a.id} = {}, "ability">>,
           <<provider \notin a.supported_providers, "provider">>,
           <<provider = "local" /\ target.target_type # "localhost", "localhost">>,
           <<provider = "docker" /\ target.target_type # "container", "container">>,
           <<target.target_type \notin a.allowed_target_types /\ mode # "simulate", "target_type">>,
           <<target.environment = "production" /\ ~a.production_allowed, "production">>,
           <<a.requires_elevation, "elevation">>,
           <<mode # "simulate" /\ a.network_access = "required"
                /\ ~(network /\ manifest.allow_network), "network">>,
           <<a.state_changes /\ ~a.cleanup_ref, "cleanup">> >>

\* The first check that fails gives the reason.
Authorize(a, mode, target, manifest, network, now) ==
    LET checks  == Checks(a, mode, target, manifest, network, now)
        failing == {i \in DOMAIN checks : checks[i][1]}
    IN  IF failing = {} THEN [allowed |-> TRUE, reason |-> "authorized"]
        ELSE [allowed |-> FALSE, reason |-> checks[Min(failing)][2]]

\* plan_campaign: None where it raises.
PlanCampaign(campaign, abilities, mode, target, manifest, network, now) ==
    LET steps == campaign.steps
    IN  IF Len(steps) > manifest.max_actions \/ \E i \in DOMAIN steps : steps[i].ability_id \notin DOMAIN abilities
        THEN None
        ELSE LET actions == [i \in DOMAIN steps |->
                     Authorize(abilities[steps[i].ability_id], mode, target, manifest, network, now)]
             IN  [actions |-> actions, authorized |-> \A i \in DOMAIN actions : actions[i].allowed]
=============================================================================
