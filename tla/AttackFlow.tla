----------------------------- MODULE AttackFlow -----------------------------
(* Campaigns as STIX Attack Flow bundles and back (reporting/attack_flow.py).   *)
(* A bundle is its number of flow objects and its actions in the order of the   *)
(* file; an action's effects are the actions it leads to.                      *)
EXTENDS Naturals, FiniteSets, SequencesExt, FiniteSetsExt

CONSTANT None

\* export_campaign: an action for each step; a dependency is an effect of what is depended on.
ExportCampaign(campaign, abilities) ==
    [flows |-> 1,
     actions |-> [i \in DOMAIN campaign.steps |->
        LET step == campaign.steps[i]
        IN  [id |-> step.id, ability |-> step.ability_id,
             technique |-> abilities[step.ability_id].technique,
             effects |-> {s.id : s \in {t \in ToSet(campaign.steps) : step.id \in t.depends_on}}]]]

\* Deviation: an action waits for any of what it depends on.
ReadyAfterAny(incoming, remaining) ==
    {i \in remaining : incoming[i] = {} \/ incoming[i] \ remaining # {}}

\* The actions whose causes have all been placed.
Ready(incoming, remaining) == {i \in remaining : incoming[i] \intersect remaining = {}}

\* The reviewed ability that an action stands for: the one that it names, or else the
\* first one of its technique.
AbilityOf(action, abilities) ==
    LET named == IF action.ability # None THEN {action.ability}
                 ELSE {id \in DOMAIN abilities : /\ action.technique # None
                                                 /\ abilities[id].technique = action.technique}
        known == named \intersect DOMAIN abilities
    IN  IF known = {} THEN None ELSE CHOOSE id \in known : TRUE

\* The order of import: again and again the first action of the file that is ready, until
\* none is left or none is ready.
ImportOrder(mapped, incoming) ==
    LET placed[n \in 0..Cardinality(mapped)] ==
            IF n = 0 THEN <<>>
            ELSE LET ready == Ready(incoming, mapped \ ToSet(placed[n - 1]))
                 IN  IF ready = {} THEN placed[n - 1] ELSE Append(placed[n - 1], Min(ready))
    IN  placed[Cardinality(mapped)]

\* import_campaign: None where it raises.  Steps are named by their number.
ImportCampaign(bundle, abilities) ==
    LET actions  == bundle.actions
        mapped   == {i \in DOMAIN actions : AbilityOf(actions[i], abilities) # None}
        incoming == [i \in mapped |-> {j \in mapped : actions[i].id \in actions[j].effects}]
        order    == ImportOrder(mapped, incoming)
        Position(i) == CHOOSE k \in DOMAIN order : order[k] = i
    IN  IF bundle.flows # 1 \/ mapped = {} \/ Len(order) # Cardinality(mapped) THEN None
        ELSE [steps |-> [k \in DOMAIN order |->
                 [id |-> k, ability_id |-> AbilityOf(actions[order[k]], abilities),
                  depends_on |-> {Position(j) : j \in incoming[order[k]]}, on_failure |-> "stop"]],
              skipped |-> Cardinality(DOMAIN actions \ mapped)]
=============================================================================
