-------------------------- MODULE CampaignAdmission --------------------------
(* From a pack on disk to the actions of a campaign: packs are edited, signed   *)
(* and reviewed; api.plan and api.run_campaign load the registries as they are  *)
(* at that moment, without keys of an external store, and the run decides each  *)
(* step at its own time.  What an action does is left to CampaignRunner: here   *)
(* it completes or fails.                                                      *)
EXTENDS ContentPacks

INSTANCE SafetyPolicy
INSTANCE AttackFlow

CONSTANTS
    BuiltinAbilities,   \* the ability pack of the package
    OwnCampaigns,       \* the campaign pack of the operator
    Contents,           \* what an author may write: a kind of pack and its items
    Provenances,        \* provenance records that an author may add
    Signers,            \* who signs packs: key ids with the key that is used
    TrustStores,        \* the trust stores that a reviewer may name
    Manifests,          \* the authorization manifests
    Targets,            \* the targets
    Catalog,            \* abilities whose command reference the catalog resolves
    MaxEdits,           \* bound: edits and signatures of the community pack
    MaxTime             \* bound: the clock

\* What JSON gives before anything is parsed: a pack's items and a campaign's steps are arrays.
ItemsFormed(kind, items) ==
    /\ items \in Seq(ToSet(items))
    /\ \A x \in ToSet(items) : x.prohibited \in Nat
    /\ kind = "campaign-pack" => \A c \in ToSet(items) : c.steps \in Seq(ToSet(c.steps))

ASSUME AdmissionAssumption ==
    /\ MaxEdits \in Nat /\ MaxTime \in Nat
    /\ \A m \in Manifests : ManifestFormed(m) /\ m.issued_at \in Nat /\ m.expires_at \in Nat
    /\ \A c \in Contents :
          /\ c.kind \in {"ability-pack", "campaign-pack", "detection-pack"}
          /\ ItemsFormed(c.kind, c.items)
    /\ ItemsFormed("ability-pack", BuiltinAbilities.items)
    /\ ParsesAbilities(BuiltinAbilities, <<>>)
    /\ ItemsFormed("campaign-pack", OwnCampaigns.items)

\* What is missing is neither the id of an ability nor a campaign.
ASSUME NoneAssumption ==
    LET abilities == (UNION {ToSet(c.items) : c \in {d \in Contents : d.kind = "ability-pack"}})
                        \union ToSet(BuiltinAbilities.items)
        ids       == {a.id : a \in abilities}
    IN  /\ None \notin ids
        /\ None \notin [steps : Seq([id : Nat, ability_id : ids, depends_on : SUBSET Nat, on_failure : {"stop"}]),
                        skipped : Nat]

VARIABLES
    pack,       \* the community pack on disk
    edits,      \* edits made
    signed,     \* whatever was signed, with its key
    now,        \* the clock
    run         \* the campaign run: what it loaded, its plan, what became of its steps

vars == <<pack, edits, signed, now, run>>

NoRun == [status |-> "none"]

Checksum(items, signature) == [digest |-> Digest(items), signature |-> signature]

Init ==
    /\ \E c \in Contents, p \in Provenances \union {None}, i \in BOOLEAN :
          pack = [kind |-> c.kind, pack_id |-> "community", formed |-> TRUE, items |-> c.items,
                  provenance |-> p, integrity |-> IF i THEN Checksum(c.items, None) ELSE None]
    /\ edits = 0
    /\ signed = {}
    /\ now = 1
    /\ run = NoRun

-----------------------------------------------------------------------------
(* Authors and maintainers.  A run keeps what it loaded, so that what becomes   *)
(* of the pack after its start is left out.                                    *)

Write(written) ==
    /\ run = NoRun
    /\ edits < MaxEdits
    /\ edits' = edits + 1
    /\ pack' = written
    /\ UNCHANGED <<now, run>>

\* An editor changes the content, and leaves the checksum or refreshes it.
EditItems ==
    /\ \E c \in {d \in Contents : d.kind = pack.kind}, fresh \in BOOLEAN :
          Write([pack EXCEPT !.items = c.items,
                             !.integrity = IF ~fresh THEN @
                                           ELSE Checksum(c.items, IF @ = None THEN None ELSE @.signature)])
    /\ UNCHANGED signed

EditProvenance ==
    /\ \E p \in Provenances \union {None} : Write([pack EXCEPT !.provenance = p])
    /\ UNCHANGED signed

\* sign_content.py.
Sign ==
    \E signer \in Signers :
        LET written == Signed(pack, signer[1], signer[2])
        IN  /\ Write(written)
            /\ signed' = signed \union {written.integrity.signature.value}

Tick ==
    /\ now < MaxTime
    /\ now' = now + 1
    /\ UNCHANGED <<pack, edits, signed, run>>

-----------------------------------------------------------------------------
(* Runs.                                                                       *)

\* The packs of a kind that a command loads.  The pack of the community is among them if
\* it is of that kind; keys of an external store are never handed on.
LoadedAbilities ==
    AbilityRegistry(<<BuiltinAbilities>> \o (IF pack.kind = "ability-pack" THEN <<pack>> ELSE <<>>), <<>>)

LoadedCampaigns ==
    CampaignRegistry(<<OwnCampaigns>> \o (IF pack.kind = "campaign-pack" THEN <<pack>> ELSE <<>>), <<>>)

\* Deviation: the run does not hand on whether it may use the network.
DecideWithoutNetwork(r, i, time) ==
    Authorize(r.abilities[r.campaign.steps[i].ability_id], r.mode, r.target, r.manifest, FALSE, time)

\* What the policy says of a step at a time.
Decide(r, i, time) ==
    Authorize(r.abilities[r.campaign.steps[i].ability_id], r.mode, r.target, r.manifest, r.network, time)

\* api.run_campaign: load, look the campaign up, plan.  The plan's verdict does not stop it.
StartRun(campaign_id, mode, target, manifest, network) ==
    /\ run = NoRun
    /\ LoadedAbilities # None /\ LoadedCampaigns # None
    /\ campaign_id \in DOMAIN LoadedCampaigns
    /\ LET campaign == LoadedCampaigns[campaign_id]
           plan     == PlanCampaign(campaign, LoadedAbilities, mode, target, manifest, network, now)
       IN  /\ plan # None
           /\ run' = [status |-> "running", campaign |-> campaign, abilities |-> LoadedAbilities,
                      mode |-> mode, target |-> target, manifest |-> manifest, network |-> network,
                      planned |-> now, plan |-> plan, results |-> <<>>]
    /\ UNCHANGED <<pack, edits, signed, now>>

Settle(result) ==
    LET i     == Len(run.results) + 1
        steps == run.campaign.steps
    IN  run' = [run EXCEPT
                   !.results = Append(@, result),
                   !.status  = IF \/ i = Len(steps)
                                  \/ result.outcome # "completed" /\ steps[i].on_failure = "stop"
                               THEN "ended" ELSE "running"]

\* resolve_command_sequence: a reference that is not in the catalog raises in the provider.
Outcomes(i) ==
    IF run.mode = "simulate" THEN {"completed"}
    ELSE IF run.campaign.steps[i].ability_id \in Catalog THEN {"completed", "failed"}
    ELSE {"failed"}

\* One turn of the runner's loop: the step is authorized anew, then denied or attempted.
RunStep ==
    /\ run.status = "running"
    /\ LET i        == Len(run.results) + 1
           decision == Decide(run, i, now)
       IN  \/ /\ ~decision.allowed
              /\ Settle([decision |-> decision, time |-> now, outcome |-> "prevented"])
           \/ /\ decision.allowed
              /\ \E outcome \in Outcomes(i) :
                    Settle([decision |-> decision, time |-> now, outcome |-> outcome])
    /\ UNCHANGED <<pack, edits, signed, now>>

Next ==
    \/ EditItems \/ EditProvenance \/ Sign \/ Tick
    \/ \E id \in {c.id : c \in ToSet(OwnCampaigns.items) \union ToSet(pack.items)},
          mode \in DOMAIN ModeProvider, target \in Targets, manifest \in Manifests, network \in BOOLEAN :
          StartRun(id, mode, target, manifest, network)
    \/ RunStep

Spec == Init /\ [][Next]_vars

-----------------------------------------------------------------------------
(* Properties.                                                                 *)

\* The keys that a reviewer may come to trust.
ReviewerKeys == {MergedKeys(stores) : stores \in SUBSET TrustStores} \ {None}

\* A pack that a review approves is what a maintainer signed with a key that the reviewer
\* trusts: the same content, identity and provenance, whatever was edited since.
ApprovedAsSigned ==
    run = NoRun =>
        \A keys \in ReviewerKeys :
            Review(pack, keys).verdict = "approved" =>
                LET s == [kind |-> pack.kind, content_id |-> pack.pack_id,
                          digest |-> pack.items, provenance |-> pack.provenance]
                IN  \E id \in DOMAIN Trust(keys) : <<Trust(keys)[id], s>> \in signed

\* What a review does not block, its loader accepts with the reviewer's keys; and a key of
\* the package is never one that an external store brought.
ReviewedLoads ==
    run = NoRun =>
        \A keys \in ReviewerKeys :
            Review(pack, keys).verdict # "blocked" =>
                /\ Parses(pack, keys)
                /\ \A id \in DOMAIN BuiltinKeys :
                      pack.integrity.signature.key_id = id =>
                          pack.integrity.signature.value[1] = BuiltinKeys[id]

\* From the review to the run: an ability of an approved pack is never attempted but in
\* simulation, and never on a production target.
ApprovedOnlySimulates ==
    run # NoRun =>
        \A i \in DOMAIN run.results :
            LET id == run.campaign.steps[i].ability_id
            IN  ( /\ run.results[i].outcome # "prevented"
                  /\ pack.kind = "ability-pack"
                  /\ id \in {a.id : a \in ToSet(pack.items)}
                  /\ \E keys \in ReviewerKeys : Review(pack, keys).verdict = "approved" )
                => run.mode = "simulate" /\ run.target.environment # "production"

\* What an approval promises: who answers for the content, that it loads, and that it only
\* simulates.
ApprovalIsEarned == ApprovedAsSigned /\ ReviewedLoads /\ ApprovedOnlySimulates

\* An ability is the one that its pack defines: a registry takes no pack that would change
\* the meaning of another's id.
RegistryUnambiguous ==
    run = NoRun /\ LoadedAbilities # None =>
        LET community == IF pack.kind = "ability-pack" THEN ToSet(pack.items) ELSE {}
            all       == ToSet(BuiltinAbilities.items) \union community
        IN  \A a \in all : LoadedAbilities[a.id] = a

\* The plan that is shown before a run is what the run then does: a step is decided as it
\* was planned, unless the manifest expired in between, and then for good.
PlanPredictsRun ==
    run # NoRun =>
        \A i \in DOMAIN run.results :
            LET r == run.results[i]
            IN  IF r.time < run.manifest.expires_at \/ run.planned >= run.manifest.expires_at
                THEN r.decision = run.plan.actions[i]
                ELSE /\ r.decision.reason = "expired"
                     /\ \A j \in DOMAIN run.results : j > i => run.results[j].outcome = "prevented"

\* A step is reached only when each step that it depends on has been, and completed unless
\* the campaign goes on without it.
DependenciesRespected ==
    run # NoRun =>
        \A i \in DOMAIN run.results : \A d \in run.campaign.steps[i].depends_on :
            \E j \in 1..(i - 1) :
                /\ run.campaign.steps[j].id = d
                /\ run.results[j].outcome = "completed" \/ run.campaign.steps[j].on_failure = "continue"

\* An exported campaign comes back as a campaign that the loader would accept, whatever the
\* order of its actions in the file and whatever abilities the importer has: each action
\* that can be mapped once, after the ones it depended on directly; in the order of the
\* file and with all abilities, the same steps.
FlowRoundTrip ==
    (run = NoRun /\ LoadedAbilities # None /\ LoadedCampaigns # None) =>
        \A id \in DOMAIN LoadedCampaigns :
            LET c      == LoadedCampaigns[id]
                Known  == \A i \in DOMAIN c.steps : c.steps[i].ability_id \in DOMAIN LoadedAbilities
                bundle == ExportCampaign(c, LoadedAbilities)
                n      == Len(c.steps)
            IN  Known =>
                \A p \in Bijection(1..n, 1..n), ids \in SUBSET DOMAIN LoadedAbilities :
                    LET file   == [bundle EXCEPT !.actions = [i \in 1..n |-> bundle.actions[p[i]]]]
                        result == ImportCampaign(file, [a \in ids |-> LoadedAbilities[a]])
                        Kept(i) == c.steps[i].ability_id \in ids
                    IN  IF \A i \in 1..n : ~Kept(i) THEN result = None
                        ELSE /\ result # None
                             /\ StepsFormed(result)
                             /\ Len(result.steps) + result.skipped = n
                             /\ \A i, j \in 1..n :
                                   Kept(i) /\ Kept(j) /\ c.steps[i].id \in c.steps[j].depends_on =>
                                      \E k \in DOMAIN result.steps : \E d \in result.steps[k].depends_on :
                                          /\ result.steps[k].ability_id = c.steps[j].ability_id
                                          /\ result.steps[d].ability_id = c.steps[i].ability_id
                             /\ (\A i \in 1..n : Kept(i) /\ p[i] = i) =>
                                   \A i \in 1..n :
                                      /\ result.steps[i].ability_id = c.steps[i].ability_id
                                      /\ {c.steps[d].id : d \in result.steps[i].depends_on}
                                            = c.steps[i].depends_on

\* PORTABILITY_AND_TRUST.md: "prohibited content produces `blocked`".
ProhibitedIsBlocked ==
    run = NoRun =>
        \A keys \in ReviewerKeys :
            ~Review(pack, keys).safe => Review(pack, keys).verdict = "blocked"
=============================================================================
