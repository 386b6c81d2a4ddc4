---------------------------- MODULE ContentPacks ----------------------------
(* Content packs: provenance, digest and signature, the three loaders, the      *)
(* registries they build, and the community review (agentsim/content,           *)
(* detection/packs.py, scripts/sign_content.py).  A pack is a record; its items *)
(* are abilities, campaigns or detection rules.  A digest is the value that it  *)
(* digests, a key signs and verifies as itself; what only has to be well formed *)
(* is one flag.                                                                 *)
EXTENDS Naturals, FiniteSets, SequencesExt

CONSTANTS
    None,           \* what a JSON object has not got
    BuiltinKeys,    \* the trust store of the package, key_id -> key
    FindingLimit    \* findings that a review keeps

ASSUME ContentAssumption == FindingLimit \in Nat

Providers == {"simulate", "local", "docker"}

-----------------------------------------------------------------------------
(* provenance.py, signature.py, integrity.py, sign_content.py.                 *)

ProvenanceFormed(p) ==
    /\ p # None
    /\ p.formed
    /\ p.status \in {"approved", "pending", "rejected"}
    /\ p.created <= p.reviewed

Digest(value) == value

\* Deviation: the provenance is not part of what is signed.
PayloadOfContent(pack) ==
    [kind |-> pack.kind, content_id |-> pack.pack_id, digest |-> pack.integrity.digest]

\* signature_payload.
Payload(pack) ==
    [kind |-> pack.kind, content_id |-> pack.pack_id, digest |-> pack.integrity.digest,
     provenance |-> IF pack.provenance = None THEN None ELSE Digest(pack.provenance)]

\* The keys of external stores together with those of the package.
WithBuiltin(keys) ==
    [id \in DOMAIN keys \union DOMAIN BuiltinKeys |->
        IF id \in DOMAIN keys THEN keys[id] ELSE BuiltinKeys[id]]

\* Deviation: an external store may replace a key of the package.
TrustReplaced(keys) == WithBuiltin(keys)

\* The keys that verify, none where an external store would replace a key of the package.
Trust(keys) ==
    IF \E id \in DOMAIN keys \intersect DOMAIN BuiltinKeys : keys[id] # BuiltinKeys[id]
    THEN <<>> ELSE WithBuiltin(keys)

\* verify_signature: a key id, None for an unsigned pack, "invalid" where it raises.
VerifySignature(pack, keys) ==
    LET s == IF pack.integrity = None THEN None ELSE pack.integrity.signature
    IN  IF pack.integrity = None THEN "invalid"
        ELSE IF s = None THEN None
        ELSE IF /\ s.key_id \in DOMAIN Trust(keys)
                /\ s.value = <<Trust(keys)[s.key_id], Payload(pack)>>
             THEN s.key_id ELSE "invalid"

DigestMatches(pack) == pack.integrity # None /\ pack.integrity.digest = Digest(pack.items)

VerifyIntegrity(pack, keys) == DigestMatches(pack) /\ VerifySignature(pack, keys) # "invalid"

\* sign_content: a fresh digest, then the signature over what goes with it.
Signed(pack, key_id, key) ==
    LET digested == [pack EXCEPT !.integrity = [digest |-> Digest(pack.items), signature |-> None]]
    IN  [digested EXCEPT !.integrity.signature =
            [key_id |-> key_id, value |-> <<key, Payload(digested)>>]]

-----------------------------------------------------------------------------
(* The loaders.                                                                *)

Distinct(items) == \A i, j \in DOMAIN items : items[i].id = items[j].id => i = j

AbilityFormed(a) ==
    /\ a.formed
    /\ a.supported_providers # {} /\ a.supported_providers \subseteq Providers
    /\ a.default_provider \in a.supported_providers
    /\ a.state_changes => a.cleanup_ref
    /\ a.network_access \in {"denied", "required"}

\* Deviation: any step of the campaign may be depended on.
StepsAnyOrder(c) ==
    /\ c.steps # <<>>
    /\ Distinct(c.steps)
    /\ \A i \in DOMAIN c.steps :
          /\ c.steps[i].depends_on \subseteq {c.steps[j].id : j \in DOMAIN c.steps}
          /\ c.steps[i].on_failure \in {"stop", "continue"}

\* Steps depend on earlier ones.
StepsFormed(c) ==
    /\ c.steps # <<>>
    /\ Distinct(c.steps)
    /\ \A i \in DOMAIN c.steps :
          /\ c.steps[i].depends_on \subseteq {c.steps[j].id : j \in 1..(i - 1)}
          /\ c.steps[i].on_failure \in {"stop", "continue"}

CampaignFormed(c) == c.formed /\ StepsFormed(c)

RuleFormed(r) == r.formed /\ r.fields \union r.group_by \subseteq r.required_fields

\* parse_ability_pack.
ParsesAbilities(pack, keys) ==
    /\ pack.formed
    /\ VerifyIntegrity(pack, keys)
    /\ pack.provenance # None => ProvenanceFormed(pack.provenance)
    /\ pack.items # <<>> /\ Distinct(pack.items)
    /\ \A i \in DOMAIN pack.items : AbilityFormed(pack.items[i])

\* parse_campaign_pack.
ParsesCampaigns(pack, keys) ==
    /\ pack.formed
    /\ VerifyIntegrity(pack, keys)
    /\ pack.provenance # None => ProvenanceFormed(pack.provenance)
    /\ pack.items # <<>> /\ Distinct(pack.items)
    /\ \A i \in DOMAIN pack.items : CampaignFormed(pack.items[i])

\* parse_detection_pack: the digest is optional, answers are not allowed anywhere.
ParsesDetections(pack, keys) ==
    /\ \A i \in DOMAIN pack.items : ~pack.items[i].answers
    /\ pack.formed
    /\ pack.integrity # None => VerifyIntegrity(pack, keys)
    /\ pack.provenance # None => ProvenanceFormed(pack.provenance)
    /\ pack.items # <<>> /\ Distinct(pack.items)
    /\ \A i \in DOMAIN pack.items : RuleFormed(pack.items[i])

Parses(pack, keys) ==
    CASE pack.kind = "ability-pack"   -> ParsesAbilities(pack, keys)
      [] pack.kind = "campaign-pack"  -> ParsesCampaigns(pack, keys)
      [] pack.kind = "detection-pack" -> ParsesDetections(pack, keys)

\* Deviation: of two definitions with one id the later one counts.
AbilityRegistryLast(packs, keys) ==
    LET items == FlattenSeq([i \in DOMAIN packs |-> packs[i].items])
    IN  IF (\A i \in DOMAIN packs : ParsesAbilities(packs[i], keys)) /\ items # <<>>
        THEN [id \in {items[i].id : i \in DOMAIN items} |->
                 items[CHOOSE i \in DOMAIN items :
                          items[i].id = id /\ \A j \in DOMAIN items : items[j].id = id => j <= i]]
        ELSE None

\* load_ability_registry: the definitions of all packs, None where it raises.  The
\* packs of one call are of one kind, the built-in one first.
AbilityRegistry(packs, keys) ==
    LET items == FlattenSeq([i \in DOMAIN packs |-> packs[i].items])
    IN  IF (\A i \in DOMAIN packs : ParsesAbilities(packs[i], keys)) /\ items # <<>> /\ Distinct(items)
        THEN [id \in {items[i].id : i \in DOMAIN items} |->
                 CHOOSE a \in ToSet(items) : a.id = id]
        ELSE None

\* load_campaign_registry.
CampaignRegistry(packs, keys) ==
    LET items == FlattenSeq([i \in DOMAIN packs |-> packs[i].items])
    IN  IF (\A i \in DOMAIN packs : ParsesCampaigns(packs[i], keys)) /\ items # <<>> /\ Distinct(items)
        THEN [id \in {items[i].id : i \in DOMAIN items} |->
                 CHOOSE c \in ToSet(items) : c.id = id]
        ELSE None

-----------------------------------------------------------------------------
(* review_community_pack: findings in the order in which they are made, a       *)
(* finding being its severity and code.                                        *)

Finding(severity, code, condition) ==
    IF condition THEN <<[severity |-> severity, code |-> code]>> ELSE <<>>

SignatureFindings(pack, keys) ==
    LET verdict == VerifySignature(pack, keys)
    IN  Finding("block", "signature_missing", verdict = None)
            \o Finding("block", "signature_invalid", verdict = "invalid")

ProvenanceFindings(pack) ==
    IF ~ProvenanceFormed(pack.provenance) THEN Finding("block", "provenance_invalid", TRUE)
    ELSE Finding("review", "review_pending", pack.provenance.status = "pending")
            \o Finding("block", "review_rejected", pack.provenance.status = "rejected")

\* _structural_review parses the pack without its signature, and without other keys.
Unsigned(pack) ==
    IF pack.integrity = None THEN pack ELSE [pack EXCEPT !.integrity.signature = None]

\* Deviation: a pack whose digest matches is taken to be well formed.
StructureByDigest(pack) == DigestMatches(pack)

StructureOk(pack) == Parses(Unsigned(pack), <<>>)

\* _walk_prohibited: a finding for each prohibited key of the content.
ProhibitedFindings(pack) ==
    FlattenSeq([i \in DOMAIN pack.items |->
        FlattenSeq([k \in 1..pack.items[i].prohibited |->
            Finding("block", "inline_executable_content", TRUE)])])

\* Deviation: the provider that an ability runs by default is what counts.
FindingsOfDefault(a) ==
    Finding("block", "production_enabled", a.production_allowed)
        \o Finding("block", "elevation_requested", a.requires_elevation)
        \o Finding("review", "active_provider", a.default_provider # "simulate")

\* _ability_safety.
AbilityFindings(a) ==
    Finding("block", "production_enabled", a.production_allowed)
        \o Finding("block", "elevation_requested", a.requires_elevation)
        \o Finding("review", "active_provider", a.supported_providers \ {"simulate"} # {})
        \o Finding("review", "network_capability", a.network_access = "required")
        \o Finding("review", "state_change_capability", a.state_changes)

SafetyFindings(pack) ==
    ProhibitedFindings(pack)
        \o (IF pack.kind # "ability-pack" THEN <<>>
            ELSE FlattenSeq([i \in DOMAIN pack.items |-> AbilityFindings(pack.items[i])]))

Blocking(findings) == \E i \in DOMAIN findings : findings[i].severity = "block"

AllFindings(pack, keys) ==
    Finding("block", "checksum_invalid", ~DigestMatches(pack))
        \o SignatureFindings(pack, keys)
        \o ProvenanceFindings(pack)
        \o Finding("block", "structure_invalid", ~StructureOk(pack))
        \o SafetyFindings(pack)

\* CommunityPackReview.verdict.
Verdict(findings) ==
    IF Blocking(findings) THEN "blocked"
    ELSE IF \E i \in DOMAIN findings : findings[i].severity = "review" THEN "review"
    ELSE "approved"

\* The review looks at the findings that it keeps, its checks at all of them.
Review(pack, keys) ==
    LET all  == AllFindings(pack, keys)
        kept == SubSeq(all, 1, IF Len(all) < FindingLimit THEN Len(all) ELSE FindingLimit)
    IN  [verdict |-> Verdict(kept),
         codes   |-> {kept[i].code : i \in DOMAIN kept},
         safe    |-> ~Blocking(SafetyFindings(pack))]

\* review_community_pack_file: the keys of its trust stores, None where two disagree.
MergedKeys(stores) ==
    IF \E s, t \in stores : \E id \in DOMAIN s \intersect DOMAIN t : s[id] # t[id] THEN None
    ELSE [id \in UNION {DOMAIN s : s \in stores} |-> (CHOOSE s \in stores : id \in DOMAIN s)[id]]
=============================================================================
