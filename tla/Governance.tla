------------------------------ MODULE Governance -----------------------------
(***************************************************************************)
(* Source governance (source-governance/authorization.ts, evaluator.ts,    *)
(* validation.ts): pure decisions whether a source may be acquired and its *)
(* bytes be kept.  A decision is the status of the first check that        *)
(* refuses, in the order of the code.                                      *)
(***************************************************************************)
EXTENDS Integers, SequencesExt

CONSTANT None   \* a value that is absent

Levels == {"public-only", "authenticated-explicit-consent", "prohibited"}

\* The references to credentials and what is known of them.  The schema of a
\* reference gives its scope the connector of the reference.
Credentials == [connector : {"web", "rss"}, requirement : {"api-key", "oauth"},
                scope : {"none", "explicit-source-access"}]

Grants == [credential : Credentials \cup {None},
           availability : {"available", "unavailable", "denied", None},
           consent : BOOLEAN]

\* A grant without credential and consent: what the connectors have.
Nothing == [credential |-> None, availability |-> None, consent |-> FALSE]

ValidGrant(grant) == grant.availability # None => grant.credential # None

\* The first check that fails decides.
FirstOf(checks) ==
    LET i == SelectInSeq(checks, LAMBDA check : check.fails)
    IN  IF i = 0 THEN "allowed" ELSE checks[i].status

Check(fails, status) == [fails |-> fails, status |-> status]

\* Mutant: The class of the policy does not ask for consent.
ConsentByLevel(access, grant, need) ==
    \/ access = "authenticated-explicit-consent"
    \/ grant.credential # None /\ grant.credential.scope = "explicit-source-access"

ConsentRequired(access, grant, need) ==
    \/ need.consent
    \/ access = "authenticated-explicit-consent"
    \/ grant.credential # None /\ grant.credential.scope = "explicit-source-access"

\* authorizeCredentialAndConsent.
Authorize(connector, access, grant, need) ==
    LET has(test) == grant.credential # None /\ test IN
    FirstOf(<<
      Check(access = "prohibited", "prohibited"),
      Check(ConsentRequired(access, grant, need) /\ ~grant.consent, "explicit-consent-required"),
      Check((need.credential \/ access = "authenticated-explicit-consent") /\ ~has(TRUE),
            "credential-required"),
      Check(has(grant.credential.connector # connector), "denied"),
      Check(has(need.requirement # "none" /\ grant.credential.requirement # need.requirement), "denied"),
      Check(has(grant.availability = None), "credential-required"),
      Check(grant.availability = "unavailable", "credential-required"),
      Check(grant.availability = "denied", "denied")>>)

\* SourceAcquisitionAuthorizer.authorize for a connector that requires a
\* credential of some kind, or none.
MayAcquire(connector, access, grant, requirement) ==
    /\ ValidGrant(grant)
    /\ Authorize(connector, access, grant,
           [requirement |-> requirement, credential |-> requirement # "none",
            consent |-> FALSE]) = "allowed"

-----------------------------------------------------------------------------
(* Lifecycle policies of raw bytes.                                        *)

LifecyclePolicies ==
    [retention : {"ephemeral", "bounded", "retained-for-evidence", "legal-hold"},
     triggers : SUBSET {"scheduled-expiry", "explicit-request", "policy-deletion"},
     preventsDeletion : BOOLEAN,
     redaction : {"none", "metadata-only", "sensitive-fields", "discard-after-normalization"},
     encryption : {"required-at-rest", "platform-managed", "not-persisted"},
     class : {"public-source", "consented-private-source", "restricted-operational"}]

ValidPolicy(policy) ==
    /\ policy.retention = "legal-hold" <=> policy.preventsDeletion
    /\ policy.retention \in {"bounded", "retained-for-evidence"} =>
          "scheduled-expiry" \in policy.triggers
    /\ policy.retention # "ephemeral" => policy.encryption # "not-persisted"
    /\ policy.redaction = "discard-after-normalization" => policy.encryption = "not-persisted"

NeedOf(policy) ==
    [requirement |-> "none",
     credential |-> policy.class \in {"consented-private-source", "restricted-operational"},
     consent |-> policy.class = "consented-private-source"]

\* RawArtifactPolicyEvaluator.evaluate, of a record made from this policy.
Evaluate(operation, connector, access, policy, grant) ==
    LET authorized == Authorize(connector, access, grant, NeedOf(policy)) IN
    FirstOf(<<
      Check(~ValidPolicy(policy) \/ ~ValidGrant(grant), "denied"),
      Check(authorized = "prohibited", "prohibited"),
      Check(operation = "delete" /\ policy.retention = "legal-hold", "denied"),
      Check(operation = "persist" /\ (\/ policy.retention = "ephemeral"
                                      \/ policy.encryption = "not-persisted"
                                      \/ policy.redaction = "discard-after-normalization"), "denied"),
      Check(authorized # "allowed", authorized)>>)

\* What RawArtifactPersistenceService.persist can do of what a policy asks:
\* it redacts no fields, and protection at rest is the platform's or none.
Satisfiable(policy, protected) ==
    policy.redaction # "sensitive-fields" /\ policy.encryption = "platform-managed" /\ protected

MayPersist(connector, access, policy, grant, protected) ==
    /\ Evaluate("persist", connector, access, policy, grant) = "allowed"
    /\ Satisfiable(policy, protected)

=============================================================================
