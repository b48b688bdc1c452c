--------------------------- MODULE CandidateArtifact ---------------------------
(***************************************************************************)
(* The Candidate artifact: app/candidate_artifact.py, the identity of a    *)
(* release (app/release_identity.py) and the offline operator's evidence.  *)
(*                                                                         *)
(* A SHA-256 is modelled by what it is taken of, so two digests are equal  *)
(* exactly when the bytes are.  The bytes of a tree are its payload: the   *)
(* reports with their registry, the browser assets and the application,    *)
(* each known by the version it was taken from.                            *)
(***************************************************************************)
EXTENDS Naturals, FiniteSets

CONSTANTS
    MaxCommit,    \* commits of the source repository; 0 is the baseline
    MaxSource,    \* changes of the source checkout
    Bad,          \* bytes that no build wrote
    Dirty,        \* bytes of a worktree that is not clean
    None

ASSUME SourceAssumption == MaxCommit \in Nat /\ MaxSource \in Nat

Commits == 0 .. MaxCommit

VARIABLES
    head,       \* the commit the source checkout is on
    clean,      \* its worktree is clean
    moves       \* changes of the checkout so far

sourceVars == <<head, clean, moves>>

(* What a copy of the application reads from the checkout. *)
Tree == IF clean THEN head ELSE Dirty

(* A commit need not touch the browser assets: commits 1 and 2 have the    *)
(* same ones, and an edit may leave them alone.                            *)
AssetsOf(commit) == (commit + 1) \div 2
Assets == AssetsOf(head)

(* The checkout advances to a later commit, or is edited, while a build or *)
(* a publication is running.                                               *)
SourceChanges ==
    /\ moves < MaxSource /\ moves' = moves + 1
    /\ \/ head < MaxCommit /\ head' = head + 1 /\ UNCHANGED clean
       \/ clean /\ clean' = FALSE /\ UNCHANGED head

------------------------------------------------------------------------------
(* generate_release_identity refuses a checkout that is not clean; the     *)
(* identity holds the commit and the digest of every declared asset.       *)
IdentityOf(commit, assets) == [commit |-> commit, assets |-> assets]

CanGenerateIdentity == clean

GenerateIdentity == IdentityOf(head, Assets)

(* _release_asset_contract: the checkout still has the identity's assets. *)
AssetContractHolds(identity) == Assets = identity.assets

(* _verify_release_assets: the Candidate has the identity's assets. *)
ReleaseAssetsMatch(payload, identity) == payload.assets = identity.assets

OFFLINE == "offline-operator"
BOOTSTRAP == "served-root-bootstrap"

(* build_git_source_provenance: HEAD is the identity's commit, the         *)
(* worktree is clean.  verify_git_source_provenance recomputes it.  Of the *)
(* served root it names the release; the digest is not compared again.     *)
GitProvenanceHolds(identity) == head = identity.commit /\ clean

GitProvenance(identity, bound) ==
    [class |-> OFFLINE, commit |-> identity.commit,
     bound |-> [session |-> bound.session, commit |-> bound.commit]]

VerifyGitProvenance(prov, identity) ==
    prov.commit = identity.commit /\ GitProvenanceHolds(identity)

(* served_root_provenance_binding: a binding is recorded.  Which release   *)
(* it names is not compared here.                                          *)
HasServedRootBinding(prov) == prov.bound # None

(* _source_provenance with require_trusted. *)
TrustedProvenance(prov) == prov.class \in {OFFLINE, BOOTSTRAP}

(* CandidateArtifactManifest.build: the inventory of the Candidate root,   *)
(* its provenance and the attestation that repeats both.  A bootstrap's    *)
(* assets are those of the adopted root and are not compared.              *)
CanBuildManifest(payload, identity, prov) ==
    prov.class = BOOTSTRAP \/ ReleaseAssetsMatch(payload, identity)

BuildManifest(payload, identity, prov) ==
    [identity |-> identity, prov |-> prov, files |-> payload,
     attested |-> <<identity, prov, payload>>]

(* CandidateArtifactManifest.verify of a root with this payload. *)
VerifyManifest(payload, man, identity) ==
    /\ man.identity = identity
    /\ TrustedProvenance(man.prov) /\ man.prov.commit = identity.commit
    /\ man.files = payload
    /\ man.prov.class = BOOTSTRAP \/ ReleaseAssetsMatch(payload, identity)
    /\ man.attested = <<identity, man.prov, payload>>

(* _offline_operator_evidence, written after the Candidate was hashed and  *)
(* kept outside its root.                                                  *)
OfflineEvidence(man) == [commit |-> man.prov.commit, files |-> man.files]

(* verify_offline_operator_trust. *)
OfflineTrust(man, identity, evidence) ==
    /\ man.prov.class = OFFLINE
    /\ VerifyGitProvenance(man.prov, identity)
    /\ evidence = [commit |-> identity.commit, files |-> man.files]
==============================================================================
