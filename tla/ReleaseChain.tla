---------------------------- MODULE ReleaseChain ----------------------------
(***************************************************************************)
(* The way of a release: a Flat installation is adopted as the baseline, a *)
(* Candidate is built from CURRENT and a checkout                          *)
(* (scripts/release/build_production_candidate_artifact.py), published     *)
(* (scripts/release/publish_release.py) and made CURRENT, while the API    *)
(* answers for CURRENT and files change underneath.                        *)
(***************************************************************************)
EXTENDS FlatAdoption

CONSTANT MaxBuilds

ASSUME BuildAssumption == MaxBuilds \in Nat

VARIABLES
    build,    \* the builder: its step, binding, identity and Candidate
    builds    \* builds started so far

vars == <<sourceVars, publicationVars, adoptionVars, build, builds>>

NoPayload == [reports |-> None, assets |-> None, app |-> None]

BuilderIdle == [pc |-> "idle", bind |-> None, identity |-> None,
                payload |-> NoPayload]

Init ==
    /\ head = 1 /\ clean = TRUE /\ moves = 0
    /\ PublicationInit /\ AdoptionInit /\ build = BuilderIdle /\ builds = 0

------------------------------------------------------------------------------
(* build_production_candidate *)

otherVars == <<sourceVars, publicationVars, adoptionVars>>

FailBuild == build' = BuilderIdle

(* _served_root_binding: CURRENT is a valid release. *)
BindServedRoot ==
    /\ build.pc = "idle" /\ CurrentIsBindable
    /\ builds < MaxBuilds /\ builds' = builds + 1
    /\ build' = [BuilderIdle EXCEPT !.pc = "identity",
                                    !.bind = ServedRootBinding]
    /\ UNCHANGED otherVars

MakeIdentity ==
    /\ build.pc = "identity"
    /\ IF CanGenerateIdentity
       THEN build' = [build EXCEPT !.pc = "copy", !.identity = GenerateIdentity]
       ELSE FailBuild
    /\ UNCHANGED <<otherVars, builds>>

(* _copy_served_root takes everything but the application and the control  *)
(* files; the contract of the assets is checked before.                    *)
CopyServedRoot ==
    /\ build.pc = "copy"
    /\ IF AssetContractHolds(build.identity)
       THEN build' = [build EXCEPT
                !.pc = "app",
                !.payload.reports = rel[build.bind.session].payload.reports]
       ELSE FailBuild
    /\ UNCHANGED <<otherVars, builds>>

(* _assert_served_root_binding_unchanged *)
PointerUnchanged == current = build.bind.session

ServedRootUnchanged ==
    current = build.bind.session /\ ServedTree(current) = build.bind.tree

(* The runtime comes from the checkout, whatever it holds at that moment. *)
CopyApplication ==
    /\ build.pc = "app"
    /\ IF ServedRootUnchanged
       THEN build' = [build EXCEPT !.pc = "assets", !.payload.app = Tree]
       ELSE FailBuild
    /\ UNCHANGED <<otherVars, builds>>

RefreshAssets ==
    /\ build.pc = "assets"
    /\ IF ServedRootUnchanged /\ AssetContractHolds(build.identity)
       THEN build' = [build EXCEPT !.pc = "seal", !.payload.assets = Assets]
       ELSE FailBuild
    /\ UNCHANGED <<otherVars, builds>>

(* Content checks, provenance, manifest and evidence.  Every build makes a *)
(* Candidate root of its own; the model keeps one, so a build waits for    *)
(* the publisher that reads it.                                            *)
SealCandidate ==
    /\ build.pc = "seal" /\ pub["publisher"].pc = "idle"
    /\ LET prov == GitProvenance(build.identity, build.bind)
           man == BuildManifest(build.payload, build.identity, prov)
           sealed == /\ ServedRootUnchanged /\ ContentValid(build.payload)
                     /\ ApplicationValid(build.payload)
                     /\ GitProvenanceHolds(build.identity)
                     /\ CanBuildManifest(build.payload, build.identity, prov)
       IN cands' = IF sealed
                   THEN [cands EXCEPT !["publisher"] =
                            [payload |-> build.payload,
                             identity |-> build.identity, man |-> man,
                             evidence |-> OfflineEvidence(man)]]
                   ELSE cands
    /\ FailBuild
    /\ UNCHANGED <<sourceVars, rel, side, current, pub, apiVars, tampers, adoptionVars, builds>>

BuilderDies ==
    /\ build.pc # "idle" /\ FailBuild
    /\ UNCHANGED <<sourceVars, diskVars, pub, apiVars, tampers, adoptionVars, builds>>

------------------------------------------------------------------------------
Build ==
    \/ BindServedRoot \/ MakeIdentity \/ CopyServedRoot \/ CopyApplication
    \/ RefreshAssets \/ SealCandidate \/ BuilderDies

Adopt ==
    /\ \/ PlanAdoption \/ EndPass \/ BuildBaseline \/ TamperStaging
       \/ AdopterDies
       \/ \E f \in FlatFiles : ReadFile(f) \/ FlatChanges(f)
    /\ UNCHANGED <<build, builds>>

(* Nobody rolls back while an adoption reads the Flat root. *)
Publish ==
    /\ \/ \E s \in Sessions \ {0}, switch \in BOOLEAN : StartPrepare(s, switch)
       \/ \E w \in Writers :
              \/ VerifySource(w) \/ CopyTree(w) \/ RenameStaging(w)
              \/ ValidatePrepared(w) \/ SwitchCurrent(w) \/ RecordCurrent(w)
              \/ WriterDies(w)
       \/ ad.pc = "idle" /\ \E s \in Sessions : StartRollback(s)
       \/ ValidateCurrent
    /\ UNCHANGED <<sourceVars, adoptionVars, build, builds>>

Identify ==
    /\ AnswerFromRecord \/ MissIdentity \/ CheckIdentity
    /\ UNCHANGED <<sourceVars, adoptionVars, build, builds>>

(* The checkout matters while a build or a publication runs. *)
Environment ==
    \/ /\ \/ \E s \in Sessions : Touch(s) \/ \E p \in TamperParts : Tamper(s, p)
          \/ \E p \in TamperParts : TamperCandidate(p)
          \/ ApiRestarts
       /\ UNCHANGED <<sourceVars, adoptionVars, build, builds>>
    \/ /\ \/ build.pc # "idle"
          \/ pub["publisher"].pc \in {"verify", "copy", "rename"}
       /\ SourceChanges /\ UNCHANGED <<publicationVars, adoptionVars, build, builds>>

Next == Build \/ Adopt \/ Publish \/ Identify \/ Environment

Spec == Init /\ [][Next]_vars

------------------------------------------------------------------------------
(* Types: bytes, manifests, releases and Candidates. *)

Reports == {None, Bad} \cup ({"LEGACY_STATIC"} \X Nat)
Payload == [reports : Reports, assets : Nat \cup {None, Bad}, app : Nat \cup {None, Bad, Dirty}]
Identity == [commit : Nat, assets : Nat]
Provenance == [class : {OFFLINE, BOOTSTRAP}, commit : Nat,
               bound : [session : Sessions, commit : Nat] \cup {None}]
Manifest == [identity : Identity, prov : Provenance, files : Payload,
             attested : Identity \X Provenance \X Payload]
Release == [payload : Payload, man : Manifest, stamp : Nat,
            declared : [reports : Reports, assets : Nat \cup {None, Bad}]]
Candidate == [payload : Payload, identity : Identity, man : Manifest,
              evidence : [commit : Nat, files : Payload] \cup {None}]
Copy == [payload : Payload, man : Manifest]
Binding == [session : Sessions, commit : Nat,
            tree : Payload \X Manifest \X (Nat \cup {None})]

ASSUME NoneAssumption ==
    None \notin Release \cup Candidate \cup Copy \cup Binding \cup Identity \cup Nat
ASSUME ByteAssumption == None \notin {Bad, Dirty} \cup ({"LEGACY_STATIC"} \X Nat)

PubPlaces == {"idle", "verify", "copy", "rename", "validate", "switch", "record"}
BuildPlaces == {"idle", "identity", "copy", "app", "assets", "seal"}

(* The checkout, the releases, the writers, the API, the adopter and the    *)
(* builder hold what their steps give them.                                 *)
TypeOK ==
    /\ head \in Nat /\ clean \in BOOLEAN
    /\ rel \in [Sessions -> Release \cup {None}]
    /\ side \in [Sessions -> Nat \cup {None}]
    /\ current \in Sessions \cup {None}
    /\ cands \in [Writers -> Candidate \cup {None}]
    /\ pub \in [Writers -> [pc : PubPlaces, s : Sessions, switch : BOOLEAN,
                            man : Manifest \cup {None}, copy : Copy \cup {None}]]
    /\ cache \subseteq Sessions \X Nat
    /\ api \in [pc : {"idle", "check"}, key : (Sessions \X Nat) \cup {None}]
    /\ flat \in [FlatFiles -> Nat] /\ instants \subseteq [FlatFiles -> Nat]
    /\ ad \in [pc : Passes \cup {"idle", "build"},
               read : [FlatFiles -> Nat \cup {None}], plan : [FlatFiles -> Nat \cup {None}],
               scan : [FlatFiles -> Nat \cup {None}],
               stage : [page : Reports, asset : Nat \cup {None}]]
    /\ build \in [pc : BuildPlaces, bind : Binding \cup {None},
                  identity : Identity \cup {None}, payload : Payload]

------------------------------------------------------------------------------
(* Safety. *)

(* No release declares a report other than one the Flat installation       *)
(* served, together with the assets it served at the same moment: neither  *)
(* the adoption, which reads a root in service, nor a Candidate built from *)
(* a CURRENT whose files change underneath, re-seals foreign bytes.        *)
ReportsAreAdopted ==
    \A s \in Sessions : rel[s] # None =>
        \E i \in instants :
            /\ rel[s].declared.reports = Staged("page", i["page"])
            /\ s = 0 => rel[s].declared.assets = i["asset"]

(* The application, the assets and the identity of a published release     *)
(* come from one commit, though the checkout may move between any two      *)
(* steps of the build and of the publication.                              *)
OneSource ==
    \A s \in Sessions : (rel[s] # None /\ s # 0) =>
        LET files == rel[s].man.files
            commit == rel[s].man.identity.commit
        IN files.app = commit /\ files.assets = AssetsOf(commit)

(* Whatever the API would answer from its cache or from the sidecar,       *)
(* without validating again, validates: no crash, restart or rollback      *)
(* brings back a record of files that have changed since.                  *)
AnswerIsTrue ==
    \A s \in Sessions : rel[s] # None =>
        ((Cached(s) \/ SidecarMatches(s)) => Valid(s))

(* What a release says of itself is so: where its files come from, and that  *)
(* they are the ones that were validated.                                    *)
ReleaseIsTrue == OneSource /\ AnswerIsTrue

(* CURRENT moves only to a release that validates at that moment. *)
SwitchOnlyValid == [][(current' # current) => Valid(current)']_vars

==============================================================================
