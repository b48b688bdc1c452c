---------------------------- MODULE FlatAdoption ----------------------------
(***************************************************************************)
(* Adoption of a Flat installation as the baseline release:                *)
(* bootstrap_flat_current (scripts/release/current_adoption.py) calls      *)
(* prepare_legacy_flat_adoption and bootstrap, each in the module of its   *)
(* name.                                                                   *)
(*                                                                         *)
(* The Flat root stays in service and is read one file at a time, in six   *)
(* passes: the plan's binding, the scan, the copy, the scan after the      *)
(* copy, and two scans by bootstrap before it builds the Candidate.        *)
(***************************************************************************)
EXTENDS Publication

CONSTANTS
    MaxFlat       \* changes of the Flat root

ASSUME FlatAssumption == MaxFlat \in Nat

FlatFiles == {"page", "asset"}

VARIABLES
    flat,       \* the version of each file of the Flat root
    instants,   \* every state the Flat root has been in
    ad          \* the adopter: its pass and what it has read

adoptionVars == <<flat, instants, ad>>

Passes == {"plan", "scan", "copy", "rescan", "check", "recheck"}

NothingRead == [f \in FlatFiles |-> None]

AdopterIdle == [pc |-> "idle", read |-> NothingRead, plan |-> NothingRead,
                scan |-> NothingRead, stage |-> NothingRead]

AdoptionInit ==
    /\ flat = [f \in FlatFiles |-> 0] /\ instants = {flat}
    /\ ad = AdopterIdle

(* The legacy runtime writes a report, or somebody replaces an asset; it   *)
(* matters as long as an adoption reads the file again.                    *)
FlatChanges(f) ==
    /\ ad.pc \in Passes /\ (ad.pc = "recheck" => ad.read[f] = None)
    /\ flat["page"] + flat["asset"] < MaxFlat
    /\ flat' = [flat EXCEPT ![f] = @ + 1]
    /\ instants' = instants \cup {flat'}
    /\ UNCHANGED <<publicationVars, sourceVars, ad>>

------------------------------------------------------------------------------
(* _bind_release_assets: the identity of the baseline declares version 0   *)
(* of the asset.                                                           *)
AssetsBound(files) == files["asset"] = 0

(* _add_legacy_identity_meta gives a page its project and report identity; *)
(* every other file is copied as it is.                                    *)
Staged(f, version) ==
    IF f = "page" THEN <<"LEGACY_STATIC", version>> ELSE version

PassAfter == [idle |-> "plan", plan |-> "scan", scan |-> "copy",
          copy |-> "rescan", rescan |-> "check", check |-> "recheck",
          recheck |-> "build"]

(* plan_flat_current_adoption: there is no CURRENT.  An operator adopts    *)
(* while nobody publishes.                                                 *)
PlanAdoption ==
    /\ ad.pc = "idle" /\ current = None
    /\ \A w \in Writers : pub[w].pc = "idle"
    /\ ad' = [AdopterIdle EXCEPT !.pc = "plan"]
    /\ UNCHANGED <<flat, instants, publicationVars, sourceVars>>

GiveUp == ad' = AdopterIdle

(* The copy compares every file it reads with the scan. *)
Unchanged(f) == ad.pc = "copy" => flat[f] = ad.scan[f]

ReadFile(f) ==
    /\ ad.pc \in Passes /\ ad.read[f] = None
    /\ \/ /\ Unchanged(f)
          /\ ad' = [ad EXCEPT
                 !.read[f] = flat[f],
                 !.stage[f] = IF ad.pc = "copy" THEN Staged(f, flat[f]) ELSE @]
       \/ ~Unchanged(f) /\ GiveUp
    /\ UNCHANGED <<flat, instants, publicationVars, sourceVars>>

(* What a pass requires when it has read every file: the plan and the scan *)
(* bind the assets; the scan after the copy equals the one before it, and  *)
(* the binding the plan captured; bootstrap finds what was adopted.        *)
PassHolds ==
    CASE ad.pc \in {"plan", "scan"} -> AssetsBound(ad.read)
      [] ad.pc = "copy" -> TRUE
      [] ad.pc = "rescan" -> ad.read = ad.scan /\ ad.scan = ad.plan
      [] OTHER -> ad.read = ad.scan

EndPass ==
    /\ ad.pc \in Passes /\ \A f \in FlatFiles : ad.read[f] # None
    /\ \/ /\ PassHolds
          /\ ad' = [ad EXCEPT
                 !.pc = PassAfter[ad.pc], !.read = NothingRead,
                 !.plan = IF ad.pc = "plan" THEN ad.read ELSE @,
                 !.scan = IF ad.pc = "scan" THEN ad.read ELSE @]
       \/ ~PassHolds /\ GiveUp
    /\ UNCHANGED <<flat, instants, publicationVars, sourceVars>>

(* validate_legacy_adoption_staging: the staging tree holds exactly what   *)
(* the adopted files give.                                                 *)
StagingHolds == ad.stage = [f \in FlatFiles |-> Staged(f, ad.scan[f])]

BaselineIdentity == IdentityOf(0, 0)

BootstrapPayload ==
    [reports |-> ad.stage["page"], assets |-> ad.stage["asset"], app |-> 0]

BootstrapProvenance == [class |-> BOOTSTRAP, commit |-> 0, bound |-> None]

(* bootstrap: CURRENT must not exist, which is looked at before the        *)
(* Candidate is built and not when CURRENT is created.  It goes on to      *)
(* publish the Candidate as release 0 and to make it CURRENT.              *)
BuildBaseline ==
    /\ ad.pc = "build"
    /\ \/ /\ StagingHolds /\ current = None
          /\ cands' = [cands EXCEPT !["adopter"] =
                 [payload |-> BootstrapPayload, identity |-> BaselineIdentity,
                  man |-> BuildManifest(BootstrapPayload, BaselineIdentity,
                                        BootstrapProvenance),
                  evidence |-> None]]
          /\ pub' = [pub EXCEPT !["adopter"] = Preparing(0, TRUE)]
       \/ ~(StagingHolds /\ current = None) /\ UNCHANGED <<cands, pub>>
    /\ GiveUp
    /\ UNCHANGED <<flat, instants, rel, side, current, apiVars, tampers, sourceVars>>

(* The staging directory is changed before bootstrap looks at it. *)
TamperStaging ==
    /\ tampers < MaxTampers /\ ad.pc \in {"check", "recheck", "build"}
    /\ ad' = [ad EXCEPT !.stage["page"] = Bad]
    /\ tampers' = tampers + 1
    /\ UNCHANGED <<flat, instants, diskVars, pub, apiVars, sourceVars>>

AdopterDies ==
    /\ ad.pc # "idle" /\ GiveUp
    /\ UNCHANGED <<flat, instants, diskVars, pub, apiVars, tampers, sourceVars>>
==============================================================================
