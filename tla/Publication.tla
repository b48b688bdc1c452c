----------------------------- MODULE Publication -----------------------------
(***************************************************************************)
(* app/release_publication.py: immutable releases, the pointer CURRENT and *)
(* the identity the API answers for it.                                    *)
(*                                                                         *)
(* A release keeps its payload, the Candidate's manifest, and the reports  *)
(* and assets its own manifest declares.  stamp stands for the stat        *)
(* fingerprint of its files: every change of a file changes it.            *)
(***************************************************************************)
EXTENDS CandidateArtifact

CONSTANTS
    MaxReleases,  \* releases besides the adopted baseline, release 0
    MaxTampers,   \* changes of files of releases and Candidates
    TamperParts   \* the parts of a tree that change

Parts == {"reports", "assets", "app"}

ASSUME PublicationAssumption ==
    MaxReleases \in Nat /\ MaxTampers \in Nat /\ TamperParts \subseteq Parts

Sessions == 0 .. MaxReleases

Writers == {"adopter", "publisher"}

VARIABLES
    rel,        \* the release of each session, or None
    side,       \* its validated_publication_identity.json: a stamp, or None
    current,    \* the session CURRENT points to
    cands,      \* the Candidate root each writer publishes from, or None
    pub,        \* the progress of prepare and switch_current
    cache,      \* the API's identity cache: pairs of a session and a stamp
    api,        \* the progress of current_publication_identity
    tampers

diskVars == <<rel, side, current, cands>>
apiVars == <<cache, api>>
publicationVars == <<diskVars, pub, apiVars, tampers>>

Idle == [pc |-> "idle", s |-> 0, switch |-> FALSE, man |-> None, copy |-> None]

PublicationInit ==
    /\ rel = [s \in Sessions |-> None] /\ side = [s \in Sessions |-> None]
    /\ current = None /\ cands = [w \in Writers |-> None]
    /\ pub = [w \in Writers |-> Idle]
    /\ cache = {} /\ api = [pc |-> "idle", key |-> None]
    /\ tampers = 0

------------------------------------------------------------------------------
(* Every report and registry entry names the production project: a report  *)
(* does once adoption has added its identity (FlatAdoption).               *)
ContentValid(payload) == payload.reports # None

(* validate_production_application_bundle looks for files, not for bytes. *)
ApplicationValid(payload) == payload.app # None

(* build_release_manifest: what the release manifest declares. *)
Declared(payload) == [reports |-> payload.reports, assets |-> payload.assets]

(* validate_release_manifest: the inventory, then the Candidate manifest,  *)
(* which also covers the application.                                      *)
Valid(s) ==
    /\ rel[s] # None
    /\ rel[s].declared = Declared(rel[s].payload)
    /\ VerifyManifest(rel[s].payload, rel[s].man, rel[s].man.identity)
    /\ rel[s].man.prov.class = BOOTSTRAP \/ ApplicationValid(rel[s].payload)

Key(s) == <<s, rel[s].stamp>>

(* _served_root_tree_sha256 hashes every file of the release, the identity *)
(* sidecar included.                                                       *)
ServedTree(s) == <<rel[s].payload, rel[s].man, side[s]>>

(* current_served_root_binding *)
CurrentIsBindable == current # None /\ Valid(current)

ServedRootBinding ==
    [session |-> current, commit |-> rel[current].man.identity.commit,
     tree |-> ServedTree(current)]

------------------------------------------------------------------------------
(* ImmutableReleasePublisher, run by the writer w. *)

Goto(w, pc) == pub' = [pub EXCEPT ![w].pc = pc]
Abort(w) == pub' = [pub EXCEPT ![w] = Idle]

(* The Candidate passes every check of _prepare under the identity it      *)
(* carries; only a bootstrap may have a bootstrap's provenance.            *)
CandidateTrusted(w, payload, man, evidence) ==
    /\ VerifyManifest(payload, man, cands[w].identity)
    /\ IF w = "adopter"
       THEN man.prov.class = BOOTSTRAP
       ELSE /\ ContentValid(payload) /\ ApplicationValid(payload)
            /\ OfflineTrust(man, cands[w].identity, evidence)
            /\ HasServedRootBinding(man.prov)

Preparing(s, switch) ==
    [Idle EXCEPT !.pc = "verify", !.s = s, !.switch = switch]

(* publish_release.py, with or without --switch; a session is used once. *)
StartPrepare(s, switch) ==
    /\ pub["publisher"].pc = "idle" /\ cands["publisher"] # None
    /\ rel[s] = None
    /\ pub' = [pub EXCEPT !["publisher"] = Preparing(s, switch)]
    /\ UNCHANGED <<diskVars, apiVars, tampers>>

VerifySource(w) ==
    /\ pub[w].pc = "verify"
    /\ \/ /\ CandidateTrusted(w, cands[w].payload, cands[w].man,
                              cands[w].evidence)
          /\ pub' = [pub EXCEPT ![w].pc = "copy", ![w].man = cands[w].man]
       \/ /\ ~CandidateTrusted(w, cands[w].payload, cands[w].man,
                               cands[w].evidence)
          /\ Abort(w)
    /\ UNCHANGED <<diskVars, apiVars, tampers>>

(* _copy_tree_contents into a staging directory. *)
CopyTree(w) ==
    /\ pub[w].pc = "copy"
    /\ pub' = [pub EXCEPT ![w].pc = "rename",
                          ![w].copy = [payload |-> cands[w].payload,
                                       man |-> cands[w].man]]
    /\ UNCHANGED <<diskVars, apiVars, tampers>>

(* The copy is verified like the source and has the source's digest.       *)
CopyVerified(w) ==
    /\ CandidateTrusted(w, pub[w].copy.payload, pub[w].copy.man,
                        cands[w].evidence)
    /\ pub[w].copy.man.files = pub[w].man.files

(* One rename makes the release; it fails on a release that is there. *)
RenameStaging(w) ==
    /\ pub[w].pc = "rename"
    /\ LET s == pub[w].s
           copy == pub[w].copy IN
       \/ /\ CopyVerified(w) /\ rel[s] = None
          /\ rel' = [rel EXCEPT ![s] =
                 [payload |-> copy.payload, man |-> copy.man,
                  declared |-> Declared(copy.payload), stamp |-> 0]]
          /\ pub' = [pub EXCEPT ![w] = [Idle EXCEPT
                 !.pc = "validate", !.s = s, !.switch = pub[w].switch]]
       \/ ~(CopyVerified(w) /\ rel[s] = None) /\ Abort(w) /\ UNCHANGED rel
    /\ UNCHANGED <<side, current, cands, apiVars, tampers>>

(* _write_validated_publication_identity takes the fingerprint when it     *)
(* writes, not when the release was validated: that no file changes in     *)
(* between is an assumption, as it is between validation and the switch.   *)
WriteIdentity(s) == side' = [side EXCEPT ![s] = rel[s].stamp]

(* A release that fails here stays, and its session cannot be used again. *)
ValidatePrepared(w) ==
    /\ pub[w].pc = "validate"
    /\ \/ /\ Valid(pub[w].s) /\ WriteIdentity(pub[w].s)
          /\ IF pub[w].switch THEN Goto(w, "switch") ELSE Abort(w)
       \/ ~Valid(pub[w].s) /\ Abort(w) /\ UNCHANGED side
    /\ UNCHANGED <<rel, current, cands, apiVars, tampers>>

SwitchUnchecked(w) ==
    /\ pub[w].pc = "switch" /\ current' = pub[w].s /\ Goto(w, "record")
    /\ UNCHANGED <<rel, side, cands, apiVars, tampers>>

(* switch_current validates, replaces CURRENT and records the identity. *)
SwitchCurrent(w) ==
    /\ pub[w].pc = "switch"
    /\ \/ Valid(pub[w].s) /\ current' = pub[w].s /\ Goto(w, "record")
       \/ ~Valid(pub[w].s) /\ Abort(w) /\ UNCHANGED current
    /\ UNCHANGED <<rel, side, cands, apiVars, tampers>>

RecordCurrent(w) ==
    /\ pub[w].pc = "record" /\ WriteIdentity(pub[w].s) /\ Abort(w)
    /\ UNCHANGED <<rel, current, cands, apiVars, tampers>>

(* rollback is switch_current of a release that is there. *)
StartRollback(s) ==
    /\ pub["publisher"].pc = "idle" /\ rel[s] # None
    /\ pub' = [pub EXCEPT !["publisher"] =
                   [Idle EXCEPT !.pc = "switch", !.s = s]]
    /\ UNCHANGED <<diskVars, apiVars, tampers>>

(* validate_current: what it finds valid it records. *)
ValidateCurrent ==
    /\ pub["publisher"].pc = "idle" /\ CurrentIsBindable
    /\ WriteIdentity(current)
    /\ UNCHANGED <<rel, current, cands, pub, apiVars, tampers>>

------------------------------------------------------------------------------
(* current_publication_identity, in the API's process. *)

Answered == api' = [pc |-> "idle", key |-> None]

Cached(s) == Key(s) \in cache
SidecarExists(s) == side[s] # None
SidecarMatches(s) == side[s] # None /\ side[s] = rel[s].stamp

AnswerFromRecord ==
    /\ api.pc = "idle" /\ current # None
    /\ Cached(current) \/ SidecarMatches(current)
    /\ cache' = cache \cup {Key(current)} /\ Answered
    /\ UNCHANGED <<diskVars, pub, tampers>>

MissIdentity ==
    /\ api.pc = "idle" /\ current # None
    /\ ~Cached(current) /\ ~SidecarMatches(current)
    /\ api' = [pc |-> "check", key |-> Key(current)]
    /\ UNCHANGED <<diskVars, pub, cache, tampers>>

CheckIdentity ==
    /\ api.pc = "check"
    /\ LET s == api.key[1] IN
       \/ /\ Valid(s) /\ WriteIdentity(s)
          /\ cache' = cache \cup {Key(s), api.key}
       \/ /\ ~Valid(s) /\ cache' = {k \in cache : k[1] # s}
          /\ UNCHANGED side
    /\ Answered
    /\ UNCHANGED <<rel, current, cands, pub, tampers>>

------------------------------------------------------------------------------
(* The environment: files change under a release or a Candidate, are       *)
(* touched without a change, and processes die.                            *)

(* pub is at "record" right after it validated the release. *)
Recording(s) == \E w \in Writers : pub[w].pc = "record" /\ pub[w].s = s

Tamper(s, part) ==
    /\ tampers < MaxTampers /\ rel[s] # None /\ rel[s].payload[part] # None
    /\ ~Recording(s)
    /\ rel' = [rel EXCEPT ![s].payload[part] = Bad, ![s].stamp = @ + 1]
    /\ tampers' = tampers + 1
    /\ UNCHANGED <<side, current, cands, pub, apiVars>>

Touch(s) ==
    /\ tampers < MaxTampers /\ rel[s] # None
    /\ rel' = [rel EXCEPT ![s].stamp = @ + 1]
    /\ tampers' = tampers + 1
    /\ UNCHANGED <<side, current, cands, pub, apiVars>>

TamperCandidate(part) ==
    /\ tampers < MaxTampers /\ cands["publisher"] # None
    /\ cands' = [cands EXCEPT !["publisher"].payload[part] = Bad]
    /\ tampers' = tampers + 1
    /\ UNCHANGED <<rel, side, current, pub, apiVars>>

WriterDies(w) ==
    /\ pub[w].pc # "idle" /\ Abort(w)
    /\ UNCHANGED <<diskVars, apiVars, tampers>>

(* A new API process starts with an empty cache. *)
ApiRestarts ==
    /\ cache # {} \/ api.pc # "idle"
    /\ cache' = {} /\ api' = [pc |-> "idle", key |-> None]
    /\ UNCHANGED <<diskVars, pub, tampers>>
==============================================================================
