--------------------------- MODULE ReleasePublisher ---------------------------
(***************************************************************************)
(* ImmutableReleasePublisher of app/release_publication.py and the         *)
(* adoption of a Flat installation (scripts/release/current_adoption.py):  *)
(* the releases of the publication root and the pointer CURRENT.           *)
(*                                                                         *)
(* The candidate's manifests, provenance and hashes are abstracted to the  *)
(* outcome of their verification.  Each operation is a disjunct per        *)
(* outcome; ok is the caller's view of it.                                 *)
(***************************************************************************)
EXTENDS UpgradeHost

VARIABLES
    releases,   \* the complete directories under releases/
    current     \* the release CURRENT points to, None in a Flat layout

publisherVars == <<releases, current>>

PublisherTypeOK == releases \subseteq Ids /\ current \in Ids \cup {None}

FLAT == "FLAT"
IMMUTABLE_CURRENT == "IMMUTABLE_CURRENT"

(* classify_deployment, for an installation that has a Flat root. *)
Layout == IF current = None THEN FLAT ELSE IMMUTABLE_CURRENT

PublisherInit(layout) ==
    \/ layout = FLAT /\ releases = {} /\ current = None
    \/ layout = IMMUTABLE_CURRENT /\ releases = {0} /\ current = 0

(***************************************************************************)
(* _prepare: refuses a release that exists; everything else is verified    *)
(* and built in a staging directory, and one rename makes the release.     *)
(* Only the validation after the rename can fail with the release there.   *)
(***************************************************************************)
Prepare(id, ok) ==
    /\ ok => id \notin releases
    /\ \/ releases' = releases \cup {id}
       \/ ~ok /\ UNCHANGED releases
    /\ UNCHANGED current

(* switch_current: one rename, after the release has been validated. *)
SwitchCurrent(id, ok) ==
    /\ ok => id \in releases
    /\ current' = IF ok THEN id ELSE current
    /\ UNCHANGED releases

(* rollback switches CURRENT as publication does. *)
Rollback(id, ok) == SwitchCurrent(id, ok)

(* validate_current: CURRENT names a release whose files match its manifest. *)
CurrentIsValid == current \in releases

(* _ensure_flat_current_baseline: the Flat root becomes release 0 and       *)
(* CURRENT.  The checks that follow can fail with both in place.            *)
AdoptFlat(ok) ==
    \/ releases' = releases \cup {0} /\ current' = 0
    \/ ~ok /\ UNCHANGED publisherVars
    \/ ~ok /\ releases' = releases \cup {0} /\ UNCHANGED current
=============================================================================
