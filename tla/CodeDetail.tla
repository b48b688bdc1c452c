------------------------------ MODULE CodeDetail ------------------------------
(***************************************************************************)
(* VNextCodeDetailService (app/code_detail/vnext_service.py) as the HTTP   *)
(* API calls it: the layout of a file under one lease, its lines under two *)
(* leases with the sidecar read between and after them, and any other      *)
(* request as a holder of a lease.                                         *)
(*                                                                         *)
(* One file of one report: one base key of the identity cache.  Rows and   *)
(* identities are the data version they were read at.                      *)
(***************************************************************************)
EXTENDS ConnectionPool, SidecarStore, TLC

CONSTANTS
    MaxIdentities, \* max_identity_entries
    MaxOverlays,   \* max_overlay_entries
    MaxChanges     \* bound on the reviews and injections together

ASSUME ServiceAssumption == Readers = Threads
ASSUME CachesAssumption == MaxIdentities \in Nat \ {0} /\ MaxOverlays \in Nat \ {0}

VARIABLES
    identities, \* _identity_cache: the versions of the keys in it
    index,      \* _identity_index of the base key
    idFlight,   \* _identity_inflight: the owner
    overlays,   \* _overlay_cache: key and rows
    ovFlight,   \* _overlay_inflight: key and owner
    request     \* the request of a thread

serviceVars == <<identities, index, idFlight, overlays, ovFlight, request>>
vars == <<poolVars, sidecarVars, serviceVars>>

(* "began" is what was committed, and on disk, when the request came; it is *)
(* history.  "full" is the key read from the index.                         *)
NoRequest == [at |-> "idle", kind |-> "lines", full |-> None, id |-> None,
              rows |-> None, began |-> <<0, 0, 0>>]

Init ==
    /\ PoolInit /\ SidecarInit
    /\ identities = {} /\ index = None /\ idFlight = None
    /\ overlays = {} /\ ovFlight = {}
    /\ request = [t \in Threads |-> NoRequest]

At(t, place) == request[t].at = place
Goes(t, place) == request' = [request EXCEPT ![t].at = place]
Over(t) == request' = [request EXCEPT ![t] = NoRequest]
Free(t) == lease[t].at = "off"
Held(t) == lease[t].at = "held"

KeepPool == UNCHANGED poolVars
KeepStore == UNCHANGED <<disk, metaCache, chunkCache, inflight>>
KeepCaches == UNCHANGED <<identities, index, idFlight, overlays, ovFlight>>
Borrows(t) == Asks(t) /\ UNCHANGED <<version, snapshot, idle, active, connecting, shut, others>>
Reads(t, v) == ReadsAt(t, v) /\ UNCHANGED <<version, idle, active, connecting, shut, lease, others>>

-----------------------------------------------------------------------------
(* code_layout, code_lines and code_lines_batch of application.py *)

Begin(t, kind) ==
    /\ At(t, "idle")
    /\ ~shut   \* the HTTP server stops before the runtime closes its pool
    /\ request' = [request EXCEPT ![t] = [NoRequest EXCEPT
           !.at = "lookup", !.kind = kind, !.began = <<version, disk.meta, disk.chunk>>]]
    /\ Borrows(t)
    /\ UNCHANGED sidecarVars /\ KeepCaches

(* The pool is exhausted or shut, or cannot connect. *)
Refused(t) ==
    /\ lease[t].at = "refused"
    /\ Lease(t, "off", None)
    /\ Over(t)
    /\ load' = [load EXCEPT ![t] = NoLoad]
    /\ UNCHANGED <<version, snapshot, idle, active, connecting, shut, others>>
    /\ KeepStore /\ KeepCaches

-----------------------------------------------------------------------------
(* _identity *)

(* _store_service_entry_locked and _remove_service_entry_locked: the index  *)
(* entry goes with the key it names.                                        *)
Kept(keys) == IF index \in keys THEN index ELSE None

LookupIdentity(t) ==
    /\ At(t, "lookup") /\ Held(t)
    /\ request' = [request EXCEPT ![t].at = IF index \in identities THEN "check" ELSE "claim",
                                  ![t].full = index]
    /\ KeepPool /\ UNCHANGED sidecarVars /\ KeepCaches

(* The version query says what the cached identity says, and it is still    *)
(* the one in the cache.                                                    *)
StillCurrent(t, v) == v = request[t].full /\ v \in identities /\ index = v

(* The version is read without the lock: the entry answers, or is dropped   *)
(* if the index still names it.                                             *)
CheckIdentity(t) ==
    LET full == request[t].full IN
    /\ At(t, "check")
    /\ \E v \in Versions :
         /\ Reads(t, v)
         /\ IF StillCurrent(t, v)
            THEN /\ request' = [request EXCEPT ![t].at = "identified", ![t].id = full, ![t].full = None]
                 /\ UNCHANGED <<identities, index>>
            ELSE /\ request' = [request EXCEPT ![t].at = "claim", ![t].full = None]
                 /\ IF index = full
                    THEN index' = None /\ identities' = identities \ {full}
                    ELSE UNCHANGED <<identities, index>>
    /\ UNCHANGED sidecarVars /\ UNCHANGED <<idFlight, overlays, ovFlight>>

(* One thread loads the identity; the others wait, with their leases. *)
ClaimIdentity(t) ==
    /\ At(t, "claim")
    /\ IF idFlight = None
       THEN idFlight' = t /\ Goes(t, "load")
       ELSE Goes(t, "waitIdentity") /\ UNCHANGED idFlight
    /\ KeepPool /\ UNCHANGED sidecarVars
    /\ UNCHANGED <<identities, index, overlays, ovFlight>>

(* The event is set: those who wait look again. *)
WakeIdentity(t, mine) ==
    request' = [u \in Threads |->
        CASE u = t -> mine
          [] u # t /\ At(u, "waitIdentity") -> [request[u] EXCEPT !.at = "lookup"]
          [] OTHER -> request[u]]

(* Report, registry, file row and data version are read and agree; the      *)
(* identity is cached unless it is over the limits.                         *)
LoadIdentity(t) ==
    /\ At(t, "load")
    /\ \E v \in Versions :
         /\ Reads(t, v)
         /\ identities' \in Puts("identity", identities \ {v}, v, MaxIdentities)
         /\ index' = IF v \in identities' THEN v ELSE Kept(identities')
         /\ WakeIdentity(t, [request[t] EXCEPT !.at = "identified", !.id = v])
    /\ idFlight' = None
    /\ UNCHANGED sidecarVars /\ UNCHANGED <<overlays, ovFlight>>

(* The identity does not hold, or a statement raises: the claim is given up,*)
(* and the request fails.                                                   *)
LoadIdentityFails(t) ==
    /\ At(t, "load")
    /\ idFlight' = None
    /\ WakeIdentity(t, NoRequest)
    /\ Returns(t)
    /\ UNCHANGED sidecarVars /\ UNCHANGED <<identities, index, overlays, ovFlight>>

-----------------------------------------------------------------------------
(* layout keeps its lease while it reads the metadata; lines_batch gives it *)
(* back before, and takes another for the overlay.                          *)

ReadMeta(t) ==
    /\ At(t, "identified")
    /\ Goes(t, "meta")
    /\ IF request[t].kind = "layout" THEN KeepPool ELSE Returns(t)
    /\ load' = [load EXCEPT ![t] = [NoLoad EXCEPT !.at = "meta"]]
    /\ KeepStore /\ KeepCaches

(* The metadata is missing or of another schema or report, or the ranges    *)
(* are out of bounds.                                                       *)
MetaFails(t) ==
    /\ At(t, "meta") /\ load[t].at \in {"done", "failed"}
    /\ Over(t)
    /\ load' = [load EXCEPT ![t] = NoLoad]
    /\ IF Held(t) THEN Returns(t) ELSE KeepPool
    /\ KeepStore /\ KeepCaches

(* The layout keeps the metadata; the lines read it again later. *)
MetaRead(t) ==
    /\ At(t, "meta") /\ load[t].at = "done"
    /\ Goes(t, "overlay")
    /\ IF Held(t) THEN KeepPool /\ UNCHANGED load
                  ELSE Borrows(t) /\ load' = [load EXCEPT ![t] = NoLoad]
    /\ KeepStore /\ KeepCaches

-----------------------------------------------------------------------------
(* _overlay *)

OverlayKey(t) == <<request[t].id, request[t].kind>>
OverlayOwner(key) == {o \in ovFlight : o.key = key}

LookupOverlay(t) ==
    /\ At(t, "overlay") /\ Held(t)
    /\ \/ \E o \in overlays :
             /\ o.key = OverlayKey(t)
             /\ request' = [request EXCEPT ![t].at = "composed", ![t].rows = o.rows]
             /\ UNCHANGED ovFlight
       \/ /\ \A o \in overlays : o.key # OverlayKey(t)
          /\ IF OverlayOwner(OverlayKey(t)) = {}
             THEN Goes(t, "read") /\ ovFlight' = ovFlight \cup {[key |-> OverlayKey(t), owner |-> t]}
             ELSE Goes(t, "waitOverlay") /\ UNCHANGED ovFlight
    /\ KeepPool /\ UNCHANGED sidecarVars
    /\ UNCHANGED <<identities, index, idFlight, overlays>>

WakeOverlay(t, mine) ==
    request' = [u \in Threads |->
        CASE u = t -> mine
          [] u # t /\ At(u, "waitOverlay") /\ OverlayKey(u) = OverlayKey(t) ->
                [request[u] EXCEPT !.at = "overlay"]
          [] OTHER -> request[u]]

(* read_file, or the compatibility rows when the domain has none *)
ReadOverlay(t) ==
    /\ At(t, "read")
    /\ \E v \in Versions :
         /\ Reads(t, v)
         /\ overlays' \in Puts("overlay", overlays, [key |-> OverlayKey(t), rows |-> v], MaxOverlays)
         /\ WakeOverlay(t, [request[t] EXCEPT !.at = "composed", !.rows = v])
    /\ ovFlight' = ovFlight \ OverlayOwner(OverlayKey(t))
    /\ UNCHANGED sidecarVars /\ UNCHANGED <<identities, index, idFlight>>

ReadOverlayFails(t) ==
    /\ At(t, "read")
    /\ ovFlight' = ovFlight \ OverlayOwner(OverlayKey(t))
    /\ WakeOverlay(t, NoRequest)
    /\ Returns(t)
    /\ load' = [load EXCEPT ![t] = NoLoad] /\ KeepStore /\ UNCHANGED <<identities, index, idFlight, overlays>>

-----------------------------------------------------------------------------
(* render_lines_batch, without a lease: the metadata again, then the chunks *)
Render(t) ==
    /\ At(t, "composed") /\ request[t].kind = "lines"
    /\ Goes(t, "render")
    /\ Returns(t)
    /\ load' = [load EXCEPT ![t] = [NoLoad EXCEPT !.at = "meta", !.want = "lines"]]
    /\ KeepStore /\ KeepCaches

Answering(t) ==
    \/ At(t, "composed") /\ request[t].kind = "layout"
    \/ At(t, "render") /\ load[t].at = "done"

Answer(t) ==
    /\ Answering(t) \/ (At(t, "render") /\ load[t].at = "failed")
    /\ Over(t)
    /\ load' = [load EXCEPT ![t] = NoLoad]
    /\ IF Held(t) THEN Returns(t) ELSE KeepPool
    /\ KeepStore /\ KeepCaches

-----------------------------------------------------------------------------
RequestStep(t) ==
    \/ Refused(t)
    \/ LookupIdentity(t) \/ CheckIdentity(t) \/ ClaimIdentity(t)
    \/ LoadIdentity(t) \/ LoadIdentityFails(t)
    \/ ReadMeta(t) \/ MetaFails(t) \/ MetaRead(t)
    \/ LookupOverlay(t) \/ ReadOverlay(t) \/ ReadOverlayFails(t)
    \/ Render(t) \/ Answer(t)

Step(t) ==
    \/ RequestStep(t)
    \/ PoolStep(t) /\ UNCHANGED <<sidecarVars, serviceVars>>
    \/ ReadStep(t) /\ UNCHANGED <<poolVars, serviceVars>>

(* Reviews and injections do not meet in what they change: together they    *)
(* are bounded by MaxChanges.                                               *)
MayChange == version + disk.chunk < MaxChanges /\ ~shut

Next ==
    \/ \E t \in Threads : Step(t) \/ \E kind \in {"lines", "layout"} : Begin(t, kind)
    \/ MayChange /\ Review /\ UNCHANGED <<sidecarVars, serviceVars>>
    \/ (CloseAll \/ OthersBorrow \/ OthersReturn) /\ UNCHANGED <<sidecarVars, serviceVars>>
    \/ MayChange /\ SaveChunks /\ UNCHANGED <<poolVars, serviceVars>>
    \/ SaveMeta /\ UNCHANGED <<poolVars, serviceVars>>

Spec == Init /\ [][Next]_vars

(* Threads and connections are interchangeable. *)
Symmetry == Permutations(Conns) \cup Permutations(Threads)

-----------------------------------------------------------------------------
(* An answer shows every review committed before the request came, although *)
(* identity and overlay come from caches, snapshots and other requests'     *)
(* loads; and no file of the report in an older generation than it then had *)
(* (_identity, _overlay, rollback_if_dirty, _load_chunked_metadata).        *)
AnswerIsCurrent ==
    \A t \in Threads : Answering(t) =>
        /\ request[t].rows >= request[t].began[1]
        /\ load[t].meta >= request[t].began[2]
        /\ request[t].kind = "lines" => load[t].lines >= request[t].began[3]

(* A request that waits for another one's identity, overlay or chunk waits  *)
(* for a load that is going on: no load that fails, and no cache entry that *)
(* is dropped, leaves it waiting for an event nobody will set (_identity,   *)
(* _overlay, _load_decoded_chunk).                                          *)
WaitersAreServed ==
    /\ \A t \in Threads : At(t, "waitIdentity") => idFlight # None /\ At(idFlight, "load")
    /\ \A t \in Threads : At(t, "waitOverlay") =>
          \E o \in OverlayOwner(OverlayKey(t)) : At(o.owner, "read")
    /\ ChunkWaitersServed
=============================================================================
