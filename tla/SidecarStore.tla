----------------------------- MODULE SidecarStore -----------------------------
(***************************************************************************)
(* SidecarStore of app/code_detail/sidecar_store.py for one file of one    *)
(* report: meta.json and the chunks of its lines, their caches, and an     *)
(* injection that writes the report again while requests read it.          *)
(*                                                                         *)
(* A file is the generation it was written by, which is also its stat      *)
(* signature: os.replace gives every generation a new mtime.  No file of   *)
(* the older one-file format lies beside them.                             *)
(***************************************************************************)
EXTENDS Naturals, FiniteSets

CONSTANTS
    Readers,       \* threads that read the store
    MaxGeneration, \* bound on the injections that write the report again
    MaxMetadata,   \* max_metadata_entries
    MaxChunks,     \* max_cached_chunks
    Oversize,      \* the caches whose entries may be over the byte limits
    Missing

ASSUME SidecarAssumption ==
    /\ MaxGeneration \in Nat
    /\ MaxMetadata \in Nat \ {0} /\ MaxChunks \in Nat \ {0}
    /\ Oversize \subseteq {"metadata", "chunk", "identity", "overlay"}
ASSUME MissingAssumption == Missing \notin Nat

VARIABLES
    disk,       \* the generation of each file
    metaCache,  \* _metadata_cache: signature and content
    chunkCache, \* _decoded_chunk_cache: key and content
    inflight,   \* _decoded_chunk_inflight: key and owner
    load        \* where a thread is in a read of the store

sidecarVars == <<disk, metaCache, chunkCache, inflight, load>>

Generations == 0 .. MaxGeneration

(* The effective identity of a decoded chunk: content hash and signature of *)
(* the metadata, signature of the chunk                                     *)
ChunkKeys == Generations \X Generations \X Generations

(* What a read has: the signature it took, the metadata, the chunk's key    *)
(* and content; "want" says whether the lines are asked for too.            *)
NoLoad == [at |-> "off", want |-> "meta", sig |-> Missing, meta |-> Missing,
           msig |-> Missing, lines |-> Missing]

SidecarInit ==
    /\ disk = [meta |-> 0, chunk |-> 0]
    /\ metaCache = {} /\ chunkCache = {}
    /\ inflight = {}
    /\ load = [t \in Readers |-> NoLoad]

Loads(t, fields) == load' = [load EXCEPT ![t] = [f \in DOMAIN @ |->
                        IF f \in DOMAIN fields THEN fields[f] ELSE @[f]]]

(* _cache_put_locked: entries go while the cache is too full or too large;  *)
(* an entry over the limits, or over the shared budget, is not kept.        *)
Puts(name, cache, entry, max) ==
    {kept \cup {entry} : kept \in {k \in SUBSET cache : Cardinality(k) < max}}
        \cup (IF name \in Oversize THEN SUBSET cache ELSE {})

-----------------------------------------------------------------------------
(* save_chunked_sidecar: the chunks are replaced first, meta.json last. *)

SaveChunks ==
    /\ disk.meta = disk.chunk
    /\ disk.chunk < MaxGeneration
    /\ disk' = [disk EXCEPT !.chunk = disk.chunk + 1]
    /\ UNCHANGED <<metaCache, chunkCache, inflight, load>>

SaveMeta ==
    /\ disk.meta < disk.chunk
    /\ disk' = [disk EXCEPT !.meta = disk.chunk]
    /\ UNCHANGED <<metaCache, chunkCache, inflight, load>>

-----------------------------------------------------------------------------
(* _load_chunked_metadata *)

AfterMeta(t) == IF load[t].want = "meta" THEN "done" ELSE "chunk"

(* The signature is taken; a cached entry of that signature answers. *)
StatMeta(t) ==
    /\ load[t].at = "meta"
    /\ \/ \E m \in metaCache :
             /\ m.sig = disk.meta
             /\ Loads(t, [at |-> AfterMeta(t), sig |-> disk.meta,
                          meta |-> m.meta, msig |-> m.sig])
       \/ /\ \A m \in metaCache : m.sig # disk.meta
          /\ Loads(t, [at |-> "open", sig |-> disk.meta])
    /\ UNCHANGED <<disk, metaCache, chunkCache, inflight>>

(* The file is read and validated, and cached under the signature unless    *)
(* another thread has done so.                                              *)
OpenMeta(t) ==
    LET entry == [sig |-> load[t].sig, meta |-> disk.meta]
        same == {m \in metaCache : m.sig = entry.sig} IN
    /\ load[t].at = "open"
    /\ IF same # {}
       THEN /\ UNCHANGED metaCache
            /\ \E m \in same : Loads(t, [at |-> AfterMeta(t), meta |-> m.meta, msig |-> m.sig])
       ELSE \* one key: the entry of the old signature goes
            /\ metaCache' \in Puts("metadata", {}, entry, MaxMetadata)
            /\ Loads(t, [at |-> AfterMeta(t), meta |-> entry.meta, msig |-> entry.sig])
    /\ UNCHANGED <<disk, chunkCache, inflight>>

(* It is unreadable, of another report, or lists a chunk that is missing:   *)
(* its entry goes, and there is no metadata.                                *)
OpenMetaFails(t) ==
    /\ load[t].at = "open"
    /\ metaCache' = {}
    /\ Loads(t, [at |-> "failed"])
    /\ UNCHANGED <<disk, chunkCache, inflight>>

-----------------------------------------------------------------------------
(* load_lines_ranges and _load_decoded_chunk *)

KeyOf(t) == <<load[t].meta, load[t].msig, load[t].sig>>
Owner(key) == {o \in inflight : o.key = key}

(* A decoded chunk of the key answers; else one thread decodes it and the   *)
(* others wait.                                                             *)
LooksFor(t, sig) ==
    LET key == <<load[t].meta, load[t].msig, sig>> IN
    /\ \/ \E c \in chunkCache :
             /\ c.key = key
             /\ Loads(t, [at |-> "done", sig |-> sig, lines |-> c.lines])
             /\ UNCHANGED inflight
       \/ /\ \A c \in chunkCache : c.key # key
          /\ IF Owner(key) = {}
             THEN /\ Loads(t, [at |-> "decode", sig |-> sig])
                  /\ inflight' = inflight \cup {[key |-> key, owner |-> t]}
             ELSE Loads(t, [at |-> "wait", sig |-> sig]) /\ UNCHANGED inflight
    /\ UNCHANGED <<disk, metaCache, chunkCache>>

(* The signature of the chunk is taken once. *)
LookupChunk(t) == load[t].at = "chunk" /\ LooksFor(t, disk.chunk)

(* Woken, a thread looks for the same key, whatever the file is now. *)
LookAgain(t) == load[t].at = "again" /\ LooksFor(t, load[t].sig)

(* The event of a chunk is set: whoever waits for it looks again. *)
Woken(t, then) ==
    [u \in Readers |->
        CASE u = t -> then
          [] u # t /\ load[u].at = "wait" /\ KeyOf(u) = KeyOf(t) -> [load[u] EXCEPT !.at = "again"]
          [] OTHER -> load[u]]

DecodeChunk(t) ==
    /\ load[t].at = "decode"
    /\ chunkCache' \in Puts("chunk", chunkCache, [key |-> KeyOf(t), lines |-> disk.chunk], MaxChunks)
    /\ load' = Woken(t, [load[t] EXCEPT !.at = "done", !.lines = disk.chunk])
    /\ inflight' = inflight \ Owner(KeyOf(t))
    /\ UNCHANGED <<disk, metaCache>>

(* Mutant: an exception leaves the in-flight entry. *)
KeepsOwner(t) == UNCHANGED inflight

ReleaseOwner(t) == inflight' = inflight \ Owner(KeyOf(t))

(* The chunk is missing or no JSON list. *)
DecodeFails(t) ==
    /\ load[t].at = "decode"
    /\ load' = Woken(t, [load[t] EXCEPT !.at = "failed"])
    /\ ReleaseOwner(t)
    /\ UNCHANGED <<disk, metaCache, chunkCache>>

(* A thread that waits for a chunk waits for one that is being decoded. *)
ChunkWaitersServed ==
    \A t \in Readers : load[t].at = "wait" =>
        \E o \in Owner(KeyOf(t)) : load[o.owner].at = "decode"

ReadStep(t) ==
    \/ StatMeta(t) \/ OpenMeta(t) \/ OpenMetaFails(t)
    \/ LookupChunk(t) \/ LookAgain(t) \/ DecodeChunk(t) \/ DecodeFails(t)
=============================================================================
